--------------------- MODULE MutexVectorSpscQueueProofs ---------------------
(***************************************************************************)
(* The theorems about MutexVectorSpscQueue, for every capacity, word size, *)
(* set of values and of threads, with and without lifetimes and throwing   *)
(* constructors.                                                           *)
(***************************************************************************)
EXTENDS MutexVectorSpscQueue, RingIndexProofs

-----------------------------------------------------------------------------
(* The inductive invariant *)

\* Mutual exclusion: exactly the thread inside an operation holds the mutex.
MutexHeld == \A t \in Threads : mutex_ = t <=> pc[t] # "idle"

Size == Sub(producer_, consumer_)

Pushing == \E t \in Threads : pc[t] = "push_advance"

\* The indices stay within a lap, and so does every size that was read.
WithinLap ==
  /\ Size <= Capacity
  /\ \A t \in Threads : sizes[t] <= Capacity

\* Between the access to a slot and the advance of the index the operation has
\* found room, or a value.
Progress ==
  /\ Pushing => Size < Capacity /\ item \in Values
  /\ Popping => producer_ # consumer_ /\ item \in Values

Occupied == Between(producer_, consumer_)

\* The indices whose slot holds an object: those in the ring, except the one
\* try_pop has just destroyed, and the one emplace has just constructed.
Alive ==
  (Occupied \ (IF Popping THEN {consumer_} ELSE {}))
    \cup (IF Pushing THEN {producer_} ELSE {})

\* What the slots hold.
SlotContents ==
  /\ \A x \in Alive : slots_[Slot(x)] \in Values
  /\ Pushing => slots_[Slot(producer_)] = item
  /\ ~Trivial =>
       \A s \in SlotIds : slots_[s] # None => \E x \in Alive : Slot(x) = s

IInv ==
  /\ TypeOK
  /\ MutexHeld
  /\ WithinLap
  /\ Progress
  /\ SlotContents

-----------------------------------------------------------------------------
(* The mutex *)

Places == {"idle", "push", "push_advance", "pop", "pop_advance", "clear", "size"}

\* With the mutex free nobody is inside an operation.
LEMMA NobodyInside ==
  ASSUME MutexHeld, mutex_ = NoThread
  PROVE  /\ \A t \in Threads : pc[t] = "idle"
         /\ ~Pushing /\ ~Popping /\ ~Clearing
<1>1. \A t \in Threads : pc[t] = "idle"
  BY NoThreadAssumption DEF MutexHeld
<1>. QED
  BY <1>1 DEF Pushing, Popping, Clearing

\* The thread inside an operation is alone there.
LEMMA AloneInside ==
  ASSUME MutexHeld, NEW t \in Threads, pc[t] # "idle"
  PROVE  /\ mutex_ = t
         /\ \A u \in Threads : u # t => pc[u] = "idle"
         /\ Pushing <=> pc[t] = "push_advance"
         /\ Popping <=> pc[t] = "pop_advance"
         /\ Clearing <=> pc[t] = "clear"
<1>1. mutex_ = t /\ \A u \in Threads : u # t => pc[u] = "idle"
  BY DEF MutexHeld
<1>. QED
  BY <1>1 DEF Pushing, Popping, Clearing

\* Wherever a thread that is alone goes, it stays alone there.
LEMMA Goes ==
  ASSUME TypeOK, NEW t \in Threads, NEW place \in Places,
         \A u \in Threads : u # t => pc[u] = "idle",
         pc' = [pc EXCEPT ![t] = place],
         mutex_' = IF place = "idle" THEN NoThread ELSE t
  PROVE  /\ MutexHeld'
         /\ mutex_' \in Threads \cup {NoThread}
         /\ pc' \in [Threads -> Places]
         /\ Pushing' <=> place = "push_advance"
         /\ Popping' <=> place = "pop_advance"
         /\ Clearing' <=> place = "clear"
<1>1. pc \in [Threads -> Places]
  BY DEF TypeOK, Places
<1>2. pc'[t] = place /\ \A u \in Threads : u # t => pc'[u] = "idle"
  BY <1>1
<1>3. MutexHeld'
  BY <1>2, NoThreadAssumption DEF MutexHeld
<1>. QED
  BY <1>1, <1>2, <1>3 DEF Pushing, Popping, Clearing

\* A thread that takes the mutex is the only one inside an operation.
LEMMA Entered ==
  ASSUME TypeOK, MutexHeld, NEW t \in Threads, NEW place \in Places \ {"idle"},
         Lock(t, place)
  PROVE  /\ ~Pushing /\ ~Popping /\ ~Clearing
         /\ MutexHeld'
         /\ mutex_' \in Threads \cup {NoThread}
         /\ pc' \in [Threads -> Places]
         /\ Pushing' <=> place = "push_advance"
         /\ Popping' <=> place = "pop_advance"
         /\ Clearing' <=> place = "clear"
<1>1. \A u \in Threads : pc[u] = "idle"
  BY NobodyInside DEF Lock
<1>. QED
  BY <1>1, Goes, NobodyInside DEF Lock

\* A thread that leaves its operation leaves nobody inside.
LEMMA Left ==
  ASSUME TypeOK, MutexHeld, NEW t \in Threads, pc[t] # "idle", Return(t)
  PROVE  /\ MutexHeld'
         /\ mutex_' \in Threads \cup {NoThread}
         /\ pc' \in [Threads -> Places]
         /\ ~Pushing' /\ ~Popping' /\ ~Clearing'
<1>1. \A u \in Threads : u # t => pc[u] = "idle"
  BY AloneInside
<1>2. "idle" \in Places
  BY DEF Places
<1>. QED
  BY <1>1, <1>2, Goes DEF Return

\* A thread that goes on inside its operation stays alone there.
LEMMA WentOn ==
  ASSUME TypeOK, MutexHeld, NEW t \in Threads, pc[t] # "idle",
         NEW place \in Places \ {"idle"},
         pc' = [pc EXCEPT ![t] = place], mutex_' = mutex_
  PROVE  /\ MutexHeld'
         /\ mutex_' \in Threads \cup {NoThread}
         /\ pc' \in [Threads -> Places]
         /\ Pushing' <=> place = "push_advance"
         /\ Popping' <=> place = "pop_advance"
         /\ Clearing' <=> place = "clear"
<1>1. mutex_ = t /\ \A u \in Threads : u # t => pc[u] = "idle"
  BY AloneInside
<1>. QED
  BY <1>1, Goes

-----------------------------------------------------------------------------
(* Every step keeps the invariant *)

\* What the type invariant says of the ring.
LEMMA RingTypes ==
  ASSUME TypeOK
  PROVE  /\ producer_ \in Word /\ consumer_ \in Word
         /\ Size \in Nat
         /\ slots_ \in [SlotIds -> Values \cup {None}]
         /\ Slot(producer_) \in SlotIds /\ Slot(consumer_) \in SlotIds
         /\ \A x \in Word : Slot(x) \in SlotIds
<1>1. /\ producer_ \in Word /\ consumer_ \in Word
      /\ slots_ \in [SlotIds -> Values \cup {None}]
  BY DEF TypeOK
<1>. QED
  BY <1>1, SubRange, SlotInRange DEF Size

\* A new queue is empty and its mutex free.
LEMMA IInvInit == Init => IInv
<1>. SUFFICES ASSUME Init PROVE IInv
  OBVIOUS
<1>1. 0 \in Word /\ Sub(0, 0) = 0
  BY WordFacts, SubFacts DEF Word
<1>2. TypeOK
  <2>1. slots_ \in [SlotIds -> Values \cup {None}] /\ sizes \in [Threads -> Word]
    BY <1>1 DEF Init
  <2>. QED
    BY <1>1, <2>1 DEF Init, TypeOK
<1>3. MutexHeld
  BY NoThreadAssumption DEF Init, MutexHeld
<1>4. ~Pushing /\ ~Popping
  BY DEF Init, Pushing, Popping
<1>5. WithinLap
  BY <1>1, WordFacts DEF Init, WithinLap, Size
<1>6. Progress
  BY <1>4 DEF Progress
<1>7. Alive = {}
  BY <1>1, <1>4 DEF Init, Alive, Occupied, Between
<1>8. SlotContents
  BY <1>4, <1>7 DEF Init, SlotContents
<1>. QED
  BY <1>2, <1>3, <1>5, <1>6, <1>8 DEF IInv

\* A step that touches neither ring nor sizes, and neither begins nor ends a
\* change to the ring, keeps what the invariant says of them.
LEMMA RingUntouched ==
  ASSUME IInv, UNCHANGED <<producer_, consumer_, slots_, item, sizes>>,
         Pushing' <=> Pushing, Popping' <=> Popping
  PROVE  WithinLap' /\ Progress' /\ SlotContents'
<1>1. Alive' = Alive
  BY DEF Alive, Occupied
<1>. QED
  BY <1>1 DEF IInv, WithinLap, Progress, SlotContents, Size

\* The call of an operation waits for the mutex and takes it.
LEMMA CallStep ==
  ASSUME IInv, NEW t \in Threads, Call(t)
  PROVE  IInv'
<1>1. PICK place \in {"push", "pop", "clear", "size"} : Lock(t, place)
  BY DEF Call, PushLock, PopLock, ClearLock, SizeLock
<1>2. UNCHANGED <<producer_, consumer_, slots_, item, push_result, pop_result, sizes>>
  BY DEF Call, PushLock, PopLock, ClearLock, SizeLock
<1>3. place \in Places \ {"idle"}
  BY DEF Places
<1>4. /\ ~Pushing /\ ~Popping /\ ~Pushing' /\ ~Popping'
      /\ MutexHeld'
      /\ mutex_' \in Threads \cup {NoThread}
      /\ pc' \in [Threads -> Places]
  BY <1>1, <1>3, Entered DEF IInv
<1>5. TypeOK'
  BY <1>2, <1>4 DEF IInv, TypeOK, Places
<1>. QED
  BY <1>2, <1>4, <1>5, RingUntouched DEF IInv

\* A refusal, a throwing constructor and a look at the size leave the ring alone.
LEMMA LookStep ==
  ASSUME IInv, NEW t \in Threads,
         \/ PushFull(t) \/ PushThrows(t) \/ PopEmpty(t) \/ PopThrows(t)
         \/ SizeReturn(t)
  PROVE  IInv'
<1>. USE DEF PushFull, PushThrows, PopEmpty, PopThrows, SizeReturn, Throw
<1>1. pc[t] \in {"push", "pop", "size"} /\ Return(t)
  OBVIOUS
<1>2. UNCHANGED <<producer_, consumer_, slots_, item>>
  OBVIOUS
<1>3. /\ ~Pushing /\ ~Popping /\ ~Pushing' /\ ~Popping'
      /\ MutexHeld'
      /\ mutex_' \in Threads \cup {NoThread}
      /\ pc' \in [Threads -> Places]
  BY <1>1, AloneInside, Left DEF IInv
<1>4. sizes' = sizes \/ sizes' = [sizes EXCEPT ![t] = Size]
  BY DEF Size
<1>5. push_result' \in BOOLEAN /\ pop_result' \in Values \cup {None}
  BY DEF IInv, TypeOK
<1>6. TypeOK'
  <2>1. Size \in Word
    BY RingTypes, SubFacts DEF IInv, Size
  <2>2. sizes' \in [Threads -> Word]
    BY <1>4, <2>1 DEF IInv, TypeOK
  <2>. QED
    BY <1>2, <1>3, <1>5, <2>2 DEF IInv, TypeOK, Places
<1>7. WithinLap'
  BY <1>2, <1>4 DEF IInv, TypeOK, WithinLap, Size
<1>8. Progress'
  BY <1>3 DEF Progress
<1>9. SlotContents'
  <2>1. Alive' = Alive
    BY <1>2, <1>3 DEF Alive, Occupied
  <2>. QED
    BY <1>2, <1>3, <2>1 DEF IInv, SlotContents
<1>. QED
  BY <1>3, <1>6, <1>7, <1>8, <1>9 DEF IInv

\* emplace constructs in a slot of no value in the ring.
LEMMA PushConstructStep ==
  ASSUME IInv, NEW t \in Threads, NEW v \in Values, PushConstruct(t, v)
  PROVE  IInv'
<1>. DEFINE p == producer_
<1>. USE DEF PushConstruct
<1>1. ~Pushing /\ ~Popping /\ ~Popping' /\ Pushing' /\ MutexHeld'
      /\ mutex_' \in Threads \cup {NoThread}
      /\ pc' \in [Threads -> Places]
  BY AloneInside, WentOn DEF IInv, Places
<1>2. /\ p \in Word /\ consumer_ \in Word /\ Size \in Nat
      /\ slots_ \in [SlotIds -> Values \cup {None}] /\ Slot(p) \in SlotIds
      /\ slots_' = [slots_ EXCEPT ![Slot(p)] = v]
  BY RingTypes DEF IInv
<1>3. TypeOK'
  <2>1. slots_' \in [SlotIds -> Values \cup {None}]
    BY <1>2
  <2>. QED
    BY <1>1, <2>1 DEF IInv, TypeOK, Places
<1>4. Size < Capacity
  BY <1>2, WordFacts DEF IInv, WithinLap, Size
<1>5. WithinLap' /\ Progress'
  BY <1>1, <1>4 DEF IInv, WithinLap, Progress, Size
<1>6. Alive = Occupied /\ Alive' = Occupied \cup {p}
  BY <1>1 DEF Alive, Occupied
<1>7. \A x \in Occupied : Slot(x) \in SlotIds /\ Slot(x) # Slot(p)
  <2>1. Sub(p, consumer_) < Capacity /\ Sub(p, consumer_) <= Capacity
    BY <1>2, <1>4, WordFacts DEF Size
  <2>2. Sub(p, p) = 0
    BY <1>2, SubFacts
  <2>3. ASSUME NEW x \in Occupied PROVE x # p /\ x \in Word
    BY <2>2 DEF Occupied, Between
  <2>. QED
    BY <1>2, <2>1, <2>3, BetweenApart, SlotInRange DEF Occupied
<1>8. SlotContents'
  <2>1. \A x \in Alive' : slots_'[Slot(x)] \in Values
    BY <1>2, <1>6, <1>7 DEF IInv, SlotContents
  <2>2. slots_'[Slot(p)] = v
    BY <1>2
  <2>3. ASSUME ~Trivial, NEW s \in SlotIds, slots_'[s] # None
        PROVE  \E x \in Alive' : Slot(x) = s
    BY <1>2, <1>6, <2>3 DEF IInv, SlotContents
  <2>. QED
    BY <2>1, <2>2, <2>3 DEF SlotContents
<1>. QED
  BY <1>1, <1>3, <1>5, <1>8 DEF IInv

\* The advance of producer_ takes the new value into the ring.
LEMMA PushAdvanceStep ==
  ASSUME IInv, NEW t \in Threads, PushAdvance(t)
  PROVE  IInv'
<1>. USE DEF PushAdvance
<1>1. Pushing /\ ~Popping /\ ~Popping' /\ ~Pushing' /\ MutexHeld'
      /\ mutex_' \in Threads \cup {NoThread}
      /\ pc' \in [Threads -> Places]
  BY AloneInside, Left DEF IInv
<1>2. producer_ \in Word /\ consumer_ \in Word /\ Size < Capacity /\ Size \in Nat
  BY <1>1, RingTypes DEF IInv, Progress
<1>3. /\ producer_' \in Word
      /\ Size' = Size + 1
      /\ Occupied' = Occupied \cup {producer_}
  BY <1>2, BetweenPush DEF Size, Occupied
<1>4. TypeOK'
  BY <1>1, <1>3 DEF IInv, TypeOK, Places
<1>5. WithinLap' /\ Progress'
  BY <1>1, <1>2, <1>3, WordFacts DEF IInv, WithinLap, Progress
<1>6. Alive' = Alive
  BY <1>1, <1>3 DEF Alive
<1>7. SlotContents'
  BY <1>1, <1>6 DEF IInv, SlotContents
<1>. QED
  BY <1>1, <1>4, <1>5, <1>7 DEF IInv

\* What vacating the slot of the oldest value does to the slots: the values of
\* the others stay.
LEMMA OldestVacated ==
  ASSUME IInv, ~Pushing, ~Popping, producer_ # consumer_,
         slots_' = [slots_ EXCEPT ![Slot(consumer_)] = Vacated(@)]
  PROVE  /\ slots_[Slot(consumer_)] \in Values
         /\ slots_' \in [SlotIds -> Values \cup {None}]
         /\ consumer_ \in Occupied
         /\ \A x \in Occupied \ {consumer_} :
              /\ Slot(x) # Slot(consumer_)
              /\ slots_'[Slot(x)] = slots_[Slot(x)]
              /\ slots_'[Slot(x)] \in Values
         /\ ~Trivial => \A s \in SlotIds : slots_'[s] # None =>
              \E x \in Occupied \ {consumer_} : Slot(x) = s
<1>. DEFINE c == consumer_
<1>1. /\ producer_ \in Word /\ c \in Word /\ Size \in Nat
      /\ slots_ \in [SlotIds -> Values \cup {None}]
      /\ Slot(c) \in SlotIds /\ \A x \in Word : Slot(x) \in SlotIds
  BY RingTypes DEF IInv
<1>2. c \in Occupied /\ Alive = Occupied
  BY <1>1, BetweenPop DEF Occupied, Alive
<1>3. slots_[Slot(c)] \in Values
  BY <1>2 DEF IInv, SlotContents
<1>4. slots_' \in [SlotIds -> Values \cup {None}]
  BY <1>1 DEF Vacated
<1>5. ASSUME NEW x \in Occupied \ {c} PROVE Slot(x) # Slot(c) /\ Slot(x) \in SlotIds
  BY <1>1, <1>2, BetweenApart DEF IInv, WithinLap, Size, Occupied, Between
<1>6. \A x \in Occupied \ {c} :
        slots_'[Slot(x)] = slots_[Slot(x)] /\ slots_'[Slot(x)] \in Values
  BY <1>1, <1>2, <1>5 DEF IInv, SlotContents
<1>7. ASSUME ~Trivial, NEW s \in SlotIds, slots_'[s] # None
      PROVE  \E x \in Occupied \ {c} : Slot(x) = s
  <2>1. s # Slot(c) /\ slots_[s] # None
    BY <1>1, <1>7 DEF Vacated
  <2>. QED
    BY <1>2, <1>7, <2>1 DEF IInv, SlotContents
<1>. QED
  BY <1>2, <1>3, <1>4, <1>5, <1>6, <1>7

\* try_pop moves out the oldest value and no other.
LEMMA PopTakeStep ==
  ASSUME IInv, NEW t \in Threads, PopTake(t)
  PROVE  IInv'
<1>. USE DEF PopTake
<1>1. ~Pushing /\ ~Popping /\ Popping' /\ ~Pushing' /\ MutexHeld'
      /\ mutex_' \in Threads \cup {NoThread}
      /\ pc' \in [Threads -> Places]
  BY AloneInside, WentOn DEF IInv, Places
<1>2. item' \in Values /\ slots_' \in [SlotIds -> Values \cup {None}]
  BY <1>1, OldestVacated
<1>3. TypeOK'
  BY <1>1, <1>2 DEF IInv, TypeOK, Places
<1>4. WithinLap' /\ Progress'
  BY <1>1, <1>2 DEF IInv, WithinLap, Progress, Size
<1>5. Alive' = Occupied \ {consumer_}
  BY <1>1 DEF Alive, Occupied
<1>6. SlotContents'
  BY <1>1, <1>5, OldestVacated DEF SlotContents
<1>. QED
  BY <1>1, <1>3, <1>4, <1>6 DEF IInv

\* The advance of consumer_ takes the vacated slot out of the ring.
LEMMA PopAdvanceStep ==
  ASSUME IInv, NEW t \in Threads, PopAdvance(t)
  PROVE  IInv'
<1>. USE DEF PopAdvance
<1>1. ~Pushing /\ Popping /\ ~Popping' /\ ~Pushing' /\ MutexHeld'
      /\ mutex_' \in Threads \cup {NoThread}
      /\ pc' \in [Threads -> Places]
  BY AloneInside, Left DEF IInv
<1>2. producer_ \in Word /\ consumer_ \in Word /\ producer_ # consumer_ /\ Size \in Nat
  BY <1>1, RingTypes DEF IInv, Progress
<1>3. /\ consumer_' \in Word
      /\ Size' = Size - 1
      /\ Occupied' = Occupied \ {consumer_}
  BY <1>2, BetweenPop DEF Size, Occupied
<1>4. TypeOK'
  BY <1>1, <1>3 DEF IInv, TypeOK, Places
<1>5. WithinLap' /\ Progress'
  BY <1>1, <1>2, <1>3, WordFacts DEF IInv, WithinLap, Progress
<1>6. Alive' = Alive
  BY <1>1, <1>3 DEF Alive
<1>7. SlotContents'
  BY <1>1, <1>6 DEF IInv, SlotContents
<1>. QED
  BY <1>1, <1>4, <1>5, <1>7 DEF IInv

\* A turn of clear()'s loop destroys the oldest value and advances consumer_.
LEMMA ClearOneStep ==
  ASSUME IInv, NEW t \in Threads, ClearOne(t)
  PROVE  IInv'
<1>. USE DEF ClearOne
<1>1. ~Pushing /\ ~Popping /\ ~Popping' /\ ~Pushing'
  BY AloneInside DEF IInv, Pushing, Popping
<1>2. producer_ \in Word /\ consumer_ \in Word /\ Size \in Nat
  BY RingTypes DEF IInv
<1>3. /\ consumer_' \in Word
      /\ Size' = Size - 1
      /\ Occupied' = Occupied \ {consumer_}
  BY <1>2, BetweenPop DEF Size, Occupied
<1>4. slots_' \in [SlotIds -> Values \cup {None}]
  BY <1>1, OldestVacated
<1>5. TypeOK'
  BY <1>3, <1>4 DEF IInv, TypeOK
<1>6. WithinLap' /\ Progress' /\ MutexHeld'
  BY <1>1, <1>2, <1>3, WordFacts DEF IInv, WithinLap, Progress, MutexHeld
<1>7. Alive' = Occupied \ {consumer_}
  BY <1>1, <1>3 DEF Alive
<1>8. SlotContents'
  BY <1>1, <1>7, OldestVacated DEF SlotContents
<1>. QED
  BY <1>5, <1>6, <1>8 DEF IInv

\* clear() returns with the indices equal.
LEMMA ClearReturnStep ==
  ASSUME IInv, NEW t \in Threads, ClearReturn(t)
  PROVE  IInv'
<1>. USE DEF ClearReturn
<1>1. ~Pushing /\ ~Popping /\ ~Popping' /\ ~Pushing' /\ MutexHeld'
      /\ mutex_' \in Threads \cup {NoThread}
      /\ pc' \in [Threads -> Places]
  BY AloneInside, Left DEF IInv
<1>2. producer_ \in Word /\ consumer_' = producer_ /\ Size' = 0
  BY RingTypes, SubFacts DEF IInv, Size
<1>3. TypeOK'
  BY <1>1, <1>2 DEF IInv, TypeOK, Places
<1>4. WithinLap' /\ Progress'
  BY <1>1, <1>2, WordFacts DEF IInv, WithinLap, Progress
<1>5. Occupied' = {} /\ Alive' = {} /\ Alive = Occupied
  BY <1>1, <1>2 DEF Alive, Occupied, Between, Size
<1>6. ASSUME ~Trivial PROVE Occupied = {}
  <2>1. Size = 0
    BY <1>2, <1>6, SubFacts DEF Size
  <2>. QED
    BY <2>1 DEF Occupied, Between, Size
<1>7. SlotContents'
  BY <1>1, <1>5, <1>6 DEF IInv, SlotContents
<1>. QED
  BY <1>1, <1>3, <1>4, <1>7 DEF IInv

\* The invariant is inductive: one lemma per action, or per group of actions that
\* leave the ring alone.
LEMMA IInvStep == IInv /\ [Next]_vars => IInv'
<1>. SUFFICES ASSUME IInv, [Next]_vars PROVE IInv'
  OBVIOUS
<1>1. ASSUME NEW t \in Threads, Call(t) \/ Body(t)
      PROVE  IInv'
  BY <1>1, CallStep, LookStep, PushConstructStep, PushAdvanceStep, PopTakeStep,
     PopAdvanceStep, ClearOneStep, ClearReturnStep DEF Body
<1>2. CASE UNCHANGED vars
  <2>1. Pushing' = Pushing /\ Popping' = Popping
    BY <1>2 DEF vars, Pushing, Popping
  <2>2. WithinLap' /\ Progress' /\ SlotContents'
    BY <1>2, <2>1, RingUntouched DEF vars
  <2>3. TypeOK' /\ MutexHeld'
    BY <1>2 DEF vars, IInv, TypeOK, MutexHeld
  <2>. QED
    BY <2>2, <2>3 DEF IInv
<1>. QED
  BY <1>1, <1>2 DEF Next

\* The inductive invariant holds in every reachable state.
THEOREM InvariantHolds == Spec => []IInv
BY IInvInit, IInvStep, PTL DEF Spec

\* Every variable has its type: the indices stay in the word and every slot holds
\* a pushed value or nothing.
THEOREM TypeCorrect == Spec => []TypeOK
<1>1. IInv => TypeOK
  BY DEF IInv
<1>. QED
  BY <1>1, InvariantHolds, PTL

\* lock_guard: at most one thread is inside an operation, and one that has left it,
\* by an exception as well, does not hold the mutex.
THEOREM MutualExclusion == Spec => []MutexHeld
<1>1. IInv => MutexHeld
  BY DEF IInv
<1>. QED
  BY <1>1, InvariantHolds, PTL

\* size() is at most Capacity for every caller, and when no operation is running
\* objects live in the slots the indices say and in no others: emplace, try_pop
\* and clear leak no object and destroy none twice.
THEOREM SizesCorrect == Spec => []SizesInRange
<1>1. ASSUME IInv PROVE SizesInRange
  <2>1. ASSUME ~Trivial, mutex_ = NoThread, NEW s \in SlotIds
        PROVE  slots_[s] # None <=> \E x \in Occupied : Slot(x) = s
    <3>1. Alive = Occupied
      BY <1>1, <2>1, NobodyInside DEF IInv, Alive
    <3>. QED
      BY <1>1, <2>1, <3>1, NoneAssumption DEF IInv, SlotContents
  <2>2. \A s \in SlotIds :
          (\E x \in Occupied : Slot(x) = s)
            <=> \E x \in Word : /\ Slot(x) = s
                                /\ Sub(producer_, x) \in 1 .. Sub(producer_, consumer_)
    BY DEF Occupied, Between
  <2>. QED
    BY <1>1, <2>1, <2>2 DEF SizesInRange, IInv, WithinLap
<1>. QED
  BY <1>1, InvariantHolds, PTL

-----------------------------------------------------------------------------
(* The queue the ring stands for *)

\* A clear has emptied the queue from its first step on.
Length == IF Clearing THEN 0 ELSE Size

ValueAt(k) == IF k = 1 /\ Popping THEN item ELSE slots_[Slot(Nth(k))]

\* The k-th value is in a slot of its own.
LEMMA NthFacts ==
  ASSUME IInv, NEW k \in 1 .. Size
  PROVE  /\ Nth(k) \in Occupied
         /\ Slot(Nth(k)) \in SlotIds
         /\ k = 1 <=> Nth(k) = consumer_
<1>1. producer_ \in Word /\ consumer_ \in Word /\ Size \in Nat
  BY RingTypes DEF IInv
<1>2. k - 1 \in 0 .. Size /\ k - 1 < Size
  BY <1>1
<1>3. Nth(k) \in Occupied /\ (Nth(k) = consumer_ <=> k - 1 = 0) /\ Nth(k) \in Word
  BY <1>1, <1>2, AheadFacts DEF Nth, Size, Occupied
<1>. QED
  BY <1>3, SlotInRange

\* The queue the ring stands for: a sequence of at most Capacity values.
QueueInRing ==
  /\ Length \in 0 .. Capacity
  /\ Contents = [k \in 1 .. Length |-> ValueAt(k)]
  /\ Contents \in [1 .. Length -> Values]
  /\ Len(Contents) = Length
  /\ Length = 0 <=> Contents = << >>

\* In every state of the invariant the contents are such a sequence.
LEMMA ContentsFacts == IInv => QueueInRing
<1>. SUFFICES ASSUME IInv PROVE QueueInRing
  OBVIOUS
<1>1. Length \in Nat /\ Length <= Capacity
  BY RingTypes, WordFacts DEF IInv, WithinLap, Length
<1>2. Contents = [k \in 1 .. Length |-> ValueAt(k)]
  BY DEF Contents, Length, ValueAt, Size
<1>3. ASSUME NEW k \in 1 .. Length PROVE ValueAt(k) \in Values
  <2>1. k \in 1 .. Size
    BY <1>3 DEF Length
  <2>2. CASE k = 1 /\ Popping
    BY <2>2 DEF ValueAt, IInv, Progress
  <2>3. CASE ~(k = 1 /\ Popping)
    <3>1. Nth(k) \in Alive
      BY <2>1, <2>3, NthFacts DEF Alive
    <3>. QED
      BY <2>3, <3>1 DEF ValueAt, IInv, SlotContents
  <2>. QED
    BY <2>2, <2>3
<1>4. Contents \in [1 .. Length -> Values]
  BY <1>2, <1>3
<1>. QED
  BY <1>1, <1>2, <1>4, Sequence, WordFacts DEF QueueInRing

\* The same of the next state.
LEMMA ContentsFactsNext == IInv' => QueueInRing'
BY ContentsFacts, PTL

\* A step that leaves the ring alone leaves the contents alone.
LEMMA ContentsUntouched ==
  ASSUME UNCHANGED <<producer_, consumer_, slots_, item>>,
         Popping' <=> Popping, Clearing' <=> Clearing
  PROVE  Contents' = Contents
BY DEF Contents, Nth

\* Taking the mutex changes no contents, but for clear, which empties the queue.
LEMMA CallFifo ==
  ASSUME IInv, NEW t \in Threads, Call(t)
  PROVE  [Fifo!Next]_Fifo!fifoVars
<1>1. UNCHANGED <<producer_, consumer_, slots_, item, push_result, pop_result>>
  BY DEF Call, PushLock, PopLock, ClearLock, SizeLock
<1>2. CASE PushLock(t) \/ PopLock(t) \/ SizeLock(t)
  <2>1. PICK place \in {"push", "pop", "size"} : Lock(t, place)
    BY <1>2 DEF PushLock, PopLock, SizeLock
  <2>2. ~Popping /\ ~Popping' /\ ~Clearing /\ ~Clearing'
    BY <2>1, Entered DEF IInv, Places
  <2>3. Contents' = Contents
    BY <1>1, <2>2, ContentsUntouched
  <2>. QED
    BY <1>1, <2>3 DEF Fifo!fifoVars
<1>3. CASE ClearLock(t)
  <2>1. Clearing'
    BY <1>3, Entered DEF IInv, Places, ClearLock
  <2>2. Contents' = << >>
    BY <2>1, CallStep, ContentsFactsNext DEF QueueInRing, Length
  <2>3. Fifo!Clear
    BY <1>1, <2>2 DEF Fifo!Clear
  <2>. QED
    BY <2>3 DEF Fifo!Next
<1>. QED
  BY <1>2, <1>3 DEF Call

\* A refusal is true when it is given; an exception or a look at the size is no
\* step of the queue.
LEMMA LookFifo ==
  ASSUME IInv, NEW t \in Threads,
         \/ PushFull(t) \/ PushThrows(t) \/ PopEmpty(t) \/ PopThrows(t)
         \/ SizeReturn(t)
  PROVE  [Fifo!Next]_Fifo!fifoVars
<1>. USE DEF PushFull, PushThrows, PopEmpty, PopThrows, SizeReturn, Throw
<1>1. pc[t] \in {"push", "pop", "size"} /\ Return(t)
  OBVIOUS
<1>2. ~Popping /\ ~Popping' /\ ~Clearing /\ ~Clearing'
  BY <1>1, AloneInside, Left DEF IInv
<1>3. Contents' = Contents
  BY <1>2, ContentsUntouched
<1>4. Len(Contents) = Size /\ (Size = 0 <=> Contents = << >>)
  BY <1>2, ContentsFacts DEF QueueInRing, Length
<1>5. CASE PushFull(t)
  <2>1. Fifo!PushRefused
    BY <1>3, <1>4, <1>5 DEF Fifo!PushRefused, Size
  <2>. QED
    BY <2>1 DEF Fifo!Next
<1>6. CASE PopEmpty(t)
  <2>1. Size = 0
    BY <1>6, RingTypes, SubFacts DEF IInv, Size
  <2>2. Fifo!PopRefused
    BY <1>3, <1>4, <1>6, <2>1 DEF Fifo!PopRefused
  <2>. QED
    BY <2>2 DEF Fifo!Next
<1>7. CASE PushThrows(t) \/ PopThrows(t) \/ SizeReturn(t)
  BY <1>3, <1>7 DEF Fifo!fifoVars
<1>. QED
  BY <1>5, <1>6, <1>7

\* Filling a slot changes no value in the ring.
LEMMA PushConstructFifo ==
  ASSUME IInv, NEW t \in Threads, NEW v \in Values, PushConstruct(t, v)
  PROVE  Contents' = Contents
<1>. USE DEF PushConstruct
<1>1. ~Pushing /\ ~Popping /\ ~Popping' /\ ~Clearing /\ ~Clearing'
  BY AloneInside, WentOn DEF IInv, Places
<1>2. /\ producer_ \in Word /\ consumer_ \in Word /\ Size \in Nat
      /\ slots_ \in [SlotIds -> Values \cup {None}]
  BY RingTypes DEF IInv
<1>3. Size < Capacity
  BY <1>2, WordFacts DEF IInv, WithinLap, Size
<1>4. ASSUME NEW k \in 1 .. Size
      PROVE  slots_'[Slot(Nth(k))'] = slots_[Slot(Nth(k))]
  <2>1. Nth(k) \in Occupied /\ Slot(Nth(k)) \in SlotIds /\ Nth(k)' = Nth(k)
    BY NthFacts DEF Nth
  <2>2. Nth(k) # producer_
    BY <1>2, <2>1, SubFacts DEF Occupied, Between
  <2>3. Slot(Nth(k)) # Slot(producer_)
    BY <1>2, <1>3, <2>1, <2>2, BetweenApart, WordFacts DEF Occupied, Size
  <2>. QED
    BY <1>2, <2>1, <2>3 DEF Slot
<1>5. Size' = Size
  BY DEF Size
<1>6. Contents = [k \in 1 .. Size |-> slots_[Slot(Nth(k))]]
  BY <1>1 DEF Contents, Size
<1>7. Contents' = [k \in 1 .. Size |-> slots_'[Slot(Nth(k))']]
  BY <1>1, <1>5 DEF Contents, Size
<1>. QED
  BY <1>4, <1>6, <1>7

\* The advance of producer_ appends the value constructed.
LEMMA PushAdvanceFifo ==
  ASSUME IInv, NEW t \in Threads, PushAdvance(t)
  PROVE  Fifo!Push(item) /\ item \in Values
<1>. USE DEF PushAdvance
<1>1. Pushing /\ ~Popping /\ ~Popping' /\ ~Clearing /\ ~Clearing'
  BY AloneInside, Left DEF IInv
<1>2. /\ producer_ \in Word /\ consumer_ \in Word /\ Size \in Nat
      /\ Size < Capacity /\ item \in Values
  BY <1>1, RingTypes DEF IInv, Progress
<1>3. Length = Size /\ Length' = Size + 1
  BY <1>1, <1>2, BetweenPush DEF Length, Size
<1>4. IInv'
  BY PushAdvanceStep
<1>5. /\ Contents \in [1 .. Size -> Values]
      /\ Contents = [k \in 1 .. Size |-> ValueAt(k)]
      /\ Contents' \in [1 .. Size + 1 -> Values]
      /\ Contents' = [k \in 1 .. Size + 1 |-> ValueAt(k)']
      /\ Len(Contents) = Size
  BY <1>3, <1>4, ContentsFacts, ContentsFactsNext DEF QueueInRing
<1>6. \A k \in 1 .. Size + 1 :
        ValueAt(k) = slots_[Slot(Nth(k))] /\ ValueAt(k)' = slots_[Slot(Nth(k))]
  BY <1>1 DEF ValueAt, Nth
<1>7. \A k \in 1 .. Size : Contents'[k] = Contents[k]
  BY <1>2, <1>5, <1>6
<1>8. Contents'[Size + 1] = item
  <2>1. Nth(Size + 1) = producer_
    BY <1>2, AheadFacts DEF Nth, Size
  <2>2. slots_[Slot(producer_)] = item
    BY <1>1 DEF IInv, SlotContents
  <2>. QED
    BY <1>2, <1>5, <1>6, <2>1, <2>2
<1>9. Contents' = Append(Contents, item)
  <2>1. Contents' = Append(Contents, Contents'[Size + 1])
    BY <1>2, <1>5, <1>7, Appended
  <2>. QED
    BY <1>8, <2>1
<1>. QED
  BY <1>2, <1>5, <1>9 DEF Fifo!Push

\* Moving the oldest value out does not take it off the queue yet.
LEMMA PopTakeFifo ==
  ASSUME IInv, NEW t \in Threads, PopTake(t)
  PROVE  Contents' = Contents
<1>. USE DEF PopTake
<1>1. ~Pushing /\ ~Popping /\ Popping' /\ ~Clearing /\ ~Clearing'
  BY AloneInside, WentOn DEF IInv, Places
<1>2. Size' = Size
  BY DEF Size
<1>3. ASSUME NEW k \in 1 .. Size PROVE ValueAt(k)' = ValueAt(k)
  <2>1. Nth(k) \in Occupied /\ (k = 1 <=> Nth(k) = consumer_) /\ Nth(k)' = Nth(k)
    BY NthFacts DEF Nth
  <2>2. CASE k = 1
    BY <1>1, <2>1, <2>2 DEF ValueAt
  <2>3. CASE k # 1
    BY <1>1, <2>1, <2>3, OldestVacated DEF ValueAt
  <2>. QED
    BY <2>2, <2>3
<1>4. Contents = [k \in 1 .. Size |-> ValueAt(k)]
  BY <1>1 DEF Contents, Size, ValueAt
<1>5. Contents' = [k \in 1 .. Size |-> ValueAt(k)']
  BY <1>1, <1>2 DEF Contents, Size, ValueAt
<1>. QED
  BY <1>3, <1>4, <1>5

\* The advance of consumer_ takes the head off, and the head is what try_pop
\* returns.
LEMMA PopAdvanceFifo ==
  ASSUME IInv, NEW t \in Threads, PopAdvance(t)
  PROVE  Fifo!Pop
<1>. USE DEF PopAdvance
<1>1. Popping /\ ~Popping' /\ ~Clearing /\ ~Clearing'
  BY AloneInside, Left DEF IInv
<1>2. producer_ \in Word /\ consumer_ \in Word /\ producer_ # consumer_
  BY <1>1, RingTypes DEF IInv, Progress
<1>3. Size \in Nat \ {0} /\ Length = Size /\ Length' = Size - 1 /\ Size <= Capacity
  BY <1>1, <1>2, BetweenPop DEF Length, Size, IInv, WithinLap
<1>4. IInv'
  BY PopAdvanceStep
<1>5. /\ Contents \in [1 .. Size -> Values]
      /\ Contents = [k \in 1 .. Size |-> ValueAt(k)]
      /\ Contents' \in [1 .. Size - 1 -> Values]
      /\ Contents' = [k \in 1 .. Size - 1 |-> ValueAt(k)']
  BY <1>3, <1>4, ContentsFacts, ContentsFactsNext DEF QueueInRing
<1>6. ASSUME NEW k \in 1 .. Size - 1 PROVE Contents'[k] = Contents[k + 1]
  <2>1. k - 1 \in Nat /\ k - 1 < WordSize - 1 /\ (k - 1) + 1 = (k + 1) - 1
    BY <1>3, WordFacts
  <2>2. Nth(k)' = Nth(k + 1)
    BY <1>2, <2>1, AheadInc DEF Nth, Ahead
  <2>3. ValueAt(k)' = slots_[Slot(Nth(k + 1))] /\ ValueAt(k + 1) = slots_[Slot(Nth(k + 1))]
    BY <1>1, <2>2 DEF ValueAt, Slot
  <2>4. k + 1 \in 1 .. Size
    BY <1>3
  <2>. QED
    BY <1>5, <2>3, <2>4
<1>7. Contents # << >> /\ Head(Contents) = Contents[1] /\ Contents' = Tail(Contents)
  BY <1>3, <1>5, <1>6, TailOf
<1>8. Contents[1] = item
  BY <1>1, <1>3, <1>5 DEF ValueAt
<1>. QED
  BY <1>7, <1>8 DEF Fifo!Pop

\* clear() has emptied the queue already.
LEMMA ClearFifo ==
  ASSUME IInv, NEW t \in Threads, ClearOne(t) \/ ClearReturn(t)
  PROVE  Contents' = Contents
<1>1. Clearing
  BY AloneInside DEF IInv, ClearOne, ClearReturn
<1>2. Contents = << >>
  BY <1>1, ContentsFacts DEF QueueInRing, Length
<1>3. IInv'
  BY ClearOneStep, ClearReturnStep
<1>4. Length' = 0
  <2>1. CASE ClearOne(t)
    <3>1. Clearing'
      BY <1>1, <2>1 DEF ClearOne, Clearing
    <3>. QED
      BY <3>1 DEF Length
  <2>2. CASE ClearReturn(t)
    <3>1. Size' = 0
      BY <2>2, RingTypes, SubFacts DEF IInv, ClearReturn, Size
    <3>. QED
      BY <3>1 DEF Length
  <2>. QED
    BY <2>1, <2>2
<1>. QED
  BY <1>2, <1>3, <1>4, ContentsFactsNext DEF QueueInRing

\* The initial states map to the initial states of the FIFO queue.
LEMMA FifoInit == Init => Fifo!Init
<1>. SUFFICES ASSUME Init PROVE Fifo!Init
  OBVIOUS
<1>1. Size = 0
  BY WordFacts, SubFacts DEF Init, Size, Word
<1>2. Contents = << >>
  BY <1>1, IInvInit, ContentsFacts DEF QueueInRing, Length
<1>. QED
  BY <1>2 DEF Init, Fifo!Init

\* Every step maps to a step of the FIFO queue or to no change of it.
LEMMA FifoStep == IInv /\ [Next]_vars => [Fifo!Next]_Fifo!fifoVars
<1>. SUFFICES ASSUME IInv, [Next]_vars PROVE [Fifo!Next]_Fifo!fifoVars
  OBVIOUS
<1>1. ASSUME NEW t \in Threads, Call(t) PROVE [Fifo!Next]_Fifo!fifoVars
  BY <1>1, CallFifo
<1>2. ASSUME NEW t \in Threads, Body(t) PROVE [Fifo!Next]_Fifo!fifoVars
  <2>1. CASE \/ PushFull(t) \/ PushThrows(t) \/ PopEmpty(t) \/ PopThrows(t)
             \/ SizeReturn(t)
    BY <2>1, LookFifo
  <2>2. CASE \E v \in Values : PushConstruct(t, v)
    BY <2>2, PushConstructFifo DEF PushConstruct, Fifo!fifoVars
  <2>3. CASE PushAdvance(t)
    BY <2>3, PushAdvanceFifo DEF Fifo!Next
  <2>4. CASE PopTake(t)
    BY <2>4, PopTakeFifo DEF PopTake, Fifo!fifoVars
  <2>5. CASE PopAdvance(t)
    BY <2>5, PopAdvanceFifo DEF Fifo!Next
  <2>6. CASE ClearOne(t) \/ ClearReturn(t)
    BY <2>6, ClearFifo DEF ClearOne, ClearReturn, Fifo!fifoVars
  <2>. QED
    BY <1>2, <2>1, <2>2, <2>3, <2>4, <2>5, <2>6 DEF Body
<1>3. CASE UNCHANGED vars
  <2>1. Contents' = Contents
    BY <1>3, ContentsUntouched DEF vars, Popping, Clearing
  <2>. QED
    BY <1>3, <2>1 DEF vars, Fifo!fifoVars
<1>. QED
  BY <1>1, <1>2, <1>3 DEF Next

\* The ring behind the mutex implements the strict bounded FIFO queue: for any
\* number of threads no value is lost, duplicated, reordered or made up, a push is
\* refused only when the queue is full and a pop only when it is empty.
THEOREM ImplementsFifo == Spec => FifoSpec
BY FifoInit, FifoStep, InvariantHolds, PTL DEF Spec, FifoSpec, Fifo!Spec
=============================================================================
