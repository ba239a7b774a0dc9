------------------------ MODULE DclpSingletonProofs ------------------------
(***************************************************************************)
(* The theorems about DclpSingleton, for any set of threads, with a        *)
(* constructor that throws or not, and with fast loads that may be out of  *)
(* date.                                                                   *)
(***************************************************************************)
EXTENDS DclpSingleton, TLAPS

-----------------------------------------------------------------------------
(* The inductive invariant *)

\* The places inside the slow path's block.
Critical == {"check", "construct", "publish", "return"}

\* Mutual exclusion: exactly the thread inside the block holds the mutex.
MutexHeld == \A t \in Threads : mutex = t <=> pc[t] \in Critical

\* What the thread in the block has established: whoever constructs is the
\* first, whoever publishes has the only object, whoever returns has been given
\* the published one.
Progress ==
  \A t \in Threads :
    /\ pc[t] = "check" /\ instance_ptr # 0 => t \in aware
    /\ pc[t] = "construct" => constructed = 0
    /\ pc[t] = "publish" => instance_ptr = 0 /\ value[t] = 1 /\ t \in aware
    /\ pc[t] = "return" => instance_ptr # 0 /\ value[t] = instance_ptr /\ t \in aware

\* An object is published, or is about to be by the thread in the block.
Published ==
  constructed = 1 => instance_ptr = 1 \/ \E t \in Threads : pc[t] = "publish"

\* Whoever takes a free mutex learns of a published object.
MutexTells == mutex = Free /\ instance_ptr # 0 => mutex_aware

IInv ==
  /\ TypeOK
  /\ MutexHeld
  /\ ConstructsOnce
  /\ ResultIsConstructed
  /\ Progress
  /\ Published
  /\ MutexTells

-----------------------------------------------------------------------------
\* Before the first call there is no object.
LEMMA IInvInit == Init => IInv
<1>. SUFFICES ASSUME Init PROVE IInv
  OBVIOUS
<1>1. TypeOK
  <2>1. 0 \in 0 .. constructed /\ constructed \in Nat
    BY DEF Init
  <2>2. {value, result} \subseteq [Threads -> 0 .. constructed]
    BY <2>1 DEF Init
  <2>. QED
    BY <2>1, <2>2 DEF Init, TypeOK
<1>2. \A t \in Threads : pc[t] = "idle" /\ result[t] = 0 /\ mutex # t
  BY FreeAssumption DEF Init
<1>3. MutexHeld
  BY <1>2 DEF MutexHeld, Critical
<1>4. ConstructsOnce /\ ResultIsConstructed
  BY <1>2 DEF Init, ConstructsOnce, ResultIsConstructed
<1>5. Progress
  BY <1>2 DEF Progress
<1>6. Published /\ MutexTells
  BY DEF Init, Published, MutexTells
<1>. QED
  BY <1>1, <1>3, <1>4, <1>5, <1>6 DEF IInv

\* Entering instance(), the fast path and a miss touch neither object nor mutex.
LEMMA OutsideStep ==
  ASSUME IInv, NEW t \in Threads, Call(t) \/ FastPath(t) \/ Miss(t)
  PROVE  IInv'
<1>. USE DEF IInv, TypeOK
<1>1. CASE Call(t)
  BY <1>1 DEF Call, MutexHeld, Critical, ConstructsOnce, ResultIsConstructed, Progress,
     Published, MutexTells
<1>2. CASE FastPath(t)
  BY <1>2 DEF FastPath, MutexHeld, Critical, ConstructsOnce, ResultIsConstructed,
     Progress, Published, MutexTells
<1>3. CASE Miss(t)
  BY <1>3 DEF Miss, MutexHeld, Critical, ConstructsOnce, ResultIsConstructed, Progress,
     Published, MutexTells
<1>. QED
  BY <1>1, <1>2, <1>3

\* Taking the mutex and looking at the pointer again.
LEMMA CheckStep ==
  ASSUME IInv, NEW t \in Threads, Lock(t) \/ Check(t)
  PROVE  IInv'
<1>. USE DEF IInv, TypeOK
<1>1. CASE Lock(t)
  BY <1>1, FreeAssumption DEF Lock, MutexHeld, Critical, ConstructsOnce,
     ResultIsConstructed, Progress, Published, MutexTells
<1>2. CASE Check(t)
  BY <1>2, FreeAssumption DEF Check, MutexHeld, Critical, ConstructsOnce,
     ResultIsConstructed, Progress, Published, MutexTells
<1>. QED
  BY <1>1, <1>2

\* A construction is the first: nobody has published or been given an object.
LEMMA ConstructStep ==
  ASSUME IInv, NEW t \in Threads, Construct(t)
  PROVE  IInv'
<1>. USE DEF IInv, TypeOK, Construct
<1>1. constructed = 0 /\ instance_ptr = 0 /\ constructed' = 1
  BY DEF Progress
<1>2. \A u \in Threads : result[u] = 0
  BY <1>1 DEF ConstructsOnce
<1>3. \A u \in Threads : u # t => pc[u] \notin Critical
  BY DEF MutexHeld, Critical
<1>4. TypeOK'
  <2>1. 0 .. constructed \subseteq 0 .. constructed'
    OBVIOUS
  <2>2. value' \in [Threads -> 0 .. constructed'] /\ result' \in [Threads -> 0 .. constructed']
    BY <2>1
  <2>3. aware' \subseteq Threads /\ mutex_aware' \in BOOLEAN
    OBVIOUS
  <2>4. pc' \in [Threads -> {"idle", "load", "lock", "check", "construct", "publish",
                            "return"}]
    OBVIOUS
  <2>. QED
    BY <2>1, <2>2, <2>3, <2>4
<1>5. MutexHeld'
  BY DEF MutexHeld, Critical
<1>6. ConstructsOnce' /\ ResultIsConstructed'
  BY <1>1, <1>2 DEF ConstructsOnce, ResultIsConstructed
<1>7. Progress'
  BY <1>1, <1>3 DEF Progress, Critical
<1>8. Published' /\ MutexTells'
  BY <1>1 DEF Published, MutexTells
<1>. QED
  BY <1>4, <1>5, <1>6, <1>7, <1>8

\* The object that is published is the only one.
LEMMA PublishStep ==
  ASSUME IInv, NEW t \in Threads, Publish(t)
  PROVE  IInv'
BY FreeAssumption DEF IInv, TypeOK, Publish, MutexHeld, Critical, ConstructsOnce,
   ResultIsConstructed, Progress, Published, MutexTells

\* Both ways out of the block leave the mutex free, and tell the next owner what
\* this one knows.
LEMMA UnlockStep ==
  ASSUME IInv, NEW t \in Threads, ConstructThrows(t) \/ Return(t)
  PROVE  IInv'
<1>. USE DEF IInv, TypeOK
<1>1. CASE ConstructThrows(t)
  BY <1>1, FreeAssumption DEF ConstructThrows, Unlock, MutexHeld, Critical,
     ConstructsOnce, ResultIsConstructed, Progress, Published, MutexTells
<1>2. CASE Return(t)
  <2>. USE <1>2 DEF Return, Unlock
  <2>1. value[t] = instance_ptr /\ t \in aware /\ pc[t] \in Critical
    BY DEF Progress, Critical
  <2>2. TypeOK'
    OBVIOUS
  <2>3. MutexHeld'
    BY <2>1, FreeAssumption DEF MutexHeld, Critical
  <2>4. ConstructsOnce' /\ ResultIsConstructed'
    BY <2>1 DEF ConstructsOnce, ResultIsConstructed
  <2>5. Progress' /\ Published'
    BY DEF Progress, Published
  <2>6. MutexTells'
    BY <2>1 DEF MutexTells
  <2>. QED
    BY <2>2, <2>3, <2>4, <2>5, <2>6
<1>. QED
  BY <1>1, <1>2

\* The invariant is inductive.
LEMMA IInvStep == IInv /\ [Next]_vars => IInv'
<1>. SUFFICES ASSUME IInv, [Next]_vars PROVE IInv'
  OBVIOUS
<1>1. ASSUME NEW t \in Threads, Call(t) \/ Instance(t)
      PROVE  IInv'
  BY <1>1, OutsideStep, CheckStep, ConstructStep, PublishStep, UnlockStep DEF Instance
<1>2. CASE UNCHANGED vars
  BY <1>2 DEF vars, IInv, TypeOK, MutexHeld, Critical, ConstructsOnce,
     ResultIsConstructed, Progress, Published, MutexTells
<1>. QED
  BY <1>1, <1>2 DEF Next

\* The inductive invariant holds in every reachable state.
THEOREM InvariantHolds == Spec => []IInv
BY IInvInit, IInvStep, PTL DEF Spec

\* Every variable has its type; a published pointer is that of a constructed
\* object.
THEOREM TypeCorrect == Spec => []TypeOK
<1>1. IInv => TypeOK
  BY DEF IInv
<1>. QED
  BY <1>1, InvariantHolds, PTL

\* instance(): however many threads race for the first call, and however often
\* the constructor throws, one object is constructed and all are given it.
THEOREM ConstructedOnce == Spec => []ConstructsOnce
<1>1. IInv => ConstructsOnce
  BY DEF IInv
<1>. QED
  BY <1>1, InvariantHolds, PTL

\* instance(): a thread is given the object only after its construction has
\* happened before, by the fast path as well as by the slow one.
THEOREM GivenConstructed == Spec => []ResultIsConstructed
<1>1. IInv => ResultIsConstructed
  BY DEF IInv
<1>. QED
  BY <1>1, InvariantHolds, PTL

\* initialize_slow_path: at most one thread is inside the block, and a thread that
\* has left it, by an exception as well, does not hold the mutex.
THEOREM MutualExclusion == Spec => []MutexHeld
<1>1. IInv => MutexHeld
  BY DEF IInv
<1>. QED
  BY <1>1, InvariantHolds, PTL
=============================================================================
