---------------------------- MODULE DclpSingleton ----------------------------
(***************************************************************************)
(* DclpSingleton<T>::instance() of singleton.hpp, called by any thread at  *)
(* any time: a load of the pointer without the lock, and a slow path that  *)
(* looks again behind a mutex before it constructs.                        *)
(*                                                                         *)
(* Objects are numbered as they are constructed; 0 is the null pointer.    *)
(* The fast load may return a null that is out of date, but only to a      *)
(* thread that has not synchronised with the store.  aware and             *)
(* mutex_aware remember who has: the threads after whose last acquire      *)
(* (of the pointer or of the mutex) the construction has happened, and     *)
(* whether the last release of the mutex came after it.                    *)
(***************************************************************************)
EXTENDS Integers

CONSTANTS
  Threads,
  Free,        \* nobody holds the mutex
  MayThrow     \* the constructor of T may throw

ASSUME FreeAssumption == Free \notin Threads
ASSUME FlagsAssumption == MayThrow \in BOOLEAN

VARIABLES
  instance_ptr,
  constructed,   \* how many objects there are
  mutex,         \* who holds it
  pc, value,     \* where each call is, and its local pointer
  result,        \* the object each thread was last given, 0 before
  aware, mutex_aware

vars == <<instance_ptr, constructed, mutex, pc, value, result, aware,
          mutex_aware>>

Init ==
  /\ instance_ptr = 0
  /\ constructed = 0
  /\ mutex = Free
  /\ pc = [t \in Threads |-> "idle"]
  /\ value = [t \in Threads |-> 0]
  /\ result = [t \in Threads |-> 0]
  /\ aware = {}
  /\ mutex_aware = FALSE

-----------------------------------------------------------------------------
\* instance() is called.
Call(t) ==
  /\ pc[t] = "idle"
  /\ pc' = [pc EXCEPT ![t] = "load"]
  /\ UNCHANGED <<instance_ptr, constructed, mutex, value, result, aware,
                 mutex_aware>>

\* Mutant: the fast load is relaxed and synchronises with nothing.
FastPathRelaxed(t) ==
  /\ pc[t] = "load"
  /\ instance_ptr # 0
  /\ result' = [result EXCEPT ![t] = instance_ptr]
  /\ pc' = [pc EXCEPT ![t] = "idle"]
  /\ UNCHANGED <<instance_ptr, constructed, mutex, value, aware, mutex_aware>>

\* The acquire load finds the object.
FastPath(t) ==
  /\ pc[t] = "load"
  /\ instance_ptr # 0
  /\ result' = [result EXCEPT ![t] = instance_ptr]
  /\ aware' = aware \cup {t}
  /\ pc' = [pc EXCEPT ![t] = "idle"]
  /\ UNCHANGED <<instance_ptr, constructed, mutex, value, mutex_aware>>

\* The acquire load returns null, perhaps an old one.
Miss(t) ==
  /\ pc[t] = "load"
  /\ instance_ptr = 0 \/ t \notin aware
  /\ pc' = [pc EXCEPT ![t] = "lock"]
  /\ UNCHANGED <<instance_ptr, constructed, mutex, value, result, aware,
                 mutex_aware>>

-----------------------------------------------------------------------------
(* initialize_slow_path *)

Lock(t) ==
  /\ pc[t] = "lock"
  /\ mutex = Free
  /\ mutex' = t
  /\ aware' = IF mutex_aware THEN aware \cup {t} ELSE aware
  /\ pc' = [pc EXCEPT ![t] = "check"]
  /\ UNCHANGED <<instance_ptr, constructed, value, result, mutex_aware>>

\* Mutant: the pointer is not looked at again.
CheckNothing(t) ==
  /\ pc[t] = "check"
  /\ pc' = [pc EXCEPT ![t] = "construct"]
  /\ UNCHANGED <<instance_ptr, constructed, mutex, value, result, aware,
                 mutex_aware>>

\* The relaxed load under the lock.
Check(t) ==
  /\ pc[t] = "check"
  /\ value' = [value EXCEPT ![t] = instance_ptr]
  /\ pc' = [pc EXCEPT ![t] = IF instance_ptr = 0 THEN "construct" ELSE "return"]
  /\ UNCHANGED <<instance_ptr, constructed, mutex, result, aware, mutex_aware>>

\* Mutant: the pointer is published while the constructor still runs.
PublishUnconstructed(t) ==
  /\ pc[t] = "construct"
  /\ instance_ptr' = constructed + 1
  /\ value' = [value EXCEPT ![t] = constructed + 1]
  /\ aware' = {t}
  /\ pc' = [pc EXCEPT ![t] = "return"]
  /\ UNCHANGED <<constructed, mutex, result, mutex_aware>>

\* new T().  The new object is known to nobody else.
Construct(t) ==
  /\ pc[t] = "construct"
  /\ constructed' = constructed + 1
  /\ value' = [value EXCEPT ![t] = constructed + 1]
  /\ aware' = {t}
  /\ mutex_aware' = FALSE
  /\ pc' = [pc EXCEPT ![t] = "publish"]
  /\ UNCHANGED <<instance_ptr, mutex, result>>

\* The release store.
Publish(t) ==
  /\ pc[t] = "publish"
  /\ instance_ptr' = value[t]
  /\ pc' = [pc EXCEPT ![t] = "return"]
  /\ UNCHANGED <<constructed, mutex, value, result, aware, mutex_aware>>

\* The lock_guard goes out of scope.
Unlock(t) ==
  /\ mutex' = Free
  /\ mutex_aware' = (t \in aware)
  /\ pc' = [pc EXCEPT ![t] = "idle"]
  /\ value' = [value EXCEPT ![t] = 0]

\* Mutant: an exception leaves the mutex locked.
ThrowLocked(t) ==
  /\ MayThrow
  /\ pc[t] = "construct"
  /\ pc' = [pc EXCEPT ![t] = "idle"]
  /\ value' = [value EXCEPT ![t] = 0]
  /\ UNCHANGED <<instance_ptr, constructed, mutex, result, aware, mutex_aware>>

\* T's constructor throws out of instance(): nothing was published, and the
\* next caller tries again.
ConstructThrows(t) ==
  /\ MayThrow
  /\ pc[t] = "construct"
  /\ Unlock(t)
  /\ UNCHANGED <<instance_ptr, constructed, result, aware>>

Return(t) ==
  /\ pc[t] = "return"
  /\ result' = [result EXCEPT ![t] = value[t]]
  /\ Unlock(t)
  /\ UNCHANGED <<instance_ptr, constructed, aware>>

-----------------------------------------------------------------------------
Instance(t) ==
  \/ FastPath(t)
  \/ Miss(t)
  \/ Lock(t)
  \/ Check(t)
  \/ Construct(t)
  \/ Publish(t)
  \/ ConstructThrows(t)
  \/ Return(t)

Next == \E t \in Threads : Call(t) \/ Instance(t)

\* A thread inside instance() keeps running, and gets a mutex that stays free.
Fairness == \A t \in Threads : WF_vars(Instance(t))

Spec == Init /\ [][Next]_vars /\ Fairness

-----------------------------------------------------------------------------
\* In particular a pointer that is published is that of a constructed object.
TypeOK ==
  /\ constructed \in Nat
  /\ instance_ptr \in 0 .. constructed
  /\ mutex \in Threads \cup {Free}
  /\ pc \in [Threads -> {"idle", "load", "lock", "check", "construct", "publish",
                         "return"}]
  /\ {value, result} \subseteq [Threads -> 0 .. constructed]
  /\ aware \subseteq Threads
  /\ mutex_aware \in BOOLEAN

\* "Slow path constructs exactly once": there is never a second object, however
\* many threads found the pointer null, and all callers are given the same one.
ConstructsOnce ==
  /\ constructed <= 1
  /\ \A t \in Threads : result[t] \in {0, instance_ptr}

\* Whoever is given the object is given it constructed: the construction
\* happened before, through the pointer's release and acquire or through the
\* mutex.
ResultIsConstructed ==
  \A t \in Threads : result[t] # 0 => t \in aware

\* Once the constructor of T throws no more, every call returns, however many
\* threads call at once: a thread waits for the mutex while the others construct,
\* and nobody takes the slow path twice.
CallsReturn ==
  (<>[][\A t \in Threads : ~ConstructThrows(t)]_vars)
    => \A t \in Threads : pc[t] = "load" ~> pc[t] = "idle"
=============================================================================
