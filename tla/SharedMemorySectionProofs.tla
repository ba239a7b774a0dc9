--------------------- MODULE SharedMemorySectionProofs ---------------------
(***************************************************************************)
(* The theorems about SharedMemorySection, for every finite set of queues  *)
(* in any processes and of any layouts, whether or not the system calls    *)
(* may fail and the processes die.                                         *)
(***************************************************************************)
EXTENDS SharedMemorySection, FiniteSetTheorems, TLAPS

-----------------------------------------------------------------------------
(* The inductive invariant *)

\* How many queues of each process have the flag.
Owned(flag, x) == {q \in Queues : Process[q] = x /\ flag[q]}
Counts(flag) == [x \in Processes |-> Cardinality(Owned(flag, x))]

\* The kernel keeps for every process what its queues own.
Counting == handles = Counts(handle) /\ views = Counts(view)

\* The places of a queue with a view, and those where a queue that has one is the
\* creator of the section.
Mapped == {"clear", "mark", "fill", "publish", "wait", "open"}
Laying == {"clear", "mark", "fill", "publish"}

\* What a queue owns at each place.
Ownership ==
  \A q \in Queues :
    /\ handle[q] <=> pc[q] # "closed"
    /\ view[q] <=> pc[q] \in Mapped
    /\ pc[q] \in {"closed", "refuse", "wait"} => ~created_[q]
    /\ pc[q] \in Laying => created_[q]
    /\ pc[q] \in Mapped => ~last_error_[q]

InUse == \E q \in Queues : pc[q] # "closed"

\* A queue that has created the section and not made it ready.
Creating(q) == created_[q] /\ pc[q] \in Initializing

Ready == section.init_state = "kInitReady"

\* The section lives as long as someone uses it, has one creator at most, which
\* makes it ready last of all, and can be unfinished only as long as that creator
\* is at work or when it has left an orphan.
SectionInv ==
  /\ section # None <=> InUse
  /\ \A q, r \in Queues : created_[q] /\ created_[r] => q = r
  /\ section # None => /\ Ready => section.layout # None
                       /\ Ready \/ orphaned \/ \E q \in Queues : Creating(q)
  /\ \A q \in Queues :
       /\ Creating(q) => ~Ready
       /\ pc[q] = "publish" => section.layout = Layout[q]
       /\ pc[q] = "open" => Ready /\ section.layout = Layout[q]

IInv == TypeOK /\ Counting /\ Ownership /\ SectionInv

-----------------------------------------------------------------------------
(* Counting what the queues own *)

\* A process owns a finite number of handles or views, one per queue at most.
LEMMA OwnedFinite ==
  ASSUME NEW flag, NEW x
  PROVE  /\ IsFiniteSet(Owned(flag, x))
         /\ Cardinality(Owned(flag, x)) \in 0 .. Cardinality(Queues)
<1>1. Owned(flag, x) \in SUBSET Queues
  BY DEF Owned
<1>2. IsFiniteSet(Owned(flag, x)) /\ Cardinality(Owned(flag, x)) <= Cardinality(Queues)
  BY <1>1, QueuesAssumption, FS_Subset
<1>3. Cardinality(Queues) \in Nat /\ Cardinality(Owned(flag, x)) \in Nat
  BY <1>2, QueuesAssumption, FS_CardinalityType
<1>. QED
  BY <1>2, <1>3

\* The counts are as large as the kernel's.
LEMMA CountsType ==
  ASSUME NEW flag
  PROVE  Counts(flag) \in [Processes -> 0 .. Cardinality(Queues)]
BY OwnedFinite DEF Counts

\* A queue that gets what it had not is one more for its process.
LEMMA CountsGain ==
  ASSUME NEW flag \in [Queues -> BOOLEAN], NEW q \in Queues, ~flag[q]
  PROVE  Adds(Counts(flag), Process[q], 1) = Counts([flag EXCEPT ![q] = TRUE])
<1>. DEFINE new == [flag EXCEPT ![q] = TRUE]
<1>1. Owned(new, Process[q]) = Owned(flag, Process[q]) \cup {q}
  BY DEF Owned
<1>2. q \notin Owned(flag, Process[q])
  BY DEF Owned
<1>3. Cardinality(Owned(new, Process[q])) = Cardinality(Owned(flag, Process[q])) + 1
  BY <1>1, <1>2, OwnedFinite, FS_AddElement
<1>4. ASSUME NEW x, x # Process[q]
      PROVE  Owned(new, x) = Owned(flag, x)
  BY <1>4 DEF Owned
<1>. QED
  BY <1>3, <1>4 DEF Adds, Counts

\* A queue that lets go of what it has, if it has it, is one less.
LEMMA CountsLoss ==
  ASSUME NEW flag \in [Queues -> BOOLEAN], NEW q \in Queues
  PROVE  Adds(Counts(flag), Process[q], -CountOf(flag[q]))
           = Counts([flag EXCEPT ![q] = FALSE])
<1>. DEFINE new == [flag EXCEPT ![q] = FALSE]
<1>1. Owned(new, Process[q]) = Owned(flag, Process[q]) \ {q}
  BY DEF Owned
<1>2. q \in Owned(flag, Process[q]) <=> flag[q]
  BY DEF Owned
<1>3. Cardinality(Owned(new, Process[q]))
        = Cardinality(Owned(flag, Process[q])) - CountOf(flag[q])
  <2>. DEFINE S == Owned(flag, Process[q])
  <2>1. IsFiniteSet(S) /\ Cardinality(S) \in Int
    BY OwnedFinite
  <2>2. Cardinality(S \ {q}) = IF q \in S THEN Cardinality(S) - 1 ELSE Cardinality(S)
    BY <2>1, FS_RemoveElement
  <2>. HIDE DEF S, new
  <2>3. CASE flag[q]
    BY <1>1, <1>2, <2>1, <2>2, <2>3 DEF CountOf, S
  <2>4. CASE ~flag[q]
    BY <1>1, <1>2, <2>1, <2>2, <2>4 DEF CountOf, S
  <2>. QED
    BY <2>3, <2>4
<1>4. ASSUME NEW x, x # Process[q]
      PROVE  Owned(new, x) = Owned(flag, x)
  BY <1>4 DEF Owned
<1>. QED
  BY <1>3, <1>4, OwnedFinite DEF Adds, Counts, CountOf

\* A move between two queues of a process costs it what the target had.
LEMMA CountsMove ==
  ASSUME NEW flag \in [Queues -> BOOLEAN], NEW p \in Queues, NEW q \in Queues,
         p # q, Process[p] = Process[q]
  PROVE  Adds(Counts(flag), Process[q], -CountOf(flag[q]))
           = Counts(Moved(flag, p, q, FALSE))
<1>. DEFINE dropped == [flag EXCEPT ![q] = FALSE]
            taken == [dropped EXCEPT ![p] = FALSE]
<1>1. dropped \in [Queues -> BOOLEAN] /\ taken \in [Queues -> BOOLEAN]
  OBVIOUS
<1>2. Adds(Counts(flag), Process[q], -CountOf(flag[q])) = Counts(dropped)
  BY CountsLoss
<1>3. CASE flag[p]
  <2>1. Adds(Counts(dropped), Process[p], -CountOf(dropped[p])) = Counts(taken)
    BY <1>1, CountsLoss
  <2>2. Adds(Counts(taken), Process[q], 1) = Counts([taken EXCEPT ![q] = TRUE])
    BY <1>1, CountsGain
  <2>3. [taken EXCEPT ![q] = TRUE] = Moved(flag, p, q, FALSE)
    BY <1>3 DEF Moved
  <2>4. CountOf(dropped[p]) = 1
    BY <1>3 DEF CountOf
  <2>5. Adds(Adds(Counts(dropped), Process[p], -1), Process[q], 1) = Counts(dropped)
    <3>1. ASSUME NEW n \in [Processes -> Int], NEW x
          PROVE  Adds(Adds(n, x, -1), x, 1) = n
      <4>. DEFINE less == Adds(n, x, -1)
                  again == Adds(less, x, 1)
      <4>1. less = [y \in Processes |-> IF y = x THEN n[y] + (-1) ELSE n[y]]
        BY DEF Adds
      <4>2. again = [y \in Processes |-> IF y = x THEN less[y] + 1 ELSE less[y]]
        BY <4>1 DEF Adds
      <4>3. \A y \in Processes : again[y] = n[y]
        BY <4>1, <4>2
      <4>. QED
        BY <4>2, <4>3
    <3>2. Counts(dropped) \in [Processes -> Int]
      BY OwnedFinite DEF Counts
    <3>. QED
      BY <3>1, <3>2
  <2>. QED
    BY <1>2, <2>1, <2>2, <2>3, <2>4, <2>5
<1>4. CASE ~flag[p]
  <2>1. dropped = Moved(flag, p, q, FALSE)
    BY <1>4 DEF Moved
  <2>. QED
    BY <1>2, <2>1
<1>. QED
  BY <1>3, <1>4

\* A process whose queues are all fresh has nothing, and the others have what
\* they had.
LEMMA CountsFresh ==
  ASSUME NEW flag \in [Queues -> BOOLEAN], NEW x \in Processes
  PROVE  [Counts(flag) EXCEPT ![x] = 0]
           = Counts([q \in Queues |-> IF Process[q] = x THEN FALSE ELSE flag[q]])
<1>. DEFINE new == [q \in Queues |-> IF Process[q] = x THEN FALSE ELSE flag[q]]
<1>1. Cardinality(Owned(new, x)) = 0
  <2>1. Owned(new, x) = {}
    BY DEF Owned
  <2>. QED
    BY <2>1, FS_EmptySet
<1>2. ASSUME NEW y, y # x
      PROVE  Owned(new, y) = Owned(flag, y)
  BY <1>2 DEF Owned
<1>. QED
  BY <1>1, <1>2 DEF Counts

\* Nobody owns anything at first.
LEMMA CountsNone == [p \in Processes |-> 0] = Counts([q \in Queues |-> FALSE])
<1>1. \A x : Owned([q \in Queues |-> FALSE], x) = {}
  BY DEF Owned
<1>. QED
  BY <1>1, FS_EmptySet DEF Counts

\* The kernel keeps the section exactly as long as some queue has a handle.
LEMMA KeptWhileHeld ==
  ASSUME NEW s, NEW f \in [Queues -> BOOLEAN], NEW g \in [Queues -> BOOLEAN],
         \A q \in Queues : g[q] => f[q]
  PROVE  Kept(s, Counts(f), Counts(g)) = IF \E q \in Queues : f[q] THEN s ELSE None
<1>1. ASSUME NEW q \in Queues, f[q]
      PROVE  \E x \in Processes : Counts(f)[x] + Counts(g)[x] > 0
  <2>1. Process[q] \in Processes
    BY DEF Processes
  <2>2. Owned(f, Process[q]) # {}
    BY <1>1 DEF Owned
  <2>3. Cardinality(Owned(f, Process[q])) # 0
    BY <2>2, OwnedFinite, FS_EmptySet
  <2>. QED
    BY <2>1, <2>3, OwnedFinite DEF Counts
<1>2. ASSUME NEW x \in Processes, Counts(f)[x] + Counts(g)[x] > 0
      PROVE  \E q \in Queues : f[q]
  <2>1. CASE Owned(f, x) = {} /\ Owned(g, x) = {}
    BY <1>2, <2>1, FS_EmptySet DEF Counts
  <2>2. CASE Owned(f, x) # {} \/ Owned(g, x) # {}
    BY <2>2 DEF Owned
  <2>. QED
    BY <2>1, <2>2
<1>. QED
  BY <1>1, <1>2 DEF Kept

-----------------------------------------------------------------------------
(* The invariant is inductive *)

\* Nobody has opened anything at first.
LEMMA InitIInv == Init => IInv
<1>. SUFFICES ASSUME Init PROVE IInv
  OBVIOUS
<1>1. 0 \in 0 .. Cardinality(Queues)
  BY QueuesAssumption, FS_CardinalityType
<1>2. TypeOK
  BY <1>1 DEF Init, TypeOK, Initializing
<1>3. Counting
  BY CountsNone DEF Init, Counting
<1>4. Ownership
  BY DEF Init, Ownership, Mapped, Laying
<1>5. SectionInv
  BY DEF Init, SectionInv, InUse, Creating, Initializing
<1>. QED
  BY <1>2, <1>3, <1>4, <1>5 DEF IInv

\* What the kernel does when queues let go: the section ends with the last of
\* them.
LEMMA LastOneOut ==
  ASSUME TypeOK', Counting', Ownership', section' = Kept(section, handles', views')
  PROVE  section' = IF InUse' THEN section ELSE None
<1>1. {handle', view'} \subseteq [Queues -> BOOLEAN]
  BY DEF TypeOK
<1>2. \A q \in Queues : view'[q] => handle'[q]
  BY DEF Ownership, Mapped
<1>3. section' = IF \E q \in Queues : handle'[q] THEN section ELSE None
  BY <1>1, <1>2, KeptWhileHeld DEF Counting
<1>. QED
  BY <1>3 DEF Ownership, InUse

\* An open that is refused leaves everything but the error of a closed queue.
LEMMA RefusedStep ==
  ASSUME IInv, NEW q \in Queues, pc[q] = "closed",
         last_error_' = [last_error_ EXCEPT ![q] = TRUE],
         UNCHANGED <<supported, section, kernelVars, handle, view, created_, pc,
                     orphaned>>
  PROVE  IInv'
<1>1. TypeOK'
  BY DEF IInv, TypeOK, kernelVars
<1>2. Counting'
  BY DEF IInv, Counting, kernelVars
<1>3. Ownership'
  BY DEF IInv, TypeOK, Ownership, Mapped
<1>4. SectionInv'
  BY DEF IInv, SectionInv, InUse, Creating, Ready
<1>. QED
  BY <1>1, <1>2, <1>3, <1>4 DEF IInv

\* The section is opened or created.
LEMMA OpenHandleStep ==
  ASSUME IInv, NEW q \in Queues, NEW mode \in Modes, OpenHandle(q, mode)
  PROVE  IInv'
<1>. USE DEF IInv
<1>1. created_'[q] <=> section = None
  BY DEF OpenHandle, RememberCreated, TypeOK
<1>2. pc'[q] \in {"refuse", "map"} /\ (pc'[q] = "refuse" => ~created_'[q])
  BY DEF OpenHandle, TypeOK
<1>3. section' \in Sections /\ section' # None
  <2>1. NewSection(Layout[q]) \in Sections
    BY DEF NewSection, Sections, Layouts, InitStates
  <2>. QED
    BY <2>1, NoneAssumption DEF OpenHandle, TypeOK
<1>4. Counting'
  <2>1. ~handle[q]
    BY DEF Ownership, OpenHandle
  <2>2. handles' = Counts(handle')
    BY <2>1, CountsGain DEF Counting, OpenHandle, TypeOK
  <2>. QED
    BY <2>2 DEF Counting, OpenHandle
<1>5. TypeOK'
  <2>1. handles' \in [Processes -> 0 .. Cardinality(Queues)]
    BY <1>4, CountsType DEF Counting
  <2>2. section' \in Sections \cup {None}
    BY <1>3
  <2>3. pc' \in [Queues -> {"closed", "refuse", "wait", "open"} \cup Initializing]
    BY <1>2 DEF OpenHandle, TypeOK, Initializing
  <2>4. created_' \in [Queues -> BOOLEAN]
    BY DEF OpenHandle, RememberCreated, TypeOK
  <2>. QED
    BY <2>1, <2>2, <2>3, <2>4 DEF OpenHandle, TypeOK
<1>6. \A r \in Queues : r # q => /\ pc'[r] = pc[r] /\ created_'[r] = created_[r]
                                 /\ handle'[r] = handle[r]
  BY DEF OpenHandle, RememberCreated, TypeOK
<1>7. Ownership'
  <2>1. handle'[q]
    BY DEF OpenHandle, TypeOK
  <2>2. view' = view /\ last_error_' = last_error_ /\ ~view[q]
    BY DEF OpenHandle, Ownership, Mapped
  <2>. QED
    BY <1>1, <1>2, <1>6, <2>1, <2>2 DEF Ownership, Mapped, Laying
<1>8. SectionInv'
  <2>1. InUse'
    BY <1>2 DEF InUse
  <2>2. CASE section = None
    <3>1. \A r \in Queues : pc[r] = "closed" /\ ~created_[r]
      BY <2>2 DEF SectionInv, InUse, Ownership
    <3>2. \A r \in Queues : r # q => pc'[r] = "closed" /\ ~created_'[r]
      BY <1>6, <3>1
    <3>3. section' = NewSection(Layout[q])
      BY <2>2 DEF OpenHandle
    <3>4. ~Ready'
      BY <3>3 DEF Ready, NewSection
    <3>5. Creating(q)'
      BY <1>1, <1>2, <2>2 DEF Creating, Initializing
    <3>. QED
      BY <1>2, <1>3, <2>1, <3>2, <3>4, <3>5 DEF SectionInv, Creating, Initializing
  <2>3. CASE section # None
    <3>1. section' = section /\ orphaned' = orphaned /\ ~created_'[q]
      BY <1>1, <2>3 DEF OpenHandle
    <3>2. pc[q] = "closed" /\ ~created_[q]
      BY DEF OpenHandle, Ownership
    <3>3. \A r \in Queues : Creating(r)' <=> Creating(r)
      BY <1>6, <3>1, <3>2 DEF Creating
    <3>. QED
      BY <1>2, <1>3, <1>6, <2>1, <2>3, <3>1, <3>2, <3>3 DEF SectionInv, Ready
  <2>. QED
    BY <2>2, <2>3
<1>. QED
  BY <1>4, <1>5, <1>7, <1>8

\* A queue gives up or closes: it lets go of all it has.
LEMMA LeaveStep ==
  ASSUME IInv, NEW q \in Queues, pc[q] # "closed", Release(q),
         created_' = [created_ EXCEPT ![q] = FALSE],
         last_error_' \in {last_error_, [last_error_ EXCEPT ![q] = TRUE]},
         pc' = [pc EXCEPT ![q] = "closed"],
         UNCHANGED supported
  PROVE  IInv'
<1>. USE DEF IInv
<1>1. Counting'
  <2>1. views' = Counts(view')
    BY CountsLoss DEF Counting, Release, LetGo, TypeOK
  <2>2. handles' = Counts(handle')
    BY CountsLoss DEF Counting, Release, LetGo, TypeOK
  <2>. QED
    BY <2>1, <2>2 DEF Counting
<1>2. \A r \in Queues : r # q => /\ pc'[r] = pc[r] /\ created_'[r] = created_[r]
                                 /\ handle'[r] = handle[r] /\ view'[r] = view[r]
                                 /\ last_error_'[r] = last_error_[r]
  BY DEF Release, TypeOK
<1>3. pc'[q] = "closed" /\ ~created_'[q] /\ ~handle'[q] /\ ~view'[q]
  BY DEF Release, TypeOK
<1>4. TypeOK'
  <2>1. {handles', views'} \subseteq [Processes -> 0 .. Cardinality(Queues)]
    BY <1>1, CountsType DEF Counting
  <2>2. section' \in Sections \cup {None}
    BY DEF Release, Kept, TypeOK
  <2>3. pc' \in [Queues -> {"closed", "refuse", "wait", "open"} \cup Initializing]
    BY DEF TypeOK
  <2>4. {handle', view', created_', last_error_'} \subseteq [Queues -> BOOLEAN]
    BY DEF Release, TypeOK
  <2>5. orphaned' \in BOOLEAN
    BY DEF Release, Abandons, TypeOK
  <2>. QED
    BY <2>1, <2>2, <2>3, <2>4, <2>5 DEF TypeOK
<1>5. Ownership'
  BY <1>2, <1>3 DEF Ownership, Mapped, Laying
<1>6. section' = IF InUse' THEN section ELSE None
  BY <1>1, <1>4, <1>5, LastOneOut DEF Release
<1>7. SectionInv'
  <2>1. section # None
    BY DEF SectionInv, InUse
  <2>2. \A r \in Queues : Creating(r)' => Creating(r)
    BY <1>2, <1>3 DEF Creating
  <2>3. \A r, s \in Queues : created_'[r] /\ created_'[s] => r = s
    BY <1>2, <1>3 DEF SectionInv
  <2>4. CASE InUse'
    <3>1. section' = section
      BY <1>6, <2>4
    <3>2. Ready \/ orphaned' \/ \E r \in Queues : Creating(r)'
      <4>1. CASE Ready
        BY <4>1
      <4>2. CASE orphaned
        BY <2>1, <3>1, <4>2 DEF Release, Abandons
      <4>3. ASSUME NEW r \in Queues, Creating(r)
            PROVE  orphaned' \/ Creating(r)'
        BY <1>2, <2>1, <3>1, <4>3 DEF Release, Abandons, Creating
      <4>. QED
        BY <2>1, <4>1, <4>2, <4>3 DEF SectionInv
    <3>. QED
      BY <1>2, <1>3, <2>1, <2>2, <2>3, <2>4, <3>1, <3>2 DEF SectionInv, Ready
  <2>5. CASE ~InUse'
    <3>1. section' = None
      BY <1>6, <2>5
    <3>2. \A r \in Queues : pc'[r] = "closed"
      BY <2>5 DEF InUse
    <3>. QED
      BY <2>3, <2>5, <3>1, <3>2 DEF SectionInv, Creating, Initializing
  <2>. QED
    BY <2>4, <2>5
<1>. QED
  BY <1>1, <1>4, <1>5, <1>7

\* The view is mapped.
LEMMA MapStep ==
  ASSUME IInv, NEW q \in Queues, Map(q)
  PROVE  IInv'
<1>. USE DEF IInv
<1>1. pc'[q] = IF created_[q] THEN "clear" ELSE "wait"
  BY DEF Map, TypeOK
<1>2. \A r \in Queues : r # q => /\ pc'[r] = pc[r] /\ view'[r] = view[r]
                                 /\ last_error_'[r] = last_error_[r]
  BY DEF Map, TypeOK
<1>3. view'[q] /\ ~last_error_'[q]
  BY DEF Map, TypeOK
<1>4. Counting'
  <2>1. ~view[q]
    BY DEF Ownership, Mapped, Map
  <2>2. views' = Counts(view')
    BY <2>1, CountsGain DEF Counting, Map, TypeOK
  <2>. QED
    BY <2>2 DEF Counting, Map
<1>5. TypeOK'
  <2>1. views' \in [Processes -> 0 .. Cardinality(Queues)]
    BY <1>4, CountsType DEF Counting
  <2>2. pc' \in [Queues -> {"closed", "refuse", "wait", "open"} \cup Initializing]
    BY DEF Map, TypeOK, Initializing
  <2>3. view' \in [Queues -> BOOLEAN] /\ last_error_' \in [Queues -> BOOLEAN]
    BY DEF Map, TypeOK
  <2>. QED
    BY <2>1, <2>2, <2>3 DEF Map, TypeOK
<1>6. Ownership'
  <2>1. handle' = handle /\ created_' = created_ /\ handle[q]
    BY DEF Map, Ownership
  <2>. QED
    BY <1>1, <1>2, <1>3, <2>1 DEF Ownership, Mapped, Laying
<1>7. SectionInv'
  <2>1. section' = section /\ created_' = created_ /\ orphaned' = orphaned
    BY DEF Map
  <2>2. pc[q] = "map"
    BY DEF Map
  <2>3. \A r \in Queues : Creating(r)' <=> Creating(r)
    BY <1>1, <1>2, <2>1, <2>2 DEF Creating, Initializing
  <2>4. InUse' /\ InUse
    BY <1>1, <2>2 DEF InUse
  <2>. QED
    BY <1>1, <1>2, <2>1, <2>3, <2>4 DEF SectionInv, Ready
<1>. QED
  BY <1>4, <1>5, <1>6, <1>7

\* The stores of the creator: it is the only one, and until the last of them nobody
\* takes the section for ready.
LEMMA CreatorStep ==
  ASSUME IInv, NEW q \in Queues, NEW next \in Laying \cup {"open"},
         pc[q] \in Laying,
         pc' = [pc EXCEPT ![q] = next],
         section' \in Sections,
         Ready' <=> next = "open",
         next \in {"publish", "open"} => section'.layout = Layout[q],
         UNCHANGED <<supported, kernelVars, handle, view, created_, last_error_,
                     orphaned>>
  PROVE  IInv'
<1>. USE DEF IInv
<1>1. TypeOK'
  <2>1. pc' \in [Queues -> {"closed", "refuse", "wait", "open"} \cup Initializing]
    BY DEF TypeOK, Laying, Initializing
  <2>. QED
    BY <2>1 DEF TypeOK, kernelVars
<1>2. Counting'
  BY DEF Counting, kernelVars
<1>3. pc'[q] = next /\ \A r \in Queues : r # q => pc'[r] = pc[r]
  BY DEF TypeOK
<1>4. Ownership'
  BY <1>3 DEF Ownership, Mapped, Laying
<1>5. SectionInv'
  <2>1. Creating(q) /\ ~Ready
    BY DEF SectionInv, Creating, Ownership, Laying, Initializing
  <2>2. \A r \in Queues : r # q => ~created_[r]
    BY <2>1 DEF SectionInv, Creating
  <2>3. \A r \in Queues : r # q => pc'[r] \notin Laying \cup {"open"}
    BY <1>3, <2>1, <2>2 DEF SectionInv, Ownership
  <2>4. section' # None /\ InUse'
    BY <1>3, NoneAssumption DEF InUse, Laying
  <2>5. \A r \in Queues : Creating(r)' <=> r = q /\ next \in Laying
    BY <1>3, <2>1, <2>2 DEF Creating, Laying, Initializing
  <2>6. Layout[q] # None
    BY NoneAssumption DEF Layouts
  <2>7. created_' = created_
    OBVIOUS
  <2>. QED
    BY <1>3, <2>3, <2>4, <2>5, <2>6, <2>7 DEF SectionInv, Laying
<1>. QED
  BY <1>1, <1>2, <1>4, <1>5

\* A queue that waits finds the section ready and its own.
LEMMA AcceptStep ==
  ASSUME IInv, NEW q \in Queues, Accept(q)
  PROVE  IInv'
<1>. USE DEF IInv
<1>1. pc'[q] = "open" /\ \A r \in Queues : r # q => pc'[r] = pc[r]
  BY DEF Accept, TypeOK
<1>2. TypeOK'
  <2>1. pc' \in [Queues -> {"closed", "refuse", "wait", "open"} \cup Initializing]
    BY DEF Accept, TypeOK
  <2>. QED
    BY <2>1 DEF Accept, TypeOK, kernelVars
<1>3. Counting'
  BY DEF Counting, Accept, kernelVars
<1>4. Ownership'
  BY <1>1 DEF Ownership, Mapped, Laying, Accept
<1>5. SectionInv'
  <2>1. section' = section /\ created_' = created_ /\ orphaned' = orphaned
    BY DEF Accept
  <2>2. Ready /\ section.layout = Layout[q] /\ pc[q] = "wait"
    BY DEF Accept, Ready
  <2>3. \A r \in Queues : Creating(r)' => Creating(r)
    BY <1>1, <2>1 DEF Creating, Initializing
  <2>4. InUse' /\ InUse
    BY <1>1, <2>2 DEF InUse
  <2>. QED
    BY <1>1, <2>1, <2>2, <2>3, <2>4 DEF SectionInv, Ready
<1>. QED
  BY <1>2, <1>3, <1>4, <1>5

\* The target of a move gets all the source had and lets go of what it had itself.
LEMMA MoveStep ==
  ASSUME IInv, NEW p \in Queues, NEW q \in Queues, Move(p, q)
  PROVE  IInv'
<1>. USE DEF IInv
<1>1. p # q /\ Process[p] = Process[q] /\ Layout[p] = Layout[q]
  BY DEF Move
<1>2. /\ pc'[p] = "closed" /\ ~created_'[p] /\ ~handle'[p] /\ ~view'[p]
      /\ pc'[q] = pc[p] /\ created_'[q] = created_[p] /\ handle'[q] = handle[p]
      /\ view'[q] = view[p] /\ last_error_'[q] = last_error_[p]
      /\ \A r \in Queues \ {p, q} :
           /\ pc'[r] = pc[r] /\ created_'[r] = created_[r]
           /\ handle'[r] = handle[r] /\ view'[r] = view[r]
           /\ last_error_'[r] = last_error_[r]
  BY <1>1 DEF Move, Moved, TypeOK
<1>3. Counting'
  <2>1. handles' = Counts(handle')
    BY <1>1, CountsMove DEF Counting, Move, LetGo, TypeOK
  <2>2. views' = Counts(view')
    BY <1>1, CountsMove DEF Counting, Move, LetGo, TypeOK
  <2>. QED
    BY <2>1, <2>2 DEF Counting
<1>4. TypeOK'
  <2>1. {handles', views'} \subseteq [Processes -> 0 .. Cardinality(Queues)]
    BY <1>3, CountsType DEF Counting
  <2>2. section' \in Sections \cup {None}
    BY DEF Move, Kept, TypeOK
  <2>3. pc' \in [Queues -> {"closed", "refuse", "wait", "open"} \cup Initializing]
    BY DEF Move, Moved, TypeOK
  <2>4. {handle', view', created_', last_error_'} \subseteq [Queues -> BOOLEAN]
    BY DEF Move, Moved, TypeOK
  <2>5. orphaned' \in BOOLEAN
    BY DEF Move, Abandons, TypeOK
  <2>6. supported' \in BOOLEAN
    BY DEF Move, TypeOK
  <2>. QED
    BY <2>1, <2>2, <2>3, <2>4, <2>5, <2>6 DEF TypeOK
<1>5. Ownership'
  BY <1>2 DEF Ownership, Mapped, Laying
<1>6. section' = IF InUse' THEN section ELSE None
  BY <1>3, <1>4, <1>5, LastOneOut DEF Move
<1>7. SectionInv'
  <2>1. InUse' => InUse
    BY <1>2 DEF InUse
  <2>2. \A r, s \in Queues : created_'[r] /\ created_'[s] => r = s
    BY <1>2 DEF SectionInv
  <2>3. pc[p] \in Returned /\ pc[q] \in Returned
    BY DEF Move
  <2>4. \A r \in Queues : Creating(r)' <=> Creating(r)
    BY <1>1, <1>2, <2>3 DEF Creating, Returned, Initializing
  <2>5. CASE InUse'
    <3>1. section' = section /\ section # None
      BY <1>6, <2>1, <2>5 DEF SectionInv
    <3>2. orphaned' = orphaned
      BY <3>1 DEF Move, Abandons, TypeOK
    <3>. QED
      BY <1>1, <1>2, <2>2, <2>3, <2>4, <2>5, <3>1, <3>2
      DEF SectionInv, Ready, Returned
  <2>6. CASE ~InUse'
    <3>1. section' = None
      BY <1>6, <2>6
    <3>2. \A r \in Queues : pc'[r] = "closed"
      BY <2>6 DEF InUse
    <3>. QED
      BY <2>2, <2>6, <3>1, <3>2 DEF SectionInv, Creating, Initializing
  <2>. QED
    BY <2>5, <2>6
<1>. QED
  BY <1>3, <1>4, <1>5, <1>7

\* The kernel takes back all that a process had, and no more.
LEMMA CrashStep ==
  ASSUME IInv, NEW x \in Processes, Crash(x)
  PROVE  IInv'
<1>. USE DEF IInv
<1>1. \A r \in Queues :
        IF Process[r] = x
        THEN /\ pc'[r] = "closed" /\ ~created_'[r] /\ ~handle'[r] /\ ~view'[r]
        ELSE /\ pc'[r] = pc[r] /\ created_'[r] = created_[r]
             /\ handle'[r] = handle[r] /\ view'[r] = view[r]
             /\ last_error_'[r] = last_error_[r]
  BY DEF Crash
<1>2. Counting'
  <2>1. /\ handle' = [q \in Queues |-> IF Process[q] = x THEN FALSE ELSE handle[q]]
        /\ view' = [q \in Queues |-> IF Process[q] = x THEN FALSE ELSE view[q]]
    BY DEF Crash
  <2>2. handles' = Counts(handle')
    <3>1. handles' = [Counts(handle) EXCEPT ![x] = 0]
      BY DEF Counting, Crash
    <3>. QED
      BY <2>1, <3>1, CountsFresh DEF TypeOK
  <2>3. views' = Counts(view')
    <3>1. views' = [Counts(view) EXCEPT ![x] = 0]
      BY DEF Counting, Crash
    <3>. QED
      BY <2>1, <3>1, CountsFresh DEF TypeOK
  <2>. QED
    BY <2>2, <2>3 DEF Counting
<1>3. TypeOK'
  <2>1. {handles', views'} \subseteq [Processes -> 0 .. Cardinality(Queues)]
    BY <1>2, CountsType DEF Counting
  <2>2. section' \in Sections \cup {None}
    BY DEF Crash, Kept, TypeOK
  <2>3. pc' \in [Queues -> {"closed", "refuse", "wait", "open"} \cup Initializing]
    BY DEF Crash, TypeOK
  <2>4. {handle', view', created_', last_error_'} \subseteq [Queues -> BOOLEAN]
    BY DEF Crash, TypeOK
  <2>5. orphaned' \in BOOLEAN /\ supported' \in BOOLEAN
    BY DEF Crash, Abandons, TypeOK
  <2>. QED
    BY <2>1, <2>2, <2>3, <2>4, <2>5 DEF TypeOK
<1>4. Ownership'
  BY <1>1 DEF Ownership, Mapped, Laying
<1>5. section' = IF InUse' THEN section ELSE None
  BY <1>2, <1>3, <1>4, LastOneOut DEF Crash
<1>6. SectionInv'
  <2>1. InUse' => InUse
    BY <1>1 DEF InUse
  <2>2. \A r, s \in Queues : created_'[r] /\ created_'[s] => r = s
    BY <1>1 DEF SectionInv
  <2>3. \A r \in Queues : Creating(r)' => Creating(r)
    BY <1>1 DEF Creating, Initializing
  <2>4. CASE InUse'
    <3>1. section' = section /\ section # None
      BY <1>5, <2>1, <2>4 DEF SectionInv
    <3>2. Ready \/ orphaned' \/ \E r \in Queues : Creating(r)'
      <4>1. CASE Ready
        BY <4>1
      <4>2. CASE orphaned
        BY <3>1, <4>2 DEF Crash, Abandons
      <4>3. ASSUME NEW r \in Queues, Creating(r)
            PROVE  orphaned' \/ Creating(r)'
        BY <1>1, <3>1, <4>3 DEF Crash, Abandons, Creating
      <4>. QED
        BY <3>1, <4>1, <4>2, <4>3 DEF SectionInv
    <3>. QED
      BY <1>1, <2>2, <2>3, <2>4, <3>1, <3>2 DEF SectionInv, Ready
  <2>5. CASE ~InUse'
    <3>1. section' = None
      BY <1>5, <2>5
    <3>2. \A r \in Queues : pc'[r] = "closed"
      BY <2>5 DEF InUse
    <3>. QED
      BY <2>2, <2>5, <3>1, <3>2 DEF SectionInv, Creating, Initializing
  <2>. QED
    BY <2>4, <2>5
<1>. QED
  BY <1>2, <1>3, <1>4, <1>6

\* A step inside open, one action each.
LEMMA ProgressStep ==
  ASSUME IInv, NEW q \in Queues, Progress(q)
  PROVE  IInv'
<1>. DEFINE Leaves == RefuseExisting(q) \/ MapFails(q) \/ Reject(q)
<1>1. CASE Leaves
  <2>1. pc[q] # "closed" /\ GiveUp(q)
    BY <1>1 DEF RefuseExisting, MapFails, Reject
  <2>. QED
    BY <2>1, LeaveStep DEF GiveUp
<1>2. CASE Map(q)
  BY <1>2, MapStep
<1>3. CASE pc[q] \in Laying /\ ~Leaves
  <2>1. section \in Sections
    BY <1>3 DEF IInv, TypeOK, SectionInv, InUse, Laying
  <2>2. CASE ClearLayout(q)
    <3>1. section' \in Sections /\ ~Ready'
      BY <2>1, <2>2 DEF ClearLayout, Sections, InitStates, Ready
    <3>. QED
      BY <1>3, <2>2, <3>1, CreatorStep DEF ClearLayout, Laying
  <2>3. CASE MarkInProgress(q)
    <3>1. section' \in Sections /\ ~Ready'
      BY <2>1, <2>3 DEF MarkInProgress, Sections, InitStates, Ready
    <3>. QED
      BY <1>3, <2>3, <3>1, CreatorStep DEF MarkInProgress, Laying
  <2>4. CASE FillHeader(q)
    <3>1. section' \in Sections /\ section'.layout = Layout[q]
      BY <2>1, <2>4 DEF FillHeader, Sections, Layouts
    <3>2. ~Ready
      BY <1>3, <2>4 DEF IInv, SectionInv, Creating, Ownership, FillHeader, Laying,
                        Initializing
    <3>3. ~Ready'
      BY <2>1, <2>4, <3>2 DEF FillHeader, Sections, Ready
    <3>. QED
      BY <1>3, <2>4, <3>1, <3>3, CreatorStep DEF FillHeader, Laying
  <2>5. CASE PublishReady(q)
    <3>1. section.layout = Layout[q]
      BY <2>5 DEF IInv, SectionInv, PublishReady
    <3>2. section' \in Sections /\ Ready' /\ section'.layout = Layout[q]
      BY <2>1, <2>5, <3>1 DEF PublishReady, Sections, InitStates, Ready
    <3>. QED
      BY <1>3, <2>5, <3>2, CreatorStep DEF PublishReady
  <2>. QED
    BY <1>3, <2>2, <2>3, <2>4, <2>5
    DEF Progress, RefuseExisting, MapFails, Map, Accept, Laying
<1>4. CASE Accept(q)
  BY <1>4, AcceptStep
<1>. QED
  BY <1>1, <1>2, <1>3, <1>4
  DEF Progress, ClearLayout, MarkInProgress, FillHeader, PublishReady, Laying

\* A step that changes nothing.
LEMMA StutterStep == IInv /\ UNCHANGED vars => IInv'
<1>. SUFFICES ASSUME IInv, UNCHANGED vars PROVE IInv'
  OBVIOUS
<1>. USE DEF vars, kernelVars
<1>1. TypeOK'
  BY DEF IInv, TypeOK
<1>2. Counting'
  BY DEF IInv, Counting
<1>3. Ownership'
  BY DEF IInv, Ownership
<1>4. SectionInv'
  BY DEF IInv, SectionInv, InUse, Creating, Ready
<1>. QED
  BY <1>1, <1>2, <1>3, <1>4 DEF IInv

\* Every step keeps the invariant: one case per action.
LEMMA NextIInv == IInv /\ [Next]_vars => IInv'
<1>. SUFFICES ASSUME IInv, [Next]_vars PROVE IInv'
  OBVIOUS
<1>1. ASSUME NEW q \in Queues, Open(q)
      PROVE  IInv'
  <2>1. CASE OpenUnsupported(q)
    BY <2>1, RefusedStep DEF OpenUnsupported
  <2>2. ASSUME NEW mode \in Modes, OpenFails(q, mode)
        PROVE  IInv'
    BY <2>2, RefusedStep DEF OpenFails
  <2>3. ASSUME NEW mode \in Modes, OpenHandle(q, mode)
        PROVE  IInv'
    BY <2>3, OpenHandleStep
  <2>. QED
    BY <1>1, <2>1, <2>2, <2>3 DEF Open
<1>2. ASSUME NEW q \in Queues, Progress(q)
      PROVE  IInv'
  BY <1>2, ProgressStep
<1>3. ASSUME NEW q \in Queues, Close(q)
      PROVE  IInv'
  <2>1. UNCHANGED supported /\ last_error_' = last_error_
    BY <1>3 DEF Close
  <2>. QED
    BY <1>3, <2>1, LeaveStep DEF Close
<1>4. ASSUME NEW p \in Queues, NEW q \in Queues, Move(p, q)
      PROVE  IInv'
  BY <1>4, MoveStep
<1>5. ASSUME NEW x \in Processes, Crash(x)
      PROVE  IInv'
  BY <1>5, CrashStep
<1>6. CASE UNCHANGED vars
  BY <1>6, StutterStep
<1>. QED
  BY <1>1, <1>2, <1>3, <1>4, <1>5, <1>6 DEF Next

-----------------------------------------------------------------------------
(* The theorems *)

\* The invariant holds in every state of every behaviour.
THEOREM InvariantHolds == Spec => []IInv
BY InitIInv, NextIInv, PTL DEF Spec

\* The types: among them that the kernel never counts less than none nor more
\* than there are queues, however opens, moves, closes and deaths mix.
THEOREM TypeCorrect == Spec => []TypeOK
<1>1. IInv => TypeOK
  BY DEF IInv
<1>. QED
  BY <1>1, InvariantHolds, PTL

\* An open queue looks at a section that is ready and has its own layout: nobody
\* opens one too early and nobody clears one that others use
\* (shared_memory_queue.hpp, open_internal and wait_until_ready).
THEOREM OnlyReadyIsOpened == Spec => []OpenIsReady
<1>1. IInv => OpenIsReady
  BY DEF IInv, OpenIsReady, Ownership, SectionInv, Ready, Mapped
<1>. QED
  BY <1>1, InvariantHolds, PTL

\* The handles and views the kernel keeps are those the queues know of, through
\* failed opens, moves, closes and deaths (close, move_from).
THEOREM HandlesBalance == Spec => []NoHandleLeak
<1>1. IInv => NoHandleLeak
  <2>. SUFFICES ASSUME IInv PROVE NoHandleLeak
    OBVIOUS
  <2>1. \A q \in Queues : pc[q] = "closed" => ~handle[q] /\ ~view[q] /\ ~created_[q]
    BY DEF IInv, Ownership, Mapped
  <2>2. \A x \in Processes :
          /\ handles[x] = Cardinality({q \in Queues : Process[q] = x /\ handle[q]})
          /\ views[x] = Cardinality({q \in Queues : Process[q] = x /\ view[q]})
    BY DEF IInv, Counting, Counts, Owned
  <2>. QED
    BY <2>1, <2>2 DEF NoHandleLeak
<1>. QED
  BY <1>1, InvariantHolds, PTL

\* Who spins in wait_until_ready on an unfinished section waits for its one creator,
\* which is at work, or for one that has left an orphan.
THEOREM WaitersHaveCreator == Spec => []WaitHasCreator
<1>1. IInv => WaitHasCreator
  <2>. SUFFICES ASSUME IInv, NEW p \in Queues, pc[p] = "wait", ~Ready, ~orphaned
                PROVE  \E q \in Queues : /\ created_[q] /\ pc[q] \in Initializing
                                         /\ \A r \in Queues \ {q} : ~created_[r]
    BY DEF WaitHasCreator, Ready
  <2>1. PICK q \in Queues : Creating(q)
    BY DEF IInv, SectionInv, InUse
  <2>2. \A r \in Queues \ {q} : ~created_[r]
    BY <2>1 DEF IInv, SectionInv, Creating
  <2>. QED
    BY <2>1, <2>2 DEF Creating
<1>. QED
  BY <1>1, InvariantHolds, PTL
=============================================================================
