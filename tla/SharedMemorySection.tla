------------------------- MODULE SharedMemorySection -------------------------
(***************************************************************************)
(* How the SharedMemorySpscQueue objects of several processes open, close  *)
(* and move (shared_memory_queue.hpp): open_internal, initialize_layout,   *)
(* wait_until_ready, close and move_from, over the one named section the   *)
(* kernel keeps for them.                                                  *)
(*                                                                         *)
(* The kernel is external: a section is created full of zeros by the first *)
(* CreateFileMappingW of its name, every later one and OpenFileMappingW    *)
(* get a handle to it, a view larger than it cannot be mapped, and it goes *)
(* away with its last handle and view.  A process that dies loses all its  *)
(* handles and views.  handles and views are what the kernel counts;       *)
(* handle and view are what the objects believe they own.                  *)
(***************************************************************************)
EXTENDS Integers, FiniteSets

CONSTANTS
  Queues,      \* the queue objects
  Process,     \* Process[q]: the process q lives in
  Layout,      \* Layout[q]: the <PayloadSize, Capacity> of its type
  SizeOf,      \* SizeOf[l]: mapping_size() of a layout
  None,        \* no section, no layout written
  MayFail,     \* the system calls may fail for want of memory
  MayCrash     \* processes may die

Processes == {Process[q] : q \in Queues}

InitStates == {"zero", "kInitInProgress", "kInitReady"}
Layouts == {Layout[q] : q \in Queues}

\* What a section can be as far as open looks at it.
Sections ==
  [size : {SizeOf[l] : l \in Layouts}, init_state : InitStates,
   layout : Layouts \cup {None}]

ASSUME FlagsAssumption == {MayFail, MayCrash} \subseteq BOOLEAN
ASSUME QueuesAssumption == IsFiniteSet(Queues)
ASSUME NoneAssumption == None \notin Layouts \cup Sections

VARIABLES
  supported,      \* compiled for Windows
  section,        \* the section of the name: its size, init_state and header,
                  \* or None
  handles, views, \* how many of each the kernel keeps for a process
  handle,         \* a mapping handle is in mapping_handle_ or in open's local
  view,           \* view_ # nullptr, and with it header_ and slots_
  created_,
  last_error_,    \* whether it is an error
  pc,             \* where the open or close of each queue is
  orphaned        \* the creator let go of the section before it was ready

kernelVars == <<handles, views>>
vars == <<supported, section, kernelVars, handle, view, created_, last_error_, pc,
          orphaned>>

Modes == {"kCreateOnly", "kOpenOnly", "kOpenOrCreate"}

Init ==
  /\ supported \in BOOLEAN
  /\ section = None
  /\ handles = [p \in Processes |-> 0]
  /\ views = [p \in Processes |-> 0]
  /\ handle = [q \in Queues |-> FALSE]
  /\ view = [q \in Queues |-> FALSE]
  /\ created_ = [q \in Queues |-> FALSE]
  /\ last_error_ = [q \in Queues |-> FALSE]
  /\ pc = [q \in Queues |-> "closed"]
  /\ orphaned = FALSE

-----------------------------------------------------------------------------
(* The kernel (external) *)

NewSection(l) == [size |-> SizeOf[l], init_state |-> "zero", layout |-> None]

\* A process has n more or fewer handles or views.
Adds(counts, p, n) == [counts EXCEPT ![p] = @ + n]

\* The section that is left when h and v are the handles and views.
Kept(s, h, v) == IF \E p \in Processes : h[p] + v[p] > 0 THEN s ELSE None

CountOf(flag) == IF flag THEN 1 ELSE 0

\* The places of a creator that still has to make the section ready.
Initializing == {"map", "clear", "mark", "fill", "publish"}

\* A creator that leaves before its time leaves the others an orphan.
Abandons(S) ==
  orphaned' = /\ section' # None
              /\ orphaned \/ \E q \in S : created_[q] /\ pc[q] \in Initializing

\* UnmapViewOfFile and CloseHandle.
LetGo(q) ==
  /\ views' = Adds(views, Process[q], -CountOf(view[q]))
  /\ handles' = Adds(handles, Process[q], -CountOf(handle[q]))

\* q lets go of its view and its handle; the last one out ends the section.
Release(q) ==
  /\ LetGo(q)
  /\ handle' = [handle EXCEPT ![q] = FALSE]
  /\ view' = [view EXCEPT ![q] = FALSE]
  /\ section' = Kept(section, handles', views')
  /\ Abandons({q})

-----------------------------------------------------------------------------
(* open_internal *)

\* The system call of each mode: which modes may create the section.
MayCreate(mode) == mode # "kOpenOnly"

\* Elsewhere than on Windows this is all that open ever does.
OpenUnsupported(q) ==
  /\ ~supported
  /\ pc[q] = "closed"
  /\ last_error_' = [last_error_ EXCEPT ![q] = TRUE]
  /\ UNCHANGED <<supported, section, kernelVars, handle, view, created_, pc,
                 orphaned>>

\* The call gives no handle.
OpenFails(q, mode) ==
  /\ supported
  /\ pc[q] = "closed"
  /\ MayFail \/ (mode = "kOpenOnly" /\ section = None)
  /\ last_error_' = [last_error_ EXCEPT ![q] = TRUE]
  /\ UNCHANGED <<supported, section, kernelVars, handle, view, created_, pc,
                 orphaned>>

\* Mutant: the last error is overwritten before it is read.
CreatedNever(q) == created_' = [created_ EXCEPT ![q] = FALSE]

\* `created' is what GetLastError told right after the call.
RememberCreated(q) == created_' = [created_ EXCEPT ![q] = section = None]

\* The name is opened or created, and q holds a handle.  kCreateOnly gives it
\* back when the section was there before.
OpenHandle(q, mode) ==
  /\ supported
  /\ pc[q] = "closed"
  /\ section = None => MayCreate(mode)
  /\ section' = IF section = None THEN NewSection(Layout[q]) ELSE section
  /\ handles' = Adds(handles, Process[q], 1)
  /\ handle' = [handle EXCEPT ![q] = TRUE]
  /\ RememberCreated(q)
  /\ pc' = [pc EXCEPT ![q] =
              IF mode = "kCreateOnly" /\ ~created_'[q] THEN "refuse" ELSE "map"]
  /\ UNCHANGED <<supported, views, view, last_error_, orphaned>>

\* The end of an open that gives up with an error.
GiveUp(q) ==
  /\ Release(q)
  /\ created_' = [created_ EXCEPT ![q] = FALSE]
  /\ last_error_' = [last_error_ EXCEPT ![q] = TRUE]
  /\ pc' = [pc EXCEPT ![q] = "closed"]
  /\ UNCHANGED supported

RefuseExisting(q) ==
  /\ pc[q] = "refuse"
  /\ GiveUp(q)

\* MapViewOfFile fails, at the latest on a section smaller than the layout:
\* the handle is closed.  (created is a local until the view is mapped.)
MapFails(q) ==
  /\ pc[q] = "map"
  /\ MayFail \/ SizeOf[Layout[q]] > section.size
  /\ GiveUp(q)

\* The view is mapped; the creator initialises, the others wait.
Map(q) ==
  /\ pc[q] = "map"
  /\ SizeOf[Layout[q]] <= section.size
  /\ views' = Adds(views, Process[q], 1)
  /\ view' = [view EXCEPT ![q] = TRUE]
  /\ last_error_' = [last_error_ EXCEPT ![q] = FALSE]
  /\ pc' = [pc EXCEPT ![q] = IF created_[q] THEN "clear" ELSE "wait"]
  /\ UNCHANGED <<supported, section, handles, handle, created_, orphaned>>

-----------------------------------------------------------------------------
(* initialize_layout *)

\* The memset.
ClearLayout(q) ==
  /\ pc[q] = "clear"
  /\ section' = [section EXCEPT !.init_state = "zero", !.layout = None]
  /\ pc' = [pc EXCEPT ![q] = "mark"]
  /\ UNCHANGED <<supported, kernelVars, handle, view, created_, last_error_,
                 orphaned>>

\* Mutant: the header is declared ready before it is written.
MarkReady(q) ==
  /\ pc[q] = "mark"
  /\ section' = [section EXCEPT !.init_state = "kInitReady"]
  /\ pc' = [pc EXCEPT ![q] = "fill"]
  /\ UNCHANGED <<supported, kernelVars, handle, view, created_, last_error_,
                 orphaned>>

\* The first store of init_state.
MarkInProgress(q) ==
  /\ pc[q] = "mark"
  /\ section' = [section EXCEPT !.init_state = "kInitInProgress"]
  /\ pc' = [pc EXCEPT ![q] = "fill"]
  /\ UNCHANGED <<supported, kernelVars, handle, view, created_, last_error_,
                 orphaned>>

\* Mutant: the size of the mapping is written in the place of the layout.
FillSize(q) ==
  /\ pc[q] = "fill"
  /\ section' = [section EXCEPT !.layout = SizeOf[Layout[q]]]
  /\ pc' = [pc EXCEPT ![q] = "publish"]
  /\ UNCHANGED <<supported, kernelVars, handle, view, created_, last_error_,
                 orphaned>>

\* Magic, version, sizes and the two indices.
FillHeader(q) ==
  /\ pc[q] = "fill"
  /\ section' = [section EXCEPT !.layout = Layout[q]]
  /\ pc' = [pc EXCEPT ![q] = "publish"]
  /\ UNCHANGED <<supported, kernelVars, handle, view, created_, last_error_,
                 orphaned>>

\* Mutant: the last store repeats the first.
PublishInProgress(q) ==
  /\ pc[q] = "publish"
  /\ section' = [section EXCEPT !.init_state = "kInitInProgress"]
  /\ pc' = [pc EXCEPT ![q] = "open"]
  /\ UNCHANGED <<supported, kernelVars, handle, view, created_, last_error_,
                 orphaned>>

\* The release store of kInitReady; open returns.
PublishReady(q) ==
  /\ pc[q] = "publish"
  /\ section' = [section EXCEPT !.init_state = "kInitReady"]
  /\ pc' = [pc EXCEPT ![q] = "open"]
  /\ UNCHANGED <<supported, kernelVars, handle, view, created_, last_error_,
                 orphaned>>

-----------------------------------------------------------------------------
(* wait_until_ready *)

\* The acquire load answers kInitReady and the header is the one expected.
Accept(q) ==
  /\ pc[q] = "wait"
  /\ section.init_state = "kInitReady"
  /\ section.layout = Layout[q]
  /\ pc' = [pc EXCEPT ![q] = "open"]
  /\ UNCHANGED <<supported, section, kernelVars, handle, view, created_,
                 last_error_, orphaned>>

\* The header is another queue's: report it and close.
Reject(q) ==
  /\ pc[q] = "wait"
  /\ section.init_state = "kInitReady"
  /\ section.layout # Layout[q]
  /\ GiveUp(q)

-----------------------------------------------------------------------------
\* close() and the destructor.
Close(q) ==
  /\ pc[q] = "open"
  /\ Release(q)
  /\ created_' = [created_ EXCEPT ![q] = FALSE]
  /\ pc' = [pc EXCEPT ![q] = "closed"]
  /\ UNCHANGED <<supported, last_error_>>

Returned == {"closed", "open"}

\* Mutant: the source keeps what it gave away.
MovedKept(member, p, q, empty) == [member EXCEPT ![q] = member[p]]

\* What move_from does to a member: the target takes it, the source loses it.
Moved(member, p, q, empty) == [member EXCEPT ![q] = member[p], ![p] = empty]

\* Move assignment from p to q, which closes q first, and move construction,
\* where q has nothing to close.
Move(p, q) ==
  /\ p # q
  /\ Process[p] = Process[q] /\ Layout[p] = Layout[q]
  /\ {pc[p], pc[q]} \subseteq Returned
  /\ LetGo(q)
  /\ section' = Kept(section, handles', views')
  /\ handle' = Moved(handle, p, q, FALSE)
  /\ view' = Moved(view, p, q, FALSE)
  /\ created_' = Moved(created_, p, q, FALSE)
  /\ last_error_' = Moved(last_error_, p, q, FALSE)
  /\ pc' = Moved(pc, p, q, "closed")
  /\ Abandons({})
  /\ UNCHANGED supported

\* The process dies and the kernel takes back all it had.  A new one with fresh
\* objects takes its place.
Crash(x) ==
  LET lost == {q \in Queues : Process[q] = x}
      Fresh(member, empty) == [q \in Queues |-> IF q \in lost THEN empty ELSE member[q]]
  IN  /\ MayCrash
      /\ handles' = [handles EXCEPT ![x] = 0]
      /\ views' = [views EXCEPT ![x] = 0]
      /\ section' = Kept(section, handles', views')
      /\ handle' = Fresh(handle, FALSE)
      /\ view' = Fresh(view, FALSE)
      /\ created_' = Fresh(created_, FALSE)
      /\ last_error_' = Fresh(last_error_, FALSE)
      /\ pc' = Fresh(pc, "closed")
      /\ Abandons(lost)
      /\ UNCHANGED supported

-----------------------------------------------------------------------------
Open(q) ==
  \/ OpenUnsupported(q)
  \/ \E mode \in Modes : OpenFails(q, mode) \/ OpenHandle(q, mode)

Progress(q) ==
  \/ RefuseExisting(q)
  \/ MapFails(q)
  \/ Map(q)
  \/ ClearLayout(q)
  \/ MarkInProgress(q)
  \/ FillHeader(q)
  \/ PublishReady(q)
  \/ Accept(q)
  \/ Reject(q)

Next ==
  \/ \E p \in Queues : Open(p) \/ Progress(p) \/ Close(p)
  \/ \E p, q \in Queues : Move(p, q)
  \/ \E x \in Processes : Crash(x)

\* A process inside open keeps running.
Fairness == \A p \in Queues : WF_vars(Progress(p))

Spec == Init /\ [][Next]_vars /\ Fairness

-----------------------------------------------------------------------------
TypeOK ==
  /\ section \in Sections \cup {None}
  /\ supported \in BOOLEAN
  /\ {handles, views} \subseteq [Processes -> 0 .. Cardinality(Queues)]
  /\ {handle, view, created_, last_error_} \subseteq [Queues -> BOOLEAN]
  /\ pc \in [Queues -> {"closed", "refuse", "wait", "open"} \cup Initializing]
  /\ orphaned \in BOOLEAN

\* A section that says it is ready has its whole header, and an open queue always
\* looks at a ready section of its own layout: nobody opens one too early or with
\* other sizes, nobody is turned away by a header that is not finished, and nobody
\* initialises again a section another process is using.
OpenIsReady ==
  /\ section # None /\ section.init_state = "kInitReady" => section.layout # None
  /\ \A p \in Queues : pc[p] = "open" =>
       /\ handle[p] /\ view[p] /\ ~last_error_[p]
       /\ section.init_state = "kInitReady"
       /\ section.layout = Layout[p]

\* Every handle and view the kernel keeps for a process belongs to exactly one of
\* its queues, through failed opens, moves and closes: none is lost, which would
\* keep the section alive for ever, and none is held twice, to be closed twice.
\* A queue that is not open has none.
NoHandleLeak ==
  /\ \A x \in Processes :
       /\ handles[x] = Cardinality({q \in Queues : Process[q] = x /\ handle[q]})
       /\ views[x] = Cardinality({q \in Queues : Process[q] = x /\ view[q]})
  /\ \A q \in Queues : pc[q] = "closed" => ~handle[q] /\ ~view[q] /\ ~created_[q]

\* A process spins in wait_until_ready on an unfinished section only while its
\* one creator is at work on it, or after that creator has died or failed to
\* map its view, in which case nobody will ever finish it.
WaitHasCreator ==
  \A p \in Queues : pc[p] = "wait" /\ section.init_state # "kInitReady" =>
    \/ orphaned
    \/ \E q \in Queues : /\ created_[q]
                         /\ pc[q] \in Initializing
                         /\ \A r \in Queues \ {q} : ~created_[r]

\* Every open returns, whatever the others do meanwhile, unless the creator lets
\* go of the section before it is ready: only then may a process spin for ever.
OpenReturns ==
  \A p \in Queues : pc[p] # "closed" ~> pc[p] \in {"open", "closed"} \/ orphaned
=============================================================================
