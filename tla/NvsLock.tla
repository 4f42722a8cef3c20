-------------------------------- MODULE NvsLock --------------------------------
(***************************************************************************)
(* The lock of the API (nvs::Lock, src/src/nvs_platform.hpp): one mutex    *)
(* for the whole library, made by the first call of Lock::init() and held  *)
(* from the construction of a Lock object to its destruction.  Tasks call  *)
(* functions of three kinds:                                               *)
(*   "manage"  Lock::init(), then the body under a Lock: initialising,     *)
(*             deinitialising and erasing a partition (nvs_api.cpp)        *)
(*   "use"     the body under a Lock: all other functions                  *)
(*   "open"    the same; a handle made in the body calls Lock::init()      *)
(*             (open_nvs_handle(), NVSHandleLocked)                        *)
(***************************************************************************)
EXTENDS Integers

CONSTANTS
  Task,
  Nobody,
  MaxMutexes    \* bound on the mutexes made between two restarts

ASSUME NobodyAssumption     == Nobody \notin Task
ASSUME MaxMutexesAssumption == MaxMutexes \in Nat \ {0}

NULL  == 0
Mutex == 1 .. MaxMutexes
Kind  == {"manage", "use", "open"}

VARIABLES
  mSemaphore,   \* Lock::mSemaphore: the mutex made last, or NULL
  made,         \* how many were made
  holder,       \* holder[m]: the task that has taken mutex m, or Nobody
  pc, call,     \* what each task is at, and the kind of function it calls
  waits,        \* waits[t]: the mutex a task takes
  initialized,  \* a partition has been initialised
  failed        \* the making of a mutex has failed, which no caller looks at

vars == <<mSemaphore, made, holder, pc, call, waits, initialized, failed>>

TypeOK ==
  /\ mSemaphore \in {NULL} \cup Mutex
  /\ made \in 0 .. MaxMutexes
  /\ holder \in [Mutex -> Task \cup {Nobody}]
  /\ pc \in [Task -> {"idle", "init", "create", "enter", "wait", "body", "recreate", "leave"}]
  /\ call \in [Task -> Kind]
  /\ waits \in [Task -> {NULL} \cup Mutex]
  /\ initialized \in BOOLEAN /\ failed \in BOOLEAN

Init ==
  /\ mSemaphore = NULL /\ made = 0
  /\ holder = [m \in Mutex |-> Nobody]
  /\ pc = [t \in Task |-> "idle"]
  /\ call = [t \in Task |-> "use"]
  /\ waits = [t \in Task |-> NULL]
  /\ initialized = FALSE /\ failed = FALSE

Goto(t, label) == pc' = [pc EXCEPT ![t] = label]

(***************************************************************************)
(* The premise: the application's calls come one after the other for as    *)
(* long as there is no mutex.  init() tests and sets mSemaphore without    *)
(* protection, and a Lock made while it is null does not lock anything.    *)
(***************************************************************************)
OneByOne == mSemaphore # NULL \/ \A t \in Task : pc[t] = "idle"

Call(t) ==
  /\ pc[t] = "idle" /\ OneByOne
  /\ \E kind \in Kind :
       /\ call' = [call EXCEPT ![t] = kind]
       /\ Goto(t, IF kind = "manage" THEN "init" ELSE "enter")
  /\ UNCHANGED <<mSemaphore, made, holder, waits, initialized, failed>>

\* Mutant: a mutex is made on every call.
TestAlways(t, at, create, done) ==
  /\ pc[t] = at
  /\ Goto(t, create)
  /\ UNCHANGED <<mSemaphore, made, holder, call, waits, initialized, failed>>

\* Lock::init(): is there a mutex?
Test(t, at, create, done) ==
  /\ pc[t] = at
  /\ Goto(t, IF mSemaphore = NULL THEN create ELSE done)
  /\ UNCHANGED <<mSemaphore, made, holder, call, waits, initialized, failed>>

\* mSemaphore = xSemaphoreCreateMutex(), which may find no memory.
Create(t, at, next) ==
  /\ pc[t] = at
  /\ \/ /\ made < MaxMutexes
        /\ made' = made + 1 /\ mSemaphore' = made'
        /\ UNCHANGED failed
     \/ /\ mSemaphore' = NULL /\ failed' = TRUE
        /\ UNCHANGED made
  /\ Goto(t, next)
  /\ UNCHANGED <<holder, call, waits, initialized>>

\* Lock::Lock()
Enter(t) ==
  /\ pc[t] = "enter"
  /\ waits' = [waits EXCEPT ![t] = mSemaphore]
  /\ Goto(t, IF mSemaphore = NULL THEN "body" ELSE "wait")
  /\ UNCHANGED <<mSemaphore, made, holder, call, initialized, failed>>

\* Mutant: it tries again and again.
TakePolling(t) ==
  /\ pc[t] = "wait"
  /\ IF holder[waits[t]] = Nobody
     THEN holder' = [holder EXCEPT ![waits[t]] = t] /\ Goto(t, "body")
     ELSE UNCHANGED holder /\ Goto(t, "enter")
  /\ UNCHANGED <<mSemaphore, made, call, waits, initialized, failed>>

\* xSemaphoreTake(mSemaphore, portMAX_DELAY)
Take(t) ==
  /\ pc[t] = "wait" /\ holder[waits[t]] = Nobody
  /\ holder' = [holder EXCEPT ![waits[t]] = t]
  /\ Goto(t, "body")
  /\ UNCHANGED <<mSemaphore, made, call, waits, initialized, failed>>

\* The body; a handle is only made for a partition that has been initialised.
Body(t) ==
  /\ pc[t] = "body"
  /\ \/ call[t] = "manage" /\ initialized' \in {initialized, TRUE} /\ Goto(t, "leave")
     \/ call[t] # "manage" /\ UNCHANGED initialized /\ Goto(t, "leave")
     \/ /\ call[t] = "open" /\ initialized /\ UNCHANGED initialized
        /\ Goto(t, IF mSemaphore = NULL THEN "recreate" ELSE "leave")
  /\ UNCHANGED <<mSemaphore, made, holder, call, waits, failed>>

\* The program starts again.
Restart ==
  /\ mSemaphore' = NULL /\ made' = 0
  /\ holder' = [m \in Mutex |-> Nobody]
  /\ pc' = [t \in Task |-> "idle"]
  /\ call' = [t \in Task |-> "use"]
  /\ waits' = [t \in Task |-> NULL]
  /\ initialized' = FALSE /\ failed' = FALSE

\* Who has taken the mutex that ~Lock() is about to give.
Holder == IF mSemaphore = NULL THEN Nobody ELSE holder[mSemaphore]

\* Lock::~Lock() looks at mSemaphore again.  To give a mutex that nobody has taken
\* is refused; to give one that another task has taken stops the program.
Leave(t) ==
  /\ pc[t] = "leave"
  /\ Holder \in {t, Nobody}
  /\ holder' = [m \in Mutex |-> IF m = mSemaphore THEN Nobody ELSE holder[m]]
  /\ Goto(t, "idle")
  /\ UNCHANGED <<mSemaphore, made, call, waits, initialized, failed>>

LeaveAborts(t) == pc[t] = "leave" /\ Holder \notin {t, Nobody} /\ Restart

\* One step of the function that task t has called.
Run(t) ==
  \/ Test(t, "init", "create", "enter") \/ Create(t, "create", "enter")
  \/ Enter(t) \/ Take(t)
  \/ Body(t) \/ Create(t, "recreate", "leave")
  \/ Leave(t) \/ LeaveAborts(t)

Next == \E t \in Task : Call(t) \/ Run(t)

Spec == Init /\ [][Next]_vars

(***************************************************************************)
(* Every task gets to run, no body runs forever (the runs of NvsStorage    *)
(* show this of what they contain), and a task that waits for the mutex    *)
(* is not passed over forever: it goes to the waiting task of highest      *)
(* priority that has waited longest, and the tasks are of one priority.    *)
(***************************************************************************)
FairSpec == Spec /\ \A t \in Task : WF_vars(Run(t)) /\ SF_vars(Take(t))

-----------------------------------------------------------------------------
(***************************************************************************)
(* "All public member functions are locked" (nvs_handle_locked.hpp), the   *)
(* functions of the C API likewise: unless no mutex could be made, no two  *)
(* tasks are in the body of a function, so that each may be taken for one  *)
(* action of the other modules.                                            *)
(***************************************************************************)
InBody(t) == pc[t] \in {"body", "recreate", "leave"}

MutualExclusion == ~failed => \A t, u \in Task : InBody(t) /\ InBody(u) => t = u

(***************************************************************************)
(* Every call returns: no task waits for ever for a mutex nobody gives.    *)
(***************************************************************************)
EveryCallReturns == \A t \in Task : pc[t] # "idle" ~> pc[t] = "idle"
=============================================================================
