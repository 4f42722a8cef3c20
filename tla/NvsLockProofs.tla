----------------------------- MODULE NvsLockProofs -----------------------------
(***************************************************************************)
(* Proofs about the lock, for every set of tasks.                          *)
(***************************************************************************)
EXTENDS NvsLock, TLAPS

(***************************************************************************)
(* The inductive invariant, for as long as no mutex could not be made.     *)
(* While there is none there is one caller, which makes it before it goes  *)
(* on when it initialises a partition; from then on a task waits for this  *)
(* mutex, and has taken it when it is in its body.                         *)
(***************************************************************************)
OneCaller == mSemaphore = NULL => \A t, u \in Task : pc[t] # "idle" /\ pc[u] # "idle" => t = u

NullBefore ==
  /\ \A t \in Task : pc[t] = "create" => mSemaphore = NULL
  /\ \A t \in Task : call[t] = "manage" /\ pc[t] \in {"enter", "wait", "body", "leave"} =>
       mSemaphore # NULL
  /\ initialized => mSemaphore # NULL
  /\ \A t \in Task : pc[t] # "recreate"

Waiting == \A t \in Task : pc[t] = "wait" => mSemaphore # NULL /\ waits[t] = mSemaphore

Taken == mSemaphore # NULL => \A t \in Task : InBody(t) => holder[mSemaphore] = t

LockInv == ~failed => OneCaller /\ NullBefore /\ Waiting /\ Taken

IInv == TypeOK /\ LockInv

LEMMA InitIInv == Init => IInv
<1> SUFFICES ASSUME Init PROVE IInv
  OBVIOUS
<1>1. TypeOK
  <2>1. made \in 0 .. MaxMutexes
    BY MaxMutexesAssumption DEF Init
  <2>2. QED BY <2>1, Zenon DEF Init, TypeOK, Kind
<1>2. OneCaller /\ NullBefore /\ Waiting /\ Taken
  BY DEF Init, OneCaller, NullBefore, Waiting, Taken, NULL
<1>3. QED BY <1>1, <1>2 DEF IInv, LockInv

LEMMA TypeStep ==
  ASSUME TypeOK, [Next]_vars
  PROVE  TypeOK'
<1> USE MaxMutexesAssumption DEF TypeOK, Kind, NULL, Mutex, Goto
<1>1. ASSUME NEW t \in Task, Call(t) PROVE TypeOK'
  BY <1>1 DEF Call
<1>2. ASSUME NEW t \in Task, Run(t) PROVE TypeOK'
  <2>1. CASE Test(t, "init", "create", "enter")
    BY <2>1 DEF Test
  <2>2. CASE Create(t, "create", "enter") \/ Create(t, "recreate", "leave")
    <3>1. made' \in 0 .. MaxMutexes /\ mSemaphore' \in {NULL} \cup Mutex
      BY <2>2 DEF Create
    <3>2. failed' \in BOOLEAN
      BY <2>2 DEF Create
    <3>3. pc' \in [Task -> {"idle", "init", "create", "enter", "wait", "body", "recreate", "leave"}]
      BY <2>2 DEF Create
    <3>4. QED BY <2>2, <3>1, <3>2, <3>3 DEF Create
  <2>3. CASE Enter(t)
    BY <2>3 DEF Enter
  <2>4. CASE Take(t)
    BY <2>4 DEF Take
  <2>5. CASE Body(t)
    BY <2>5 DEF Body
  <2>6. CASE Leave(t)
    BY <2>6 DEF Leave
  <2>7. CASE LeaveAborts(t)
    <3>1. made' \in 0 .. MaxMutexes
      BY <2>7 DEF LeaveAborts, Restart
    <3>2. QED BY <2>7, <3>1, Zenon DEF LeaveAborts, Restart
  <2>8. QED BY <1>2, <2>1, <2>2, <2>3, <2>4, <2>5, <2>6, <2>7 DEF Run
<1>3. CASE UNCHANGED vars
  BY <1>3 DEF vars
<1>4. QED BY <1>1, <1>2, <1>3 DEF Next

LEMMA LockStep ==
  ASSUME IInv, [Next]_vars, ~failed'
  PROVE  OneCaller' /\ NullBefore' /\ Waiting' /\ Taken'
<1> USE DEF InBody, NULL
<1>0. TypeOK /\ TypeOK'
  BY TypeStep DEF IInv
<1>1. ASSUME NEW t \in Task, Call(t) PROVE OneCaller' /\ NullBefore' /\ Waiting' /\ Taken'
  <2>1. ~failed
    BY <1>1 DEF Call
  <2>2. QED BY <1>0, <1>1, <2>1
            DEF Call, OneByOne, IInv, TypeOK, LockInv, OneCaller, NullBefore, Waiting, Taken, Goto
<1>2. ASSUME NEW t \in Task, Run(t) PROVE OneCaller' /\ NullBefore' /\ Waiting' /\ Taken'
  <2>1. CASE Test(t, "init", "create", "enter")
    BY <1>0, <2>1 DEF Test, IInv, TypeOK, LockInv, OneCaller, NullBefore, Waiting, Taken, Goto
  <2>2. CASE Create(t, "create", "enter")
    <3>1. ~failed /\ mSemaphore = NULL /\ mSemaphore' # NULL
      BY <1>0, <2>2, MaxMutexesAssumption DEF Create, TypeOK, IInv, LockInv, NullBefore
    <3>2. \A u \in Task : u # t => pc[u] = "idle"
      BY <2>2, <3>1 DEF Create, IInv, LockInv, OneCaller
    <3>3. QED BY <1>0, <2>2, <3>1, <3>2
              DEF Create, IInv, TypeOK, LockInv, OneCaller, NullBefore, Waiting, Taken, Goto
  <2>3. CASE Create(t, "recreate", "leave")
    <3>1. ~failed
      BY <1>0, <2>3 DEF Create, TypeOK
    <3>2. QED BY <2>3, <3>1 DEF Create, IInv, LockInv, NullBefore
  <2>4. CASE Enter(t)
    BY <1>0, <2>4 DEF Enter, IInv, TypeOK, LockInv, OneCaller, NullBefore, Waiting, Taken, Goto
  <2>5. CASE Take(t)
    <3>1. ~failed /\ mSemaphore # NULL /\ mSemaphore \in Mutex /\ waits[t] = mSemaphore
      BY <1>0, <2>5 DEF Take, IInv, TypeOK, LockInv, Waiting
    <3>2. \A u \in Task : ~InBody(u)
      BY <2>5, <3>1, NobodyAssumption DEF Take, IInv, LockInv, Taken
    <3>3. holder'[mSemaphore'] = t
      BY <1>0, <2>5, <3>1 DEF Take, TypeOK
    <3>4. QED BY <1>0, <2>5, <3>1, <3>2, <3>3
              DEF Take, IInv, TypeOK, LockInv, OneCaller, NullBefore, Waiting, Taken, Goto
  <2>6. CASE Body(t)
    BY <1>0, <2>6 DEF Body, IInv, TypeOK, LockInv, OneCaller, NullBefore, Waiting, Taken, Goto
  <2>7. CASE Leave(t)
    BY <1>0, <2>7 DEF Leave, IInv, TypeOK, LockInv, OneCaller, NullBefore, Waiting, Taken, Goto, Mutex
  <2>8. CASE LeaveAborts(t)
    BY <2>8 DEF LeaveAborts, Restart, OneCaller, NullBefore, Waiting, Taken
  <2>9. QED BY <1>2, <2>1, <2>2, <2>3, <2>4, <2>5, <2>6, <2>7, <2>8 DEF Run
<1>3. CASE UNCHANGED vars
  BY <1>3 DEF vars, IInv, LockInv, OneCaller, NullBefore, Waiting, Taken
<1>4. QED BY <1>1, <1>2, <1>3 DEF Next

LEMMA IInvExclusion ==
  ASSUME IInv
  PROVE  MutualExclusion
  BY DEF IInv, LockInv, OneCaller, Taken, MutualExclusion, InBody

(***************************************************************************)
(* Whatever the tasks, no two of them are in the body of a function of the *)
(* API at the same time, as long as the mutex could be made: the lock makes*)
(* every function one step for all others.                                 *)
(***************************************************************************)
THEOREM Exclusion == Spec => []MutualExclusion
<1>1. Init => IInv
  BY InitIInv
<1>2. IInv /\ [Next]_vars => IInv'
  BY TypeStep, LockStep DEF IInv, LockInv
<1>3. IInv => MutualExclusion
  BY IInvExclusion
<1>4. QED BY <1>1, <1>2, <1>3, PTL DEF Spec
=============================================================================
