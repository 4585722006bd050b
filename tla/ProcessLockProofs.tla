-------------------------- MODULE ProcessLockProofs --------------------------
(***************************************************************************)
(* The interprocess lock, proved for every number of processes, segments   *)
(* and nested locks, as long as nobody detaches while he has the lock.     *)
(***************************************************************************)
EXTENDS ProcessLock, TLAPS

\* What the level says about the interprocess lock, for one process.
Counts(p) == owner[InfoLock] = p <=> InfoLevel(p) > 0

(* Acquiring changes nothing but the level of the process and, at level    *)
(* zero, the lock asked for (msh_AcquireProcessLock).                      *)
LEMMA AcquireFacts ==
    ASSUME TypeOK, NEW p \in Proc, NEW l \in Lock, Acquire(p, l)
    PROVE  /\ lock_level' \in [Proc -> Nat]
           /\ owner' \in [Lock -> Proc \cup {NoProc}]
           /\ lock_level'[p] = lock_level[p] + 1
           /\ \A q \in Proc \ {p} : lock_level'[q] = lock_level[q]
           /\ \A k \in Lock \ {l} : owner'[k] = owner[k]
           /\ lock_level[p] > 0 => owner'[l] = owner[l]
           /\ lock_level[p] = 0 => owner[l] \in {NoProc, p} /\ owner'[l] = p
BY DEF TypeOK, Acquire

(* Releasing never takes a lock from another process, keeps every lock     *)
(* while there is more than one level, and gives the lock up at the last   *)
(* one (msh_ReleaseProcessLock).                                           *)
LEMMA ReleaseFacts ==
    ASSUME TypeOK, NEW p \in Proc, NEW l \in Lock, Release(p, l)
    PROVE  /\ lock_level' \in [Proc -> Nat]
           /\ owner' \in [Lock -> Proc \cup {NoProc}]
           /\ lock_level[p] > 0 => lock_level'[p] = lock_level[p] - 1
           /\ lock_level[p] = 0 => lock_level'[p] = 0
           /\ \A q \in Proc \ {p} : lock_level'[q] = lock_level[q]
           /\ \A k \in Lock \ {l} : owner'[k] = owner[k]
           /\ lock_level[p] # 1 => owner'[l] = owner[l]
           /\ lock_level[p] = 1 => owner'[l] = (IF owner[l] = p THEN NoProc ELSE owner[l])
BY DEF TypeOK, Release, Without

(* Entering or leaving a region or an operation.                           *)
LEMMA EnterFacts ==
    ASSUME TypeOK, NEW p \in Proc, NEW w \in PC, NEW l \in Lock \cup {NoLock},
           NEW s \in Seg \cup {NoLock}, Enter(p, w, l, s)
    PROVE  /\ pc' \in [Proc -> PC]
           /\ filelock' \in [Proc -> Lock \cup {NoLock}]
           /\ target' \in [Proc -> Seg \cup {NoLock}]
           /\ pc'[p] = w /\ filelock'[p] = l /\ target'[p] = s
           /\ \A q \in Proc \ {p} : /\ pc'[q] = pc[q]
                                    /\ filelock'[q] = filelock[q]
                                    /\ target'[q] = target[q]
BY DEF TypeOK, Enter

(* Every action preserves the inductive invariant.                         *)
LEMMA LockInvStep ==
    ASSUME ~DetachLocked, LockInv, [Next]_vars
    PROVE  LockInv'
<1> USE ProcessLockAssumption DEF Lock, PC
<1> DEFINE Others(p) ==
        \A q \in Proc \ {p} : /\ lock_level'[q] = lock_level[q]
                              /\ pc'[q] = pc[q]
                              /\ filelock'[q] = filelock[q]
                              /\ target'[q] = target[q]
<1>type. TypeOK BY DEF LockInv
(* It is enough to look at what the acting process changes for itself, and *)
(* that the locks of the others stay theirs.                               *)
<1>local. ASSUME NEW p \in Proc,
                 TypeOK', Others(p),
                 \A l \in Lock : owner[l] # p /\ owner[l] # NoProc => owner'[l] = owner[l],
                 \A l \in Lock : owner'[l] \in {owner[l], p, NoProc},
                 Counts(p)',
                 pc'[p] = "region" => lock_level'[p] > 0,
                 pc'[p] = "op" /\ filelock'[p] # NoLock =>
                     /\ lock_level'[p] > 0
                     /\ target'[p] \in Seg /\ filelock'[p] \in {target'[p], InfoLock}
                     /\ lock_level'[p] = 1 => owner'[filelock'[p]] = p
          PROVE  LockInv'
  <2>1. InfoLockCounted'
    <3> SUFFICES ASSUME NEW q \in Proc PROVE Counts(q)' BY DEF InfoLockCounted, Counts
    <3>1. CASE q = p BY <3>1, <1>local
    <3>2. CASE q # p
      <4>1. Counts(q) BY DEF LockInv, InfoLockCounted, Counts
      <4>2. InfoLevel(q)' = InfoLevel(q) BY <3>2, <1>local DEF InfoLevel
      <4>3. owner'[InfoLock] = q <=> owner[InfoLock] = q BY <3>2, <1>local, <1>type DEF TypeOK
      <4> QED BY <4>1, <4>2, <4>3 DEF Counts
    <3> QED BY <3>1, <3>2
  <2>2. LevelCounted'
    BY <1>local DEF LockInv, LevelCounted
  <2>3. OpAsks'
    BY <1>local DEF LockInv, OpAsks
  <2>4. OpOwns'
    <3> SUFFICES ASSUME NEW q \in Proc, pc'[q] = "op", filelock'[q] # NoLock, lock_level'[q] = 1
                 PROVE  owner'[filelock'[q]] = q
        BY DEF OpOwns
    <3>1. CASE q = p BY <3>1, <1>local
    <3>2. CASE q # p
      <4>1. filelock[q] \in Lock /\ owner[filelock[q]] = q
        BY <3>2, <1>local DEF LockInv, OpOwns, OpAsks
      <4> QED BY <4>1, <3>2, <1>local
    <3> QED BY <3>1, <3>2
  <2> QED BY <2>1, <2>2, <2>3, <2>4, <1>local DEF LockInv
<1>1. CASE UNCHANGED vars
  BY <1>1 DEF LockInv, TypeOK, InfoLockCounted, InfoLevel, LevelCounted, OpAsks, OpOwns, vars
<1>2. ASSUME NEW p \in Proc, LockDirective(p) PROVE LockInv'
  <2>0. pc[p] = "idle" /\ UNCHANGED <<pc, filelock, target>> BY <1>2 DEF LockDirective
  <2>1. Acquire(p, InfoLock) BY <1>2 DEF LockDirective
  <2>2. TypeOK' BY <1>type, <2>0, <2>1, AcquireFacts DEF TypeOK
  <2>3. Counts(p) BY DEF LockInv, InfoLockCounted, Counts
  <2>4. Counts(p)' BY <1>type, <2>0, <2>1, <2>3, AcquireFacts DEF TypeOK, Counts, InfoLevel
  <2>5. Others(p) BY <1>type, <2>0, <2>1, AcquireFacts
  <2> QED BY <1>type, <2>0, <2>1, <2>2, <2>4, <2>5, AcquireFacts, <1>local DEF TypeOK
<1>3. ASSUME NEW p \in Proc, UnlockDirective(p) PROVE LockInv'
  <2>0. pc[p] = "idle" /\ UNCHANGED <<pc, filelock, target>> BY <1>3 DEF UnlockDirective
  <2>1. Release(p, InfoLock) BY <1>3 DEF UnlockDirective
  <2>2. TypeOK' BY <1>type, <2>0, <2>1, ReleaseFacts DEF TypeOK
  <2>3. Counts(p) BY DEF LockInv, InfoLockCounted, Counts
  <2>4. Counts(p)' BY <1>type, <2>0, <2>1, <2>3, ReleaseFacts DEF TypeOK, Counts, InfoLevel
  <2>5. Others(p) BY <1>type, <2>0, <2>1, ReleaseFacts
  <2> QED BY <1>type, <2>0, <2>1, <2>2, <2>4, <2>5, ReleaseFacts, <1>local DEF TypeOK
<1>4. ASSUME NEW p \in Proc, BeginRegion(p) PROVE LockInv'
  <2>0. pc[p] = "idle" BY <1>4 DEF BeginRegion
  <2>1. Acquire(p, InfoLock) BY <1>4 DEF BeginRegion
  <2>e. Enter(p, "region", InfoLock, NoLock) BY <1>4 DEF BeginRegion
  <2>2. TypeOK' BY <1>type, <2>1, <2>e, AcquireFacts, EnterFacts DEF TypeOK
  <2>3. Counts(p) BY DEF LockInv, InfoLockCounted, Counts
  <2>4. Counts(p)'
    BY <1>type, <2>0, <2>1, <2>e, <2>3, AcquireFacts, EnterFacts DEF TypeOK, Counts, InfoLevel
  <2>5. Others(p) BY <1>type, <2>1, <2>e, AcquireFacts, EnterFacts
  <2> QED BY <1>type, <2>1, <2>e, <2>2, <2>4, <2>5, AcquireFacts, EnterFacts, <1>local DEF TypeOK
<1>5. ASSUME NEW p \in Proc, EndRegion(p) PROVE LockInv'
  <2>0. pc[p] = "region" BY <1>5 DEF EndRegion
  <2>1. Release(p, InfoLock) BY <1>5 DEF EndRegion
  <2>e. Enter(p, "idle", NoLock, NoLock) BY <1>5 DEF EndRegion, Leave
  <2>2. TypeOK' BY <1>type, <2>1, <2>e, ReleaseFacts, EnterFacts DEF TypeOK
  <2>3. Counts(p) BY DEF LockInv, InfoLockCounted, Counts
  <2>4. Counts(p)'
    BY <1>type, <2>0, <2>1, <2>e, <2>3, ReleaseFacts, EnterFacts DEF TypeOK, Counts, InfoLevel
  <2>5. Others(p) BY <1>type, <2>1, <2>e, ReleaseFacts, EnterFacts
  <2> QED BY <1>type, <2>1, <2>e, <2>2, <2>4, <2>5, ReleaseFacts, EnterFacts, <1>local DEF TypeOK
<1>6. ASSUME NEW p \in Proc, NEW s \in Seg, BeginSync(p, s) PROVE LockInv'
  <2>0. pc[p] = "idle" BY <1>6 DEF BeginSync
  <2>1. PICK l \in {s, InfoLock} : Acquire(p, l) /\ Enter(p, "op", l, s) BY <1>6 DEF BeginSync
  <2>e. Enter(p, "op", l, s) BY <2>1
  <2>2. TypeOK' BY <1>type, <2>1, <2>e, AcquireFacts, EnterFacts DEF TypeOK
  <2>3. Counts(p) BY DEF LockInv, InfoLockCounted, Counts
  <2>4. Counts(p)'
    BY <1>type, <2>0, <2>1, <2>e, <2>3, AcquireFacts, EnterFacts DEF TypeOK, Counts, InfoLevel
  <2>5. Others(p) BY <1>type, <2>1, <2>e, AcquireFacts, EnterFacts
  <2>6. /\ \A k \in Lock : owner[k] # p /\ owner[k] # NoProc => owner'[k] = owner[k]
        /\ \A k \in Lock : owner'[k] \in {owner[k], p, NoProc}
    BY <1>type, <2>1, AcquireFacts DEF TypeOK
  <2>7. /\ pc'[p] = "op" /\ filelock'[p] = l /\ target'[p] = s
        /\ lock_level'[p] > 0 /\ (lock_level'[p] = 1 => owner'[l] = p)
    BY <1>type, <2>1, <2>e, AcquireFacts, EnterFacts DEF TypeOK
  <2> QED BY <2>2, <2>4, <2>5, <2>6, <2>7, <1>local
<1>7. ASSUME NEW p \in Proc, NEW s \in Seg, BeginAsync(p, s) PROVE LockInv'
  <2>0. pc[p] = "idle" /\ UNCHANGED <<owner, lock_level>> BY <1>7 DEF BeginAsync
  <2>e. Enter(p, "op", NoLock, s) BY <1>7 DEF BeginAsync
  <2>2. TypeOK' BY <1>type, <2>0, <2>e, EnterFacts DEF TypeOK
  <2>3. Counts(p) BY DEF LockInv, InfoLockCounted, Counts
  <2>4. Counts(p)' BY <1>type, <2>0, <2>e, <2>3, EnterFacts DEF Counts, InfoLevel
  <2>5. Others(p) BY <1>type, <2>0, <2>e, EnterFacts
  <2> QED BY <1>type, <2>0, <2>e, <2>2, <2>4, <2>5, EnterFacts, <1>local DEF TypeOK
<1>8. ASSUME NEW p \in Proc, EndOp(p) PROVE LockInv'
  <2>0. pc[p] = "op" BY <1>8 DEF EndOp
  <2>e. Enter(p, "idle", NoLock, NoLock) BY <1>8 DEF EndOp, Leave
  <2>3. Counts(p) BY DEF LockInv, InfoLockCounted, Counts
  <2>a. CASE filelock[p] = NoLock
    <3>1. UNCHANGED <<owner, lock_level>> BY <2>a, <1>8 DEF EndOp
    <3>2. TypeOK' BY <1>type, <3>1, <2>e, EnterFacts DEF TypeOK
    <3>4. Counts(p)' BY <1>type, <2>a, <3>1, <2>e, <2>3, EnterFacts DEF Counts, InfoLevel
    <3>5. Others(p) BY <1>type, <3>1, <2>e, EnterFacts
    <3> QED BY <1>type, <3>1, <2>e, <3>2, <3>4, <3>5, EnterFacts, <1>local DEF TypeOK
  <2>b. CASE filelock[p] # NoLock
    <3>s. /\ filelock[p] \in Lock /\ lock_level[p] > 0
      BY <2>0, <2>b DEF LockInv, OpAsks, LevelCounted
    <3>1. Release(p, filelock[p]) BY <2>b, <1>8 DEF EndOp
    <3>2. TypeOK' BY <1>type, <3>s, <3>1, <2>e, ReleaseFacts, EnterFacts DEF TypeOK
    <3>4. Counts(p)'
      BY <1>type, <2>0, <2>b, <3>s, <3>1, <2>e, <2>3, ReleaseFacts, EnterFacts
      DEF TypeOK, Counts, InfoLevel
    <3>5. Others(p) BY <1>type, <3>s, <3>1, <2>e, ReleaseFacts, EnterFacts
    <3> QED BY <1>type, <3>s, <3>1, <2>e, <3>2, <3>4, <3>5, ReleaseFacts, EnterFacts, <1>local
        DEF TypeOK
  <2> QED BY <2>a, <2>b
<1>9. ASSUME NEW p \in Proc, Error(p) PROVE LockInv'
  <2>e. Enter(p, "idle", NoLock, NoLock) BY <1>9 DEF Error, Leave
  <2>1. OnError(p) BY <1>9 DEF Error
  <2>2. TypeOK' BY <1>type, <2>1, <2>e, EnterFacts DEF TypeOK, OnError, Without
  <2>3. Counts(p) BY DEF LockInv, InfoLockCounted, Counts
  <2>l. lock_level'[p] = 0 BY <1>type, <2>1 DEF TypeOK, OnError
  <2>o. owner'[InfoLock] # p
    BY <1>type, <2>1, <2>3 DEF TypeOK, OnError, Without, Counts, InfoLevel
  <2>4. Counts(p)' BY <1>type, <2>l, <2>o, <2>e, EnterFacts DEF Counts, InfoLevel
  <2>5. Others(p) BY <1>type, <2>1, <2>e, EnterFacts DEF TypeOK, OnError
  <2>6. \A l \in Lock : owner'[l] = owner[l] \/ (owner[l] = p /\ owner'[l] = NoProc)
    BY <1>type, <2>1 DEF TypeOK, OnError, Without
  <2> QED BY <1>type, <2>e, <2>2, <2>4, <2>5, <2>6, EnterFacts, <1>local DEF TypeOK
<1>10. ASSUME NEW p \in Proc, Detach(p) PROVE LockInv'
  <2>0. /\ pc[p] = "idle" /\ lock_level[p] = 0 /\ owner' = Closed(p)
        /\ UNCHANGED <<lock_level, pc, filelock, target>>
    BY <1>10 DEF Detach
  <2>2. TypeOK' BY <1>type, <2>0 DEF TypeOK, Closed
  <2>o. owner'[InfoLock] # p BY <1>type, <2>0 DEF TypeOK, Closed
  <2>4. Counts(p)' BY <1>type, <2>0, <2>o DEF Counts, InfoLevel
  <2>5. Others(p) BY <2>0
  <2>6. \A l \in Lock : owner'[l] = owner[l] \/ (owner[l] = p /\ owner'[l] = NoProc)
    BY <2>0 DEF Closed
  <2> QED BY <1>type, <2>0, <2>2, <2>4, <2>5, <2>6, <1>local DEF TypeOK
<1>11. ASSUME NEW p \in Proc, Crash(p) PROVE LockInv'
  <2>e. Enter(p, "idle", NoLock, NoLock) BY <1>11 DEF Crash, Leave
  <2>0. owner' = Closed(p) /\ lock_level' = [lock_level EXCEPT ![p] = 0] BY <1>11 DEF Crash
  <2>2. TypeOK' BY <1>type, <2>0, <2>e, EnterFacts DEF TypeOK, Closed
  <2>o. owner'[InfoLock] # p BY <1>type, <2>0 DEF TypeOK, Closed
  <2>l. lock_level'[p] = 0 BY <1>type, <2>0 DEF TypeOK
  <2>4. Counts(p)' BY <1>type, <2>l, <2>o, <2>e, EnterFacts DEF Counts, InfoLevel
  <2>5. Others(p) BY <1>type, <2>0, <2>e, EnterFacts DEF TypeOK
  <2>6. \A l \in Lock : owner'[l] = owner[l] \/ (owner[l] = p /\ owner'[l] = NoProc)
    BY <2>0 DEF Closed
  <2> QED BY <1>type, <2>e, <2>2, <2>4, <2>5, <2>6, EnterFacts, <1>local DEF TypeOK
<1> QED
  BY <1>1, <1>2, <1>3, <1>4, <1>5, <1>6, <1>7, <1>8, <1>9, <1>10, <1>11 DEF Next

(* The inductive invariant holds in every reachable state: the             *)
(* interprocess lock belongs to a process exactly while it counts a level  *)
(* of it, and an operation at level one has its segment's lock.            *)
THEOREM LockInvariant == ASSUME ~DetachLocked PROVE Spec => []LockInv
<1>1. Init => LockInv
  BY ProcessLockAssumption
  DEF Init, LockInv, TypeOK, InfoLockCounted, InfoLevel, LevelCounted, OpAsks, OpOwns, Lock, PC
<1>2. LockInv /\ [Next]_vars => LockInv' BY LockInvStep
<1> QED BY <1>1, <1>2, PTL DEF Spec

(* Regions that change the shared list never overlap.                      *)
THEOREM RegionsExclusiveHolds == ASSUME ~DetachLocked PROVE Spec => []RegionsExclusive
<1>1. LockInv => RegionsExclusive
  BY ProcessLockAssumption
  DEF LockInv, TypeOK, InfoLockCounted, LevelCounted, InfoLevel, RegionsExclusive
<1> QED BY <1>1, LockInvariant, PTL

(* No lock without a level, no level without the lock.                     *)
THEOREM LevelIsLockHolds == ASSUME ~DetachLocked PROVE Spec => []LevelIsLock
<1>1. LockInv => LevelIsLock
  BY ProcessLockAssumption DEF LockInv, TypeOK, InfoLockCounted, InfoLevel, LevelIsLock
<1> QED BY <1>1, LockInvariant, PTL

(* Outside matshare.lock, synchronous operations on one segment exclude    *)
(* each other.                                                             *)
THEOREM SyncExclusiveHolds == ASSUME ~DetachLocked PROVE Spec => []SyncExclusive
<1>1. LockInv => SyncExclusive
  BY ProcessLockAssumption DEF LockInv, OpOwns, SyncExclusive, InSync, Lock
<1> QED BY <1>1, LockInvariant, PTL
=============================================================================
