--------------------------- MODULE SegmentsProofs ---------------------------
(***************************************************************************)
(* Proofs about Segments, for any processes, objects, segment numbers and  *)
(* limits.  First the lock (LockInv), what each process knows of its own   *)
(* segments (LocalInv) and what else needs only these.  Then names,        *)
(* reference counts and open segments, which agree (TrackInv), and the     *)
(* links, which form the shared list (ListInv): both need each other and   *)
(* the invariants before them, and together they are SegmentsInv.  On it   *)
(* rest the invariants for the users of a segment (UsingInv), the size     *)
(* accounted for (SizeInv), the processes that are up to date (CurrentInv) *)
(* and that Segments implements SharedVariables (ImplementsVariables).     *)
(***************************************************************************)
EXTENDS Segments, FiniteSetTheorems, SequenceTheorems, TLAPS

------------------------------------------------------------------------------
(* The lock.                                                               *)

(* What LockInv says of one process.                                       *)
LockOf(p) ==
    /\ lock_level[p] > 0 <=> lock = p
    /\ pc[p] \in DetachPC => ret[p] \in ReturnPC
    /\ At(p) \in {"clear", "clear_all"} => lock_level[p] = 1
    /\ At(p) = "clear" => cmd[p] = "clear"
    /\ At(p) = "walk" => lock_level[p] = IF cmd[p] = "clear" THEN 2 ELSE 1
    /\ At(p) = "stale" => lock_level[p] = IF cmd[p] = "clear" THEN 1 ELSE 0
    /\ At(p) = "command" => lock_level[p] = 0 \/ (cmd[p] = "clear" /\ lock_level[p] = 1)
    /\ At(p) \notin {"clear", "clear_all", "walk", "stale", "command", "error"}
          => lock_level[p] = 0

LockTypes ==
    /\ pc \in [Proc -> PC] /\ ret \in [Proc -> PC]
    /\ cmd \in [Proc -> Commands \cup {"none"}]
    /\ lock_level \in [Proc -> Nat]

(* A step of p that leaves the lock alone, and what it does to p is right. *)
LEMMA LockSame ==
    ASSUME LockInv, NEW p \in Proc, LockTypes', LockOf(p)',
           UNCHANGED lock,
           \A q \in Proc : q # p => /\ pc'[q] = pc[q] /\ ret'[q] = ret[q]
                                    /\ cmd'[q] = cmd[q] /\ lock_level'[q] = lock_level[q]
    PROVE  LockInv'
<1>1. ASSUME NEW q \in Proc, q # p PROVE LockOf(q)'
  BY <1>1 DEF LockInv, LockOf, At
<1>2. \A q \in Proc : LockOf(q)'
  BY <1>1
<1> QED
  BY <1>2 DEF LockInv, LockOf, LockTypes

(* A step that takes or gives back a lock level.                           *)
LEMMA LockTaken ==
    ASSUME LockInv, NEW p \in Proc, Acquire(p) \/ Release(p), LockTypes', LockOf(p)',
           lock_level[p] > 0 \/ Acquire(p),
           UNCHANGED <<ret, cmd>>, \A q \in Proc : q # p => pc'[q] = pc[q]
    PROVE  LockInv'
<1>1. ASSUME NEW q \in Proc, q # p PROVE LockOf(q)'
  <2>1. lock_level'[q] = lock_level[q]
    BY <1>1 DEF Acquire, Release, LockInv
  <2>2. lock' = q <=> lock = q
    BY <1>1, SegmentsAssumption DEF Acquire, Release, CanAcquire, LockInv
  <2> QED
    BY <1>1, <2>1, <2>2 DEF LockInv, LockOf, At
<1>2. \A q \in Proc : LockOf(q)'
  BY <1>1
<1> QED
  BY <1>2 DEF LockInv, LockOf, LockTypes

(* The actions that move within a command, away from the lock.             *)
LEMMA LockDetach ==
    ASSUME LockInv, NEW p \in Proc, Detach(p)
    PROVE  LockInv'
<1> USE DEF LockInv
<1>1. /\ pc[p] \in DetachPC /\ UNCHANGED <<lock, lock_level, cmd>>
      /\ \/ pc' \in {[pc EXCEPT ![p] = l] : l \in DetachPC} /\ UNCHANGED ret
         \/ pc' = [pc EXCEPT ![p] = ret[p]] /\ ret' = [ret EXCEPT ![p] = "out"]
  <2>1. CASE DestroyVariable(p)
    BY <2>1 DEF DestroyVariable, Goto, DetachPC, locks
  <2>2. CASE Collect(p)
    BY <2>2 DEF Collect, Goto, DetachPC, locks, DetachEntry
  <2>3. CASE Untrack(p)
    BY <2>3 DEF Untrack, Goto, Detached, DetachPC, locks
  <2>4. CASE RemoveLast(p) \/ CompareSwap(p) \/ UnlinkSegment(p)
    BY <2>4 DEF RemoveLast, CompareSwap, UnlinkSegment, Goto, DetachPC, locks
  <2>5. CASE PostAndSubtract(p)
    BY <2>5 DEF PostAndSubtract, Goto, Detached, DetachPC, locks
  <2> QED
    BY <2>1, <2>2, <2>3, <2>4, <2>5 DEF Detach
<1>2. CASE pc' \in {[pc EXCEPT ![p] = l] : l \in DetachPC} /\ UNCHANGED ret
  <2>1. LockTypes' /\ LockOf(p)'
    BY <1>1, <1>2 DEF LockTypes, LockOf, At, DetachPC, PC
  <2> QED
    BY <1>1, <1>2, <2>1, LockSame
<1>3. CASE pc' = [pc EXCEPT ![p] = ret[p]] /\ ret' = [ret EXCEPT ![p] = "out"]
  <2>1. LockTypes' /\ LockOf(p)'
    BY <1>1, <1>3 DEF LockTypes, LockOf, At, DetachPC, ReturnPC, PC
  <2> QED
    BY <1>1, <1>3, <2>1, LockSame
<1> QED
  BY <1>1, <1>2, <1>3

(* Starting to detach a segment within a command.                          *)
LEMMA LockCallDetach ==
    ASSUME LockInv, NEW p \in Proc, NEW o, NEW l \in ReturnPC, CallDetach(p, o, l),
           UNCHANGED <<lock, lock_level, cmd>>,
           pc[p] \notin DetachPC, pc[p] = l \/ (l = "exit" /\ pc[p] = "idle")
    PROVE  LockInv'
<1> USE DEF LockInv
<1>1. /\ ret' = [ret EXCEPT ![p] = l]
      /\ pc' \in {[pc EXCEPT ![p] = k] : k \in DetachPC}
  BY DEF CallDetach, Goto, DetachEntry, DetachPC
<1>2. LockTypes' /\ LockOf(p)'
  BY <1>1 DEF LockTypes, LockOf, At, DetachPC, ReturnPC, PC
<1> QED
  BY <1>1, <1>2, LockSame

(* From one control point outside msh_DetachSegment to another.            *)
LEMMA LockGoto ==
    ASSUME LockInv, NEW p \in Proc, NEW l \in PC, Goto(p, l),
           UNCHANGED <<lock, lock_level, ret, cmd>>,
           pc[p] \notin DetachPC, l \notin DetachPC,
           \/ l = "command" /\ lock_level[p] = 0
           \/ l = "error"
           \/ l = "clear" /\ cmd[p] = "clear" /\ lock_level[p] = 1
           \/ l \notin {"clear", "clear_all", "walk", "stale", "command", "error"} /\ lock_level[p] = 0
    PROVE  LockInv'
<1>1. LockTypes' /\ LockOf(p)'
  BY DEF LockInv, LockTypes, LockOf, At, Goto, PC
<1> QED
  BY <1>1, LockSame DEF LockInv, Goto

(* Nothing happens to the lock, nor to where any process is.               *)
LEMMA LockQuiet ==
    ASSUME LockInv, UNCHANGED <<lock, lock_level, pc, ret, cmd>>
    PROVE  LockInv'
BY DEF LockInv, At

(* An error gives up every lock level (msh_OnError).                       *)
LEMMA LockOnError ==
    ASSUME LockInv, NEW p \in Proc, OnError(p)
    PROVE  LockInv'
<1> USE DEF LockInv
<1>1. /\ lock_level' = [lock_level EXCEPT ![p] = 0]
      /\ lock' = IF lock_level[p] > 0 THEN NoProc ELSE lock
      /\ pc' = [pc EXCEPT ![p] = "idle"] /\ UNCHANGED <<ret, cmd>>
  BY DEF OnError, Goto
<1>2. LockTypes' /\ LockOf(p)'
  BY <1>1, SegmentsAssumption DEF LockTypes, LockOf, At, DetachPC, PC
<1>3. ASSUME NEW q \in Proc, q # p PROVE LockOf(q)'
  <2>1. lock' = q <=> lock = q
    BY <1>1, <1>3, SegmentsAssumption
  <2> QED
    BY <1>1, <1>3, <2>1 DEF LockOf, At
<1> QED
  BY <1>2, <1>3 DEF LockTypes, LockOf

(* A segment that is one too many is detached with the lock held.          *)
LEMMA LockAdd ==
    ASSUME LockInv, NEW p \in Proc, AddSegmentToSharedList(p)
    PROVE  LockInv'
<1>1. pc[p] = "add" /\ lock_level[p] = 0 /\ UNCHANGED cmd
  BY DEF LockInv, AddSegmentToSharedList, At, DetachPC
<1>2. CASE num_shared_segments >= max_shared_segments /\ Acquire(p) /\ CallDetach(p, cur[p], "error")
  <2>1. /\ lock' = p /\ lock = NoProc /\ lock_level' = [lock_level EXCEPT ![p] = lock_level[p] + 1]
        /\ ret' = [ret EXCEPT ![p] = "error"]
        /\ pc' \in {[pc EXCEPT ![p] = k] : k \in DetachPC}
    <3>1. lock' = p /\ lock = NoProc /\ lock_level' = [lock_level EXCEPT ![p] = lock_level[p] + 1]
      BY <1>1, <1>2 DEF Acquire, CanAcquire
    <3> QED
      BY <1>1, <1>2, <3>1 DEF CallDetach, Goto, DetachEntry, DetachPC
  <2>2. LockTypes' /\ LockOf(p)'
    BY <1>1, <2>1 DEF LockInv, LockTypes, LockOf, At, DetachPC, ReturnPC, PC
  <2>3. ASSUME NEW q \in Proc, q # p PROVE LockOf(q)'
    BY <1>1, <2>1, <2>3, SegmentsAssumption DEF LockInv, LockOf, At
  <2> QED
    BY <2>2, <2>3 DEF LockTypes, LockOf, LockInv
<1>3. CASE Goto(p, "return") /\ UNCHANGED <<ret, locks>>
  BY <1>1, <1>3, LockGoto DEF PC, DetachPC, locks
<1> QED
  BY <1>2, <1>3 DEF AddSegmentToSharedList

(* Bringing the local list up to date, with a lock level of its own.       *)
LEMMA LockUpdateAll ==
    ASSUME LockInv, NEW p \in Proc, FetchUpdate(p) \/ ClearUpdate(p)
    PROVE  LockInv'
<1>1. /\ pc[p] = "command" /\ UNCHANGED <<ret, cmd>>
      /\ \/ cmd[p] = "clear" /\ lock_level[p] = 1
         \/ cmd[p] = "fetch" /\ lock_level[p] = 0
  BY DEF LockInv, FetchUpdate, ClearUpdate, UpdateAllSegments, At, DetachPC
<1>2. CASE Goto(p, AfterUpdate(p)) /\ UNCHANGED locks
  BY <1>1, <1>2, LockGoto DEF AfterUpdate, PC, DetachPC, locks
<1>3. CASE Acquire(p) /\ Goto(p, "walk")
  <2>1. LockTypes' /\ LockOf(p)'
    BY <1>1, <1>3, SegmentsAssumption
       DEF LockInv, Acquire, CanAcquire, Goto, LockTypes, LockOf, At, DetachPC, ReturnPC, PC
  <2> QED
    BY <1>1, <1>3, <2>1, LockTaken DEF Goto
<1> QED
  BY <1>2, <1>3 DEF FetchUpdate, ClearUpdate, UpdateAllSegments

(* The walk ends by giving this level back.                                *)
LEMMA LockWalk ==
    ASSUME LockInv, NEW p \in Proc, WalkSharedList(p)
    PROVE  LockInv'
<1>1. /\ pc[p] = "walk" /\ UNCHANGED <<ret, cmd>>
      /\ lock_level[p] = IF cmd[p] = "clear" THEN 2 ELSE 1
  BY DEF LockInv, WalkSharedList, At, DetachPC
<1>2. CASE Release(p) /\ Goto(p, "stale")
  <2>1. LockTypes' /\ LockOf(p)'
    BY <1>1, <1>2, SegmentsAssumption
       DEF LockInv, Release, Goto, LockTypes, LockOf, At, DetachPC, ReturnPC, PC
  <2> QED
    BY <1>1, <1>2, <2>1, LockTaken DEF Goto
<1>3. CASE UNCHANGED <<locks, pc>>
  BY <1>1, <1>3, LockQuiet DEF locks
<1> QED
  BY <1>2, <1>3 DEF WalkSharedList

(* msh_Clear takes the lock and gives it back.                             *)
LEMMA LockClear ==
    ASSUME LockInv, NEW p \in Proc, AcquireForClear(p) \/ ReleaseAfterClear(p)
    PROVE  LockInv'
<1>1. CASE AcquireForClear(p)
  <2>1. LockTypes' /\ LockOf(p)'
    BY <1>1, SegmentsAssumption
       DEF LockInv, AcquireForClear, Acquire, CanAcquire, Goto, LockTypes, LockOf, At, DetachPC, ReturnPC, PC
  <2> QED
    BY <1>1, <2>1, LockTaken DEF AcquireForClear, Goto
<1>2. CASE ReleaseAfterClear(p)
  <2>0. lock_level[p] = 1
    BY <1>2 DEF LockInv, ReleaseAfterClear, At, DetachPC
  <2>1. LockTypes' /\ LockOf(p)'
    BY <1>2, <2>0, SegmentsAssumption
       DEF LockInv, ReleaseAfterClear, Release, Goto, LockTypes, LockOf, At, DetachPC, ReturnPC, PC
  <2> QED
    BY <1>2, <2>0, <2>1, LockTaken DEF ReleaseAfterClear, Goto
<1> QED
  BY <1>1, <1>2

(* The steps that only go on within a command, or start or end one.        *)
LEMMA LockStep ==
    ASSUME LockInv, NEW p \in Proc, Step(p)
    PROVE  LockInv'
<1> USE DEF locks
<1>0. At(p) = pc[p] \/ pc[p] \in DetachPC
  BY DEF LockInv, At
<1>1. CASE CleanSegmentList(p)
  <2>1. pc[p] = "clean" /\ lock_level[p] = 0
    BY <1>1 DEF LockInv, CleanSegmentList, At, DetachPC
  <2>2. CASE Goto(p, IF cmd[p] \in {"clean", "other"} THEN "gc" ELSE "command") /\ UNCHANGED ret
    BY <1>1, <2>1, <2>2, LockGoto DEF CleanSegmentList, PC, DetachPC
  <2>3. CASE CallDetach(p, Head(rest[p]), "clean")
    <3>1. "clean" \in ReturnPC /\ "clean" \notin DetachPC
      BY DEF ReturnPC, DetachPC
    <3>2. UNCHANGED <<lock, lock_level, cmd>>
      BY <1>1 DEF CleanSegmentList
    <3> QED
      BY <2>1, <2>3, <3>1, <3>2, LockCallDetach
  <2>4. CASE UNCHANGED <<ret, pc>>
    BY <1>1, <2>4, LockQuiet DEF CleanSegmentList
  <2> QED
    BY <1>1, <2>2, <2>3, <2>4 DEF CleanSegmentList
<1>2. CASE CleanVariableList(p)
  <2>1. pc[p] = "gc" /\ lock_level[p] = 0
    BY <1>2 DEF LockInv, CleanVariableList, At, DetachPC
  <2>2. CASE Goto(p, "idle") /\ UNCHANGED ret
    BY <1>2, <2>1, <2>2, LockGoto DEF CleanVariableList, PC, DetachPC
  <2>3. CASE Goto(p, "collect") /\ ret' = [ret EXCEPT ![p] = "gc"]
    <3>1. LockTypes' /\ LockOf(p)'
      BY <1>2, <2>1, <2>3 DEF LockInv, CleanVariableList, Goto, LockTypes, LockOf, At, DetachPC, ReturnPC, PC
    <3> QED
      BY <1>2, <2>1, <2>3, <3>1, LockSame DEF CleanVariableList, Goto
  <2>4. CASE UNCHANGED <<ret, pc>>
    BY <1>2, <2>4, LockQuiet DEF CleanVariableList
  <2> QED
    BY <1>2, <2>2, <2>3, <2>4 DEF CleanVariableList
<1>3. CASE OnError(p) \/ Detach(p) \/ AddSegmentToSharedList(p) \/ FetchUpdate(p)
           \/ ClearUpdate(p) \/ WalkSharedList(p) \/ AcquireForClear(p) \/ ReleaseAfterClear(p)
  BY <1>3, LockOnError, LockDetach, LockAdd, LockUpdateAll, LockWalk, LockClear
<1>4. CASE Config(p) \/ ReserveSize(p)
  <2>1. /\ pc[p] = "command" /\ lock_level[p] = 0 /\ UNCHANGED <<locks, ret, cmd>>
        /\ \E l \in {"gc", "error", "create"} : Goto(p, l)
    BY <1>4 DEF LockInv, Config, ReserveSize, At, DetachPC
  <2>2. PICK l \in {"gc", "error", "create"} : Goto(p, l)
    BY <2>1
  <2> QED
    BY <2>1, <2>2, LockGoto DEF PC, DetachPC
<1>5. CASE CreateSegment(p)
  <2>1. pc[p] = "create" /\ lock_level[p] = 0 /\ UNCHANGED <<locks, ret, cmd>>
    BY <1>5 DEF LockInv, CreateSegment, At, DetachPC
  <2>2. UNCHANGED pc \/ Goto(p, "add")
    BY <1>5 DEF CreateSegment
  <2>3. CASE Goto(p, "add")
    BY <2>1, <2>3, LockGoto DEF PC, DetachPC
  <2> QED
    BY <2>1, <2>2, <2>3, LockQuiet
<1>6. CASE ReturnShared(p)
  <2>1. /\ pc[p] = "return" /\ lock_level[p] = 0 /\ UNCHANGED <<locks, ret, cmd>>
        /\ \E l \in {"command", "gc"} : Goto(p, l)
    BY <1>6 DEF LockInv, ReturnShared, At, DetachPC
  <2>2. PICK l \in {"command", "gc"} : Goto(p, l)
    BY <2>1
  <2> QED
    BY <2>1, <2>2, LockGoto DEF PC, DetachPC
<1>7. CASE DetachStale(p)
  <2>1. pc[p] = "stale" /\ lock_level[p] = (IF cmd[p] = "clear" THEN 1 ELSE 0)
    BY <1>7 DEF LockInv, DetachStale, At, DetachPC
  <2>2. CASE Goto(p, AfterUpdate(p)) /\ UNCHANGED ret
    BY <1>7, <2>1, <2>2, LockGoto DEF DetachStale, AfterUpdate, PC, DetachPC
  <2>3. CASE CallDetach(p, Head(rest[p]), "stale")
    <3>1. "stale" \in ReturnPC /\ "stale" \notin DetachPC
      BY DEF ReturnPC, DetachPC
    <3>2. UNCHANGED <<lock, lock_level, cmd>>
      BY <1>7 DEF DetachStale
    <3> QED
      BY <2>1, <2>3, <3>1, <3>2, LockCallDetach
  <2> QED
    BY <1>7, <2>2, <2>3 DEF DetachStale
<1>8. CASE UpdateLatestSegment(p) \/ OpenLatest(p) \/ CreateOutputs(p)
  <2>1. /\ pc[p] \in {"command", "open_latest", "output"} /\ lock_level[p] = 0
        /\ UNCHANGED <<locks, ret, cmd>>
        /\ \E l \in {"output", "open_latest", "use"} : Goto(p, l)
    BY <1>8 DEF LockInv, UpdateLatestSegment, OpenLatest, CreateOutputs, At, DetachPC
  <2>2. PICK l \in {"output", "open_latest", "use"} : Goto(p, l)
    BY <2>1
  <2> QED
    BY <2>1, <2>2, LockGoto DEF PC, DetachPC
<1>9. CASE UseOutput(p)
  <2>1. /\ pc[p] = "use" /\ lock_level[p] = 0 /\ UNCHANGED <<locks, ret, cmd>>
        /\ UNCHANGED pc \/ Goto(p, "gc")
    BY <1>9 DEF LockInv, UseOutput, At, DetachPC
  <2>2. CASE Goto(p, "gc")
    BY <2>1, <2>2, LockGoto DEF PC, DetachPC
  <2> QED
    BY <2>1, <2>2, LockQuiet
<1>10. CASE ClearFirst(p)
  <2>1. pc[p] = "clear_all" /\ UNCHANGED <<locks, cmd>>
    BY <1>10 DEF ClearFirst
  <2>2. UNCHANGED <<pc, ret>> \/ \E o : CallDetach(p, o, "clear_all")
    BY <1>10 DEF ClearFirst
  <2>3. "clear_all" \in ReturnPC /\ "clear_all" \notin DetachPC
    BY DEF ReturnPC, DetachPC
  <2>4. CASE \E o : CallDetach(p, o, "clear_all")
    BY <2>1, <2>3, <2>4, LockCallDetach
  <2> QED
    BY <2>1, <2>2, <2>4, LockQuiet
<1>11. CASE \E o \in Obj : ClearOne(p, o)
  <2>1. PICK o \in Obj : ClearOne(p, o)
    BY <1>11
  <2>2. "clear" \in ReturnPC /\ "clear" \notin DetachPC
    BY DEF ReturnPC, DetachPC
  <2>3. pc[p] = "clear" /\ CallDetach(p, o, "clear") /\ UNCHANGED <<lock, lock_level, cmd>>
    BY <2>1 DEF ClearOne
  <2> QED
    BY <2>2, <2>3, LockCallDetach
<1> QED
  BY <1>1, <1>2, <1>3, <1>4, <1>5, <1>6, <1>7, <1>8, <1>9, <1>10, <1>11 DEF Step

(* Every step keeps the account of the lock levels.                        *)
LEMMA LockNext == LockInv /\ [Next]_vars => LockInv'
<1> SUFFICES ASSUME LockInv, [Next]_vars PROVE LockInv'
  OBVIOUS
<1> USE DEF locks
<1>1. ASSUME NEW p \in Proc, NEW c \in Commands, Call(p, c) PROVE LockInv'
  <2>1. pc[p] \in {"idle", "out"} /\ lock_level[p] = 0
    BY <1>1 DEF LockInv, Call, At, DetachPC
  <2>2. LockTypes' /\ LockOf(p)'
    BY <1>1, <2>1 DEF LockInv, Call, Goto, LockTypes, LockOf, At, DetachPC, ReturnPC, PC
  <2> QED
    BY <1>1, <2>2, LockSame DEF Call, Goto
<1>2. ASSUME NEW p \in Proc, NEW o \in Obj, DropCopy(p, o) PROVE LockInv'
  BY <1>2, LockQuiet DEF DropCopy
<1>3. ASSUME NEW p \in Proc, CreateFails(p) PROVE LockInv'
  <2>1. pc[p] = "create"
    BY <1>3 DEF CreateFails
  <2>2. "error" \in PC /\ "error" \notin DetachPC /\ "create" \notin DetachPC
    BY DEF PC, DetachPC
  <2>3. Goto(p, "error") /\ UNCHANGED <<lock, lock_level, ret, cmd>>
    BY <1>3 DEF CreateFails
  <2> QED
    BY <2>1, <2>2, <2>3, LockGoto
<1>4. ASSUME NEW p \in Proc, OnExit(p) PROVE LockInv'
  <2>1. pc[p] \in {"idle", "exit"} /\ lock_level[p] = 0 /\ UNCHANGED <<locks, cmd>>
    BY <1>4 DEF LockInv, OnExit, At, DetachPC
  <2>2. CallDetach(p, Head(local[p]), "exit") \/ (Goto(p, "out") /\ UNCHANGED ret)
    BY <1>4 DEF OnExit
  <2>3. /\ "exit" \in ReturnPC /\ "exit" \notin DetachPC /\ "idle" \notin DetachPC
        /\ "out" \in PC \ DetachPC
    BY DEF PC, DetachPC, ReturnPC
  <2>4. CASE CallDetach(p, Head(local[p]), "exit")
    BY <2>1, <2>3, <2>4, LockCallDetach
  <2>5. CASE Goto(p, "out") /\ UNCHANGED ret
    BY <2>1, <2>3, <2>5, LockGoto
  <2> QED
    BY <2>2, <2>4, <2>5
<1>5. CASE UNCHANGED vars
  BY <1>5, LockQuiet DEF vars
<1> QED
  BY <1>1, <1>2, <1>3, <1>4, <1>5, LockStep DEF Next, User

(* Nobody holds the lock to begin with.                                    *)
LEMMA LockInit == Init => LockInv
BY SegmentsAssumption DEF Init, LockInv, At, DetachPC, PC

(* A command returns without the lock, whether it ended well or with an    *)
(* error, and nobody works at a lock level without being the holder        *)
(* (LockReturned).                                                         *)
THEOREM LockReturnedHolds == Spec => []LockReturned
<1>1. LockInv => LockReturned
  BY DEF LockInv, LockReturned, At, DetachPC
<1> QED
  BY <1>1, LockInit, LockNext, PTL DEF Spec

------------------------------------------------------------------------------
(* Lists without repetitions, as local and rest are.                       *)

(* What is in a list that is put together of two others.                   *)
LEMMA ConcatFact ==
    ASSUME NEW S, NEW s \in Seq(S), NEW t \in Seq(S), IsInjective(s), IsInjective(t),
           ToSet(s) \cap ToSet(t) = {}
    PROVE  /\ s \o t \in Seq(S) /\ IsInjective(s \o t)
           /\ ToSet(s \o t) = ToSet(s) \cup ToSet(t)
<1>1. /\ s \o t \in Seq(S) /\ Len(s \o t) = Len(s) + Len(t)
      /\ Len(s) \in Nat /\ Len(t) \in Nat
      /\ DOMAIN s = 1 .. Len(s) /\ DOMAIN t = 1 .. Len(t)
      /\ DOMAIN (s \o t) = 1 .. (Len(s) + Len(t))
  BY ConcatProperties, LenProperties
<1>2. \A i \in 1 .. (Len(s) + Len(t)) :
         /\ i =< Len(s) => (s \o t)[i] = s[i] /\ i \in 1 .. Len(s)
         /\ i > Len(s) => (s \o t)[i] = t[i - Len(s)] /\ i - Len(s) \in 1 .. Len(t)
  BY <1>1, ConcatProperties
<1>3. PICK u : u = s \o t
  OBVIOUS
<1>4. IsInjective(u)
  <2> SUFFICES ASSUME NEW i \in 1 .. (Len(s) + Len(t)), NEW j \in 1 .. (Len(s) + Len(t)),
                      u[i] = u[j]
               PROVE  i = j
    BY <1>1, <1>3 DEF IsInjective
  <2>1. \A m \in 1 .. Len(s), n \in 1 .. Len(t) : s[m] # t[n]
    BY <1>1 DEF ToSet
  <2>2. CASE i =< Len(s) /\ j =< Len(s)
    BY <1>1, <1>2, <1>3, <2>2 DEF IsInjective
  <2>3. CASE i > Len(s) /\ j > Len(s)
    <3>1. i - Len(s) = j - Len(s)
      BY <1>1, <1>2, <1>3, <2>3 DEF IsInjective
    <3> QED
      BY <1>1, <3>1
  <2>4. CASE i =< Len(s) /\ j > Len(s)
    BY <1>2, <1>3, <2>1, <2>4
  <2>5. CASE i > Len(s) /\ j =< Len(s)
    BY <1>2, <1>3, <2>1, <2>5
  <2> QED
    BY <1>1, <2>2, <2>3, <2>4, <2>5
<1>5. \A x : x \in ToSet(u) <=> x \in ToSet(s) \cup ToSet(t)
  <2>1. /\ \A x : x \in ToSet(u) <=> \E i \in 1 .. (Len(s) + Len(t)) : x = u[i]
        /\ \A x : x \in ToSet(s) <=> \E i \in 1 .. Len(s) : x = s[i]
        /\ \A x : x \in ToSet(t) <=> \E i \in 1 .. Len(t) : x = t[i]
    BY <1>1, <1>3 DEF ToSet
  <2>2. ASSUME NEW i \in 1 .. (Len(s) + Len(t)) PROVE u[i] \in ToSet(s) \cup ToSet(t)
    BY <1>1, <1>2, <1>3, <2>1
  <2>3. ASSUME NEW i \in 1 .. Len(s) PROVE s[i] \in ToSet(u)
    <3>1. i \in 1 .. (Len(s) + Len(t)) /\ u[i] = s[i]
      BY <1>1, <1>2, <1>3
    <3> QED
      BY <2>1, <3>1
  <2>4. ASSUME NEW i \in 1 .. Len(t) PROVE t[i] \in ToSet(u)
    <3>1. i + Len(s) \in 1 .. (Len(s) + Len(t)) /\ u[i + Len(s)] = t[i]
      BY <1>1, <1>2, <1>3
    <3> QED
      BY <2>1, <3>1
  <2> QED
    BY <2>1, <2>2, <2>3, <2>4
<1> QED
  BY <1>1, <1>3, <1>4, <1>5

(* A list of one element, and the empty list.                              *)
LEMMA ShortFact ==
    ASSUME NEW S
    PROVE  /\ <<>> \in Seq(S) /\ IsInjective(<<>>) /\ ToSet(<<>>) = {}
           /\ \A x \in S : <<x>> \in Seq(S) /\ IsInjective(<<x>>) /\ ToSet(<<x>>) = {x}
BY DEF IsInjective, ToSet

(* A part of a list has no repetitions either.                             *)
LEMMA SubSeqFact ==
    ASSUME NEW S, NEW s \in Seq(S), IsInjective(s), NEW m \in Int, NEW n \in Int,
           m >= 1, n =< Len(s)
    PROVE  /\ SubSeq(s, m, n) \in Seq(S) /\ IsInjective(SubSeq(s, m, n))
           /\ \A x : x \in ToSet(SubSeq(s, m, n)) <=> \E i \in m .. n : x = s[i]
<1>1. /\ DOMAIN s = 1 .. Len(s) /\ Len(s) \in Nat
      /\ \A i \in m .. n : i \in 1 .. Len(s) /\ s[i] \in S
  BY LenProperties, ElementOfSeq
<1>2. PICK u : u = SubSeq(s, m, n)
  OBVIOUS
<1>3. /\ u \in Seq(S)
      /\ Len(u) = IF m =< n THEN n - m + 1 ELSE 0
      /\ \A i \in 1 .. n - m + 1 : u[i] = s[m + i - 1]
  BY <1>1, <1>2, SubSeqProperties
<1>4. /\ DOMAIN u = 1 .. Len(u)
      /\ \A i \in 1 .. Len(u) : m + i - 1 \in m .. n /\ u[i] = s[m + i - 1]
  BY <1>3, LenProperties
<1>5. IsInjective(u)
  <2> SUFFICES ASSUME NEW i \in 1 .. Len(u), NEW j \in 1 .. Len(u), u[i] = u[j]
               PROVE  i = j
    BY <1>4 DEF IsInjective
  <2>1. m + i - 1 = m + j - 1
    BY <1>1, <1>4 DEF IsInjective
  <2> QED
    BY <1>3, <2>1
<1>6. ASSUME NEW i \in m .. n PROVE \E j \in 1 .. Len(u) : s[i] = u[j]
  <2>1. i - m + 1 \in 1 .. Len(u) /\ u[i - m + 1] = s[i]
    BY <1>3, <1>4
  <2> QED
    BY <2>1
<1>7. \A x : x \in ToSet(u) <=> \E j \in 1 .. Len(u) : x = u[j]
  BY <1>4 DEF ToSet
<1>8. ASSUME NEW x PROVE x \in ToSet(u) <=> \E i \in m .. n : x = s[i]
  <2>1. ASSUME x \in ToSet(u) PROVE \E i \in m .. n : x = s[i]
    <3>1. PICK j \in 1 .. Len(u) : x = u[j]
      BY <1>7, <2>1
    <3>2. m + j - 1 \in m .. n /\ x = s[m + j - 1]
      BY <1>4, <3>1
    <3> QED
      BY <3>2
  <2> QED
    BY <1>6, <1>7, <2>1
<1> QED
  BY <1>2, <1>3, <1>5, <1>8

(* What is left of a list when one element goes.                           *)
LEMMA RemoveNodeFact ==
    ASSUME NEW S, NEW s \in Seq(S), IsInjective(s), NEW o
    PROVE  /\ RemoveNode(s, o) \in Seq(S) /\ IsInjective(RemoveNode(s, o))
           /\ ToSet(RemoveNode(s, o)) = ToSet(s) \ {o}
<1>1. CASE o \notin ToSet(s)
  BY <1>1 DEF RemoveNode
<1>2. CASE o \in ToSet(s)
  <2>1. /\ DOMAIN s = 1 .. Len(s) /\ Len(s) \in Nat
        /\ \A x : x \in ToSet(s) <=> \E i \in 1 .. Len(s) : x = s[i]
    BY LenProperties DEF ToSet
  <2>2. PICK k : k = CHOOSE i \in DOMAIN s : s[i] = o
    OBVIOUS
  <2>3. k \in 1 .. Len(s) /\ s[k] = o
    BY <1>2, <2>1, <2>2
  <2>4. RemoveNode(s, o) = SubSeq(s, 1, k - 1) \o SubSeq(s, k + 1, Len(s))
    BY <1>2, <2>2 DEF RemoveNode, RemoveAt
  <2>5. PICK u, v : u = SubSeq(s, 1, k - 1) /\ v = SubSeq(s, k + 1, Len(s))
    OBVIOUS
  <2>6. /\ u \in Seq(S) /\ IsInjective(u)
        /\ \A x : x \in ToSet(u) <=> \E i \in 1 .. (k - 1) : x = s[i]
    BY <2>1, <2>3, <2>5, SubSeqFact
  <2>7. /\ v \in Seq(S) /\ IsInjective(v)
        /\ \A x : x \in ToSet(v) <=> \E i \in (k + 1) .. Len(s) : x = s[i]
    BY <2>1, <2>3, <2>5, SubSeqFact
  <2>8. \A i, j \in 1 .. Len(s) : s[i] = s[j] => i = j
    BY <2>1 DEF IsInjective
  <2>9. ToSet(u) \cap ToSet(v) = {}
    BY <2>1, <2>3, <2>6, <2>7, <2>8
  <2>10. \A x : x \in ToSet(u) \cup ToSet(v) <=> x \in ToSet(s) \ {o}
    <3>1. ASSUME NEW i \in 1 .. Len(s), i # k PROVE s[i] \in ToSet(u) \cup ToSet(v)
      BY <2>1, <2>3, <2>6, <2>7, <3>1
    <3> QED
      BY <2>1, <2>3, <2>6, <2>7, <2>8, <3>1
  <2>11. ToSet(u) \cup ToSet(v) = ToSet(s) \ {o}
    BY <2>10
  <2>12. /\ u \o v \in Seq(S) /\ IsInjective(u \o v)
         /\ ToSet(u \o v) = ToSet(u) \cup ToSet(v)
    BY <2>6, <2>7, <2>9, ConcatFact
  <2> QED
    BY <2>4, <2>5, <2>11, <2>12
<1> QED
  BY <1>1, <1>2

(* Going on to the rest of a list.                                         *)
LEMMA TailFact ==
    ASSUME NEW S, NEW s \in Seq(S), IsInjective(s), s # <<>>
    PROVE  /\ Tail(s) \in Seq(S) /\ IsInjective(Tail(s))
           /\ Head(s) \in ToSet(s) /\ ToSet(Tail(s)) = ToSet(s) \ {Head(s)}
<1>1. /\ DOMAIN s = 1 .. Len(s) /\ Len(s) \in Nat /\ Len(s) # 0
      /\ \A x : x \in ToSet(s) <=> \E i \in 1 .. Len(s) : x = s[i]
  BY LenProperties, EmptySeq DEF ToSet
<1>2. Tail(s) = SubSeq(s, 2, Len(s)) /\ Head(s) = s[1]
  BY TailIsSubSeq
<1>3. /\ Tail(s) \in Seq(S) /\ IsInjective(Tail(s))
      /\ \A x : x \in ToSet(Tail(s)) <=> \E i \in 2 .. Len(s) : x = s[i]
  <2>1. 2 \in Int /\ Len(s) \in Int /\ 2 >= 1 /\ Len(s) =< Len(s)
    BY <1>1
  <2>2. PICK u : u = SubSeq(s, 2, Len(s))
    OBVIOUS
  <2>3. /\ u \in Seq(S) /\ IsInjective(u)
        /\ \A x : x \in ToSet(u) <=> \E i \in 2 .. Len(s) : x = s[i]
    BY <2>1, <2>2, SubSeqFact
  <2> QED
    BY <1>2, <2>2, <2>3
<1>4. \A i \in 2 .. Len(s) : i \in 1 .. Len(s) /\ s[i] # s[1]
  BY <1>1 DEF IsInjective
<1>5. \A i \in 1 .. Len(s) : i = 1 \/ i \in 2 .. Len(s)
  BY <1>1
<1>6. 1 \in 1 .. Len(s) /\ \A i \in 2 .. Len(s) : i \in 1 .. Len(s)
  BY <1>1
<1>7. \A x : x \in ToSet(Tail(s)) <=> x \in ToSet(s) \ {Head(s)}
  BY <1>1, <1>2, <1>3, <1>4, <1>5, <1>6
<1>8. ToSet(Tail(s)) = ToSet(s) \ {Head(s)}
  BY <1>7
<1>9. Head(s) \in ToSet(s)
  BY <1>1, <1>2, <1>6
<1> QED
  BY <1>3, <1>8, <1>9

(* The same for a list with repetitions.                                   *)
LEMMA TailSubset ==
    ASSUME NEW S, NEW s \in Seq(S), s # <<>>
    PROVE  Tail(s) \in Seq(S) /\ Head(s) \in ToSet(s) /\ ToSet(Tail(s)) \subseteq ToSet(s)
<1>1. /\ DOMAIN s = 1 .. Len(s) /\ Len(s) \in Nat /\ Len(s) # 0
      /\ Tail(s) \in Seq(S) /\ Len(Tail(s)) = Len(s) - 1
      /\ \A i \in 1 .. Len(Tail(s)) : Tail(s)[i] = s[i + 1] /\ i + 1 \in 1 .. Len(s)
  BY LenProperties, EmptySeq, HeadTailProperties
<1>2. DOMAIN Tail(s) = 1 .. Len(Tail(s))
  BY <1>1, LenProperties
<1>3. Head(s) = s[1] /\ 1 \in DOMAIN s
  BY <1>1
<1> QED
  BY <1>1, <1>2, <1>3 DEF ToSet

(* The last element of a list.                                             *)
LEMMA LastFact ==
    ASSUME NEW S, NEW s \in Seq(S), s # <<>>
    PROVE  Last(s) \in S /\ Last(s) \in ToSet(s)
<1>1. DOMAIN s = 1 .. Len(s) /\ Len(s) \in Nat /\ Len(s) # 0
  BY LenProperties, EmptySeq
<1> QED
  BY <1>1, ElementOfSeq DEF Last, ToSet

(* An element goes to the end of a list.                                   *)
LEMMA PlaceFact ==
    ASSUME NEW S, NEW s \in Seq(S), IsInjective(s), NEW o \in S
    PROVE  LET t == Append(RemoveNode(s, o), o)
           IN  t \in Seq(S) /\ IsInjective(t) /\ ToSet(t) = ToSet(s) \cup {o}
<1>1. PICK r : r = RemoveNode(s, o)
  OBVIOUS
<1>2. r \in Seq(S) /\ IsInjective(r) /\ ToSet(r) = ToSet(s) \ {o}
  BY <1>1, RemoveNodeFact
<1>3. PICK e : e = <<o>>
  OBVIOUS
<1>4. e \in Seq(S) /\ IsInjective(e) /\ ToSet(e) = {o}
  BY <1>3, ShortFact
<1>5. ToSet(r) \cap ToSet(e) = {}
  BY <1>2, <1>4
<1>6. r \o e \in Seq(S) /\ IsInjective(r \o e) /\ ToSet(r \o e) = ToSet(r) \cup ToSet(e)
  BY <1>2, <1>4, <1>5, ConcatFact
<1>7. ToSet(r) \cup ToSet(e) = ToSet(s) \cup {o}
  BY <1>2, <1>4
<1>8. Append(r, o) = r \o e
  BY <1>2, <1>3, AppendIsConcat
<1> QED
  BY <1>1, <1>6, <1>7, <1>8

(* Putting lists together and taking them apart.                           *)

(* List s is u, then o, then v.                                            *)
Around(s, u, o, v) == s = u \o (<<o>> \o v)

(* Taking an element out of a list leaves what is before and behind it.    *)
LEMMA RemoveSplit ==
    ASSUME NEW S, NEW s \in Seq(S), NEW o \in ToSet(s)
    PROVE  \E u, v \in Seq(S) : Around(s, u, o, v) /\ RemoveNode(s, o) = u \o v
<1>1. /\ DOMAIN s = 1 .. Len(s) /\ Len(s) \in Nat
      /\ \E i \in 1 .. Len(s) : s[i] = o
  BY LenProperties DEF ToSet
<1>2. PICK k : k = CHOOSE i \in DOMAIN s : s[i] = o
  OBVIOUS
<1>3. k \in 1 .. Len(s) /\ s[k] = o
  BY <1>1, <1>2
<1>4. RemoveNode(s, o) = SubSeq(s, 1, k - 1) \o SubSeq(s, k + 1, Len(s))
  BY <1>2 DEF RemoveNode, RemoveAt
<1>5. PICK u, v : u = SubSeq(s, 1, k - 1) /\ v = SubSeq(s, k + 1, Len(s))
  OBVIOUS
<1>6. \A i \in 1 .. Len(s) : s[i] \in S
  BY ElementOfSeq
<1>7. u \in Seq(S) /\ v \in Seq(S)
  <2>1. /\ \A i \in 1 .. (k - 1) : s[i] \in S
        /\ \A i \in (k + 1) .. Len(s) : s[i] \in S
    BY <1>1, <1>3, <1>6
  <2> QED
    BY <1>1, <1>3, <1>5, <2>1, SubSeqProperties
<1>8. s = u \o SubSeq(s, k, Len(s))
  <2>1. /\ 1 \in 1 .. Len(s) + 1 /\ k - 1 \in 1 - 1 .. Len(s) /\ Len(s) \in k - 1 .. Len(s)
        /\ k - 1 + 1 = k
    BY <1>1, <1>3
  <2>2. SubSeq(s, 1, k - 1) \o SubSeq(s, k - 1 + 1, Len(s)) = SubSeq(s, 1, Len(s))
    BY <2>1, ConcatAdjacentSubSeq
  <2> QED
    BY <1>5, <2>1, <2>2, SubSeqFull
<1>9. SubSeq(s, k, Len(s)) = <<o>> \o v
  <2>1. Len(s) \in k .. Len(s)
    BY <1>1, <1>3
  <2> QED
    BY <1>3, <1>5, <2>1, SubSeqRecursiveFirst
<1> QED
  BY <1>4, <1>5, <1>7, <1>8, <1>9 DEF Around

(* The length of a list and where its middle element is.                   *)
LEMMA MiddleFact ==
    ASSUME NEW S, NEW u \in Seq(S), NEW v \in Seq(S), NEW o \in S, NEW s, Around(s, u, o, v)
    PROVE  /\ s \in Seq(S) /\ Len(s) = Len(u) + 1 + Len(v) /\ s[Len(u) + 1] = o
           /\ DOMAIN s = 1 .. Len(s) /\ Len(u) \in Nat /\ Len(v) \in Nat
           /\ \A i \in 1 .. Len(u) : s[i] = u[i]
<1>1. PICK e : e = <<o>>
  OBVIOUS
<1>2. e \in Seq(S) /\ Len(e) = 1 /\ e[1] = o
  BY <1>1
<1>3. PICK t : t = e \o v
  OBVIOUS
<1>4. Len(u) \in Nat /\ Len(v) \in Nat
  BY LenProperties
<1>5. t \in Seq(S) /\ Len(t) = 1 + Len(v) /\ t[1] = o
  <2>1. 1 \in 1 .. Len(e) + Len(v) /\ 1 <= Len(e)
    BY <1>2, <1>4
  <2> QED
    BY <1>2, <1>3, <2>1, ConcatProperties
<1>6. s = u \o t
  BY <1>1, <1>3 DEF Around
<1>7. /\ s \in Seq(S) /\ Len(s) = Len(u) + Len(t)
      /\ \A i \in 1 .. Len(u) + Len(t) : s[i] = IF i <= Len(u) THEN u[i] ELSE t[i - Len(u)]
  <2>1. t \in Seq(S)
    BY <1>5
  <2> QED
    BY <1>6, <2>1, ConcatProperties
<1>8. s[Len(u) + 1] = o
  <2>1. Len(u) + 1 \in 1 .. Len(u) + Len(t) /\ ~(Len(u) + 1 <= Len(u)) /\ Len(u) + 1 - Len(u) = 1
    BY <1>4, <1>5
  <2> QED
    BY <1>5, <1>7, <2>1
<1>9. \A i \in 1 .. Len(u) : s[i] = u[i]
  BY <1>4, <1>5, <1>7
<1>10. Len(s) = Len(u) + 1 + Len(v)
  BY <1>4, <1>5, <1>7
<1>11. DOMAIN s = 1 .. Len(s)
  BY <1>7, LenProperties
<1> QED
  BY <1>4, <1>7, <1>8, <1>9, <1>10, <1>11

(* Two lists that are equal behind the same beginning.                     *)
LEMMA CancelLeft ==
    ASSUME NEW S, NEW s \in Seq(S), NEW t \in Seq(S), NEW v \in Seq(S), s \o t = s \o v
    PROVE  t = v
BY ConcatSimplifications

(* In a list without repetitions an element has one place.                 *)
LEMMA SplitRemove ==
    ASSUME NEW S, NEW u \in Seq(S), NEW v \in Seq(S), NEW o \in S,
           IsInjective(u \o (<<o>> \o v))
    PROVE  RemoveNode(u \o (<<o>> \o v), o) = u \o v
<1>1. PICK s : s = u \o (<<o>> \o v)
  OBVIOUS
<1>2. /\ s \in Seq(S) /\ Len(s) = Len(u) + 1 + Len(v) /\ s[Len(u) + 1] = o
      /\ DOMAIN s = 1 .. Len(s) /\ Len(u) \in Nat /\ Len(v) \in Nat
      /\ \A i \in 1 .. Len(u) : s[i] = u[i]
  <2>1. Around(s, u, o, v)
    BY <1>1 DEF Around
  <2> QED
    BY <2>1, MiddleFact
<1>3. o \in ToSet(s)
  <2>1. Len(u) + 1 \in 1 .. Len(s)
    BY <1>2
  <2> QED
    BY <1>2, <2>1 DEF ToSet
<1>4. PICK a, b \in Seq(S) : Around(s, a, o, b) /\ RemoveNode(s, o) = a \o b
  <2>1. s \in Seq(S)
    BY <1>2
  <2> QED
    BY <1>3, <2>1, RemoveSplit
<1>5. /\ Len(s) = Len(a) + 1 + Len(b) /\ s[Len(a) + 1] = o /\ Len(a) \in Nat /\ Len(b) \in Nat
      /\ \A i \in 1 .. Len(a) : s[i] = a[i]
  BY <1>4, MiddleFact
<1>6. Len(a) = Len(u)
  <2>1. Len(a) + 1 \in DOMAIN s /\ Len(u) + 1 \in DOMAIN s
    BY <1>2, <1>5
  <2>2. Len(a) + 1 = Len(u) + 1
    BY <1>1, <1>2, <1>5, <2>1 DEF IsInjective
  <2> QED
    BY <1>2, <1>5, <2>2
<1>7. a = u
  BY <1>2, <1>5, <1>6, SeqEqual
<1>8. PICK e : e = <<o>>
  OBVIOUS
<1>9. e \in Seq(S) /\ e \o v \in Seq(S) /\ e \o b \in Seq(S)
  BY <1>8, ConcatProperties
<1>10. e \o v = e \o b
  <2>1. u \o (e \o v) = u \o (e \o b)
    BY <1>1, <1>4, <1>7, <1>8 DEF Around
  <2> QED
    BY <1>9, <2>1, CancelLeft
<1>11. v = b
  BY <1>9, <1>10, CancelLeft
<1> QED
  BY <1>1, <1>4, <1>7, <1>11

(* What two lists have together.                                           *)
LEMMA ConcatSet ==
    ASSUME NEW S, NEW s \in Seq(S), NEW t \in Seq(S)
    PROVE  ToSet(s \o t) = ToSet(s) \cup ToSet(t)
<1>1. ToSet(s) = Range(s) /\ ToSet(t) = Range(t) /\ ToSet(s \o t) = Range(s \o t)
  BY DEF ToSet, Range
<1>2. Range(s \o t) = Range(s) \cup Range(t)
  BY RangeConcatenation
<1> QED
  BY <1>1, <1>2

(* Taking an element out of the first of two lists.                        *)
LEMMA RemoveConcat ==
    ASSUME NEW S, NEW s \in Seq(S), NEW t \in Seq(S), NEW o \in S,
           IsInjective(s \o t), o \notin ToSet(t)
    PROVE  RemoveNode(s \o t, o) = RemoveNode(s, o) \o t
<1>1. CASE o \notin ToSet(s)
  <2>1. o \notin ToSet(s \o t)
    BY <1>1, ConcatSet
  <2> QED
    BY <1>1, <2>1 DEF RemoveNode
<1>2. CASE o \in ToSet(s)
  <2>1. PICK u, v \in Seq(S) : Around(s, u, o, v) /\ RemoveNode(s, o) = u \o v
    BY <1>2, RemoveSplit
  <2>2. PICK e : e = <<o>>
    OBVIOUS
  <2>3. e \in Seq(S) /\ e \o v \in Seq(S) /\ v \o t \in Seq(S)
    BY <2>2, ConcatProperties
  <2>4. (e \o v) \o t = e \o (v \o t)
    BY <2>3, ConcatAssociative
  <2>5. s \o t = u \o (e \o (v \o t))
    <3>1. (u \o (e \o v)) \o t = u \o ((e \o v) \o t)
      <4>1. PICK x : x = e \o v
        OBVIOUS
      <4>2. x \in Seq(S)
        BY <2>3, <4>1
      <4>3. (u \o x) \o t = u \o (x \o t)
        BY <4>2, ConcatAssociative, SMTT(30)
      <4> QED
        BY <4>1, <4>3
    <3>2. s = u \o (e \o v)
      BY <2>1, <2>2 DEF Around
    <3> QED
      BY <2>4, <3>1, <3>2
  <2>6. RemoveNode(u \o (e \o (v \o t)), o) = u \o (v \o t)
    BY <2>2, <2>3, <2>5, SplitRemove
  <2>7. u \o (v \o t) = (u \o v) \o t
    BY ConcatAssociative
  <2> QED
    BY <2>1, <2>5, <2>6, <2>7
<1> QED
  BY <1>1, <1>2

(* Taking out the head of the first of two lists.                          *)
LEMMA RemoveHead ==
    ASSUME NEW S, NEW s \in Seq(S), NEW t \in Seq(S), s # <<>>, IsInjective(s \o t)
    PROVE  RemoveNode(s \o t, Head(s)) = Tail(s) \o t
<1>1. PICK h, r : h = Head(s) /\ r = Tail(s)
  OBVIOUS
<1>2. h \in S /\ r \in Seq(S)
  BY <1>1, HeadTailProperties
<1>3. PICK e, n : e = <<h>> /\ n = <<>>
  OBVIOUS
<1>4. e \in Seq(S) /\ n \in Seq(S) /\ e \o r \in Seq(S) /\ r \o t \in Seq(S)
  BY <1>2, <1>3, ConcatProperties
<1>5. s = e \o r
  <2>1. Len(s) \in Nat \ {0}
    BY EmptySeq
  <2>2. 1 \in 1 .. Len(s) /\ Len(s) \in 1 .. Len(s)
    BY <2>1
  <2>3. SubSeq(s, 1, Len(s)) = <<s[1]>> \o SubSeq(s, 1 + 1, Len(s))
    BY <2>2, SubSeqRecursiveFirst
  <2>4. SubSeq(s, 1, Len(s)) = s
    BY SubSeqFull
  <2>5. r = SubSeq(s, 2, Len(s)) /\ h = s[1]
    BY <1>1, TailIsSubSeq
  <2> QED
    BY <1>3, <2>3, <2>4, <2>5
<1>6. s \o t = n \o (e \o (r \o t))
  <2>1. (e \o r) \o t = e \o (r \o t)
    <3>1. e \in Seq(S) /\ r \in Seq(S)
      BY <1>2, <1>4
    <3> QED
      BY <3>1, ConcatAssociative
  <2>2. e \o (r \o t) \in Seq(S)
    BY <1>4, ConcatProperties
  <2>3. n \o (e \o (r \o t)) = e \o (r \o t)
    BY <1>3, <2>2, ConcatEmptySeq
  <2> QED
    BY <1>5, <2>1, <2>3
<1>7. RemoveNode(n \o (e \o (r \o t)), h) = n \o (r \o t)
  BY <1>2, <1>3, <1>4, <1>6, SplitRemove
<1>8. n \o (r \o t) = r \o t
  BY <1>3, <1>4, ConcatEmptySeq
<1> QED
  BY <1>1, <1>6, <1>7, <1>8

(* Taking out the last element.                                            *)
LEMMA RemoveAppended ==
    ASSUME NEW S, NEW s \in Seq(S), NEW o \in S, IsInjective(Append(s, o))
    PROVE  RemoveNode(Append(s, o), o) = s
<1>1. PICK e, n : e = <<o>> /\ n = <<>>
  OBVIOUS
<1>2. e \in Seq(S) /\ n \in Seq(S)
  BY <1>1
<1>3. Append(s, o) = s \o (e \o n)
  <2>1. Append(s, o) = s \o e
    BY <1>1, AppendIsConcat
  <2>2. e \o n = e
    BY <1>1, <1>2, ConcatEmptySeq
  <2> QED
    BY <2>1, <2>2
<1>4. RemoveNode(s \o (e \o n), o) = s \o n
  BY <1>1, <1>2, <1>3, SplitRemove
<1>5. s \o n = s
  BY <1>1, ConcatEmptySeq
<1> QED
  BY <1>3, <1>4, <1>5

(* Moving an element that is not in t to the end of t.                     *)
LEMMA PlaceConcat ==
    ASSUME NEW S, NEW s \in Seq(S), NEW t \in Seq(S), NEW o \in S,
           IsInjective(s), IsInjective(s \o t), o \notin ToSet(t)
    PROVE  Append(RemoveNode(s \o t, o), o) = RemoveNode(s, o) \o Append(t, o)
<1>1. PICK r, e : r = RemoveNode(s, o) /\ e = <<o>>
  OBVIOUS
<1>2. r \in Seq(S) /\ e \in Seq(S)
  BY <1>1, RemoveNodeFact
<1>3. RemoveNode(s \o t, o) = r \o t
  BY <1>1, RemoveConcat
<1>4. r \o t \in Seq(S)
  BY <1>2, ConcatProperties
<1>5. Append(r \o t, o) = (r \o t) \o e
  BY <1>1, <1>4, AppendIsConcat
<1>6. (r \o t) \o e = r \o (t \o e)
  BY <1>2, ConcatAssociative
<1>7. t \o e = Append(t, o)
  BY <1>1, AppendIsConcat
<1> QED
  BY <1>1, <1>3, <1>5, <1>6, <1>7

(* The beginnings of a list.                                               *)
LEMMA PrefixFact ==
    ASSUME NEW S, NEW w \in Seq(S)
    PROVE  /\ SubSeq(w, 1, 0) = <<>> /\ SubSeq(w, 1, Len(w)) = w
           /\ \A i \in 0 .. (Len(w) - 1) : SubSeq(w, 1, i + 1) = Append(SubSeq(w, 1, i), w[i + 1])
           /\ \A i \in 0 .. Len(w) : SubSeq(w, 1, i) \in Seq(S)
<1>1. SubSeq(w, 1, 0) = <<>> /\ SubSeq(w, 1, Len(w)) = w /\ Len(w) \in Nat
  BY SubSeqEmpty, SubSeqFull, LenProperties
<1>2. \A i \in 0 .. Len(w) : SubSeq(w, 1, i) \in Seq(S)
  <2> TAKE i \in 0 .. Len(w)
  <2>1. \A j \in 1 .. i : w[j] \in S
    BY <1>1, ElementOfSeq
  <2> QED
    BY <1>1, <2>1, SubSeqProperties
<1>3. \A i \in 0 .. (Len(w) - 1) : SubSeq(w, 1, i + 1) = Append(SubSeq(w, 1, i), w[i + 1])
  <2> TAKE i \in 0 .. (Len(w) - 1)
  <2>1. 1 \in 1 .. Len(w) /\ i + 1 \in 1 .. Len(w) /\ (i + 1) - 1 = i /\ i \in 0 .. Len(w)
    BY <1>1
  <2>2. SubSeq(w, 1, i + 1) = SubSeq(w, 1, i) \o <<w[i + 1]>>
    BY <2>1, SubSeqRecursiveSecond
  <2>3. w[i + 1] \in S
    BY <2>1, ElementOfSeq
  <2> QED
    BY <1>2, <2>1, <2>2, <2>3, AppendIsConcat
<1> QED
  BY <1>1, <1>2, <1>3

(* The sequence v is w with x at its end.                                  *)
LEMMA AppendedFact ==
    ASSUME NEW S, NEW w \in Seq(S), NEW v \in Seq(S), NEW x \in S,
           Len(v) = Len(w) + 1, v[Len(w) + 1] = x, \A i \in 1 .. Len(w) : v[i] = w[i]
    PROVE  v = Append(w, x)
<1>1. PICK a : a = Append(w, x)
  OBVIOUS
<1>2. /\ a \in Seq(S) /\ Len(a) = Len(w) + 1 /\ a[Len(w) + 1] = x
      /\ \A i \in 1 .. Len(w) : a[i] = w[i]
  BY <1>1, AppendProperties
<1>3. Len(v) = Len(a) /\ Len(w) \in Nat
  BY <1>2, LenProperties
<1>4. ASSUME NEW i \in 1 .. Len(v) PROVE v[i] = a[i]
  <2>1. i \in 1 .. Len(w) \/ i = Len(w) + 1
    BY <1>3, <1>4
  <2> QED
    BY <1>2, <2>1
<1>5. v = a
  BY <1>2, <1>3, <1>4, SeqEqual
<1> QED
  BY <1>1, <1>5

(* The sequence v is w without its k-th element.                           *)
LEMMA ShortenedFact ==
    ASSUME NEW S, NEW w \in Seq(S), NEW v \in Seq(S), NEW k \in 1 .. Len(w),
           Len(v) = Len(w) - 1,
           \A i \in 1 .. (Len(w) - 1) : v[i] = IF i < k THEN w[i] ELSE w[i + 1]
    PROVE  v = RemoveAt(w, k)
<1>1. PICK n \in Nat : n = Len(w)
  BY LenProperties
<1>2. PICK a, b : a = SubSeq(w, 1, k - 1) /\ b = SubSeq(w, k + 1, n)
  OBVIOUS
<1>3. \A i \in 1 .. n : w[i] \in S
  BY <1>1, ElementOfSeq
<1>4. /\ a \in Seq(S) /\ Len(a) = k - 1
      /\ \A i \in 1 .. (k - 1) : a[i] = w[i]
  <2>1. \A i \in 1 .. (k - 1) : w[i] \in S
    BY <1>1, <1>3
  <2>2. /\ a \in Seq(S) /\ Len(a) = IF 1 <= k - 1 THEN (k - 1) - 1 + 1 ELSE 0
        /\ \A i \in 1 .. (k - 1) - 1 + 1 : a[i] = w[1 + i - 1]
    BY <1>1, <1>2, <2>1, SubSeqProperties
  <2> QED
    BY <1>1, <2>2
<1>5. /\ b \in Seq(S) /\ Len(b) = n - k
      /\ \A i \in 1 .. (n - k) : b[i] = w[k + i]
  <2>1. \A i \in (k + 1) .. n : w[i] \in S
    BY <1>1, <1>3
  <2>2. /\ b \in Seq(S) /\ Len(b) = IF k + 1 <= n THEN n - (k + 1) + 1 ELSE 0
        /\ \A i \in 1 .. n - (k + 1) + 1 : b[i] = w[(k + 1) + i - 1]
    BY <1>1, <1>2, <2>1, SubSeqProperties
  <2> QED
    BY <1>1, <2>2
<1>6. PICK c : c = a \o b
  OBVIOUS
<1>7. /\ c \in Seq(S) /\ Len(c) = (k - 1) + (n - k)
      /\ \A i \in 1 .. (k - 1) + (n - k) : c[i] = IF i <= k - 1 THEN a[i] ELSE b[i - (k - 1)]
  <2>1. /\ c \in Seq(S) /\ Len(c) = Len(a) + Len(b)
        /\ \A i \in 1 .. Len(a) + Len(b) : c[i] = IF i <= Len(a) THEN a[i] ELSE b[i - Len(a)]
    BY <1>4, <1>5, <1>6, ConcatProperties
  <2> QED
    BY <1>4, <1>5, <2>1
<1>8. /\ Len(v) = n - 1 /\ Len(c) = n - 1 /\ k \in 1 .. n
      /\ \A i \in 1 .. (n - 1) : v[i] = IF i < k THEN w[i] ELSE w[i + 1]
      /\ \A i \in 1 .. (n - 1) : c[i] = IF i < k THEN a[i] ELSE b[i - (k - 1)]
  <2>1. (k - 1) + (n - k) = n - 1 /\ \A i \in 1 .. (n - 1) : i < k <=> i <= k - 1
    BY <1>1
  <2> QED
    BY <1>1, <1>7, <2>1
<1>9. ASSUME NEW i \in 1 .. (n - 1) PROVE v[i] = c[i]
  <2>1. CASE i < k
    <3>1. i \in 1 .. (k - 1)
      BY <1>8, <2>1
    <3> QED
      BY <1>4, <1>8, <2>1, <3>1
  <2>2. CASE ~(i < k)
    <3>1. i - (k - 1) \in 1 .. (n - k) /\ k + (i - (k - 1)) = i + 1
      BY <1>8, <2>2
    <3> QED
      BY <1>5, <1>8, <2>2, <3>1
  <2> QED
    BY <2>1, <2>2
<1>10. v = c
  BY <1>7, <1>8, <1>9, SeqEqual
<1>11. c = RemoveAt(w, k)
  BY <1>1, <1>2, <1>6 DEF RemoveAt
<1> QED
  BY <1>10, <1>11

------------------------------------------------------------------------------
(* Opening segments.                                                       *)

(* The segments objs are ones p has not opened yet and finds by name.      *)
Opens(p, objs) ==
    /\ objs \in Seq(Obj) /\ IsInjective(objs)
    /\ ToSet(objs) \cap handles[p] = {}
    /\ \A o \in ToSet(objs) :
        names[number[o]] = o /\ ~procs_tracking[o].flag /\ o \notin orphans /\ ~is_invalid[o]

(* A segment of the shared list is found under its number: in the local    *)
(* list, or by opening it.                                                 *)
LEMMA UnopenedFact ==
    ASSUME LocalInv, TrackInv, NEW p \in Proc, NEW k \in SegNum, names[k] \in Obj \ orphans,
           ~is_invalid[names[k]], pc[p] \in DetachPC => names[k] # cur[p]
    PROVE  /\ NodeOf(p, k) = names[k]
           /\ Unopened(p, k) = IF names[k] \in ToSet(local[p]) THEN <<>> ELSE <<names[k]>>
           /\ FindSegmentNode(p, k) = IF names[k] \in ToSet(local[p]) THEN {names[k]} ELSE {}
           /\ CanOpen(Unopened(p, k)) => Opens(p, Unopened(p, k))
<1>1. /\ ToSet(local[p]) \subseteq handles[p] /\ handles[p] \subseteq Obj
      /\ pc[p] = "post" => cur[p] \notin ToSet(local[p])
      /\ \A o \in handles[p] : o \in ToSet(local[p]) \/ (pc[p] \in DetachPC /\ o = cur[p])
  BY DEF LocalInv, DetachPC
<1>2. number[names[k]] = k
  BY SegmentsAssumption DEF TrackInv
<1>3. \A o \in ToSet(local[p]) : names[number[o]] = o
  BY <1>1 DEF TrackInv, TrackedIsPinned
<1>4. FindSegmentNode(p, k) = IF names[k] \in ToSet(local[p]) THEN {names[k]} ELSE {}
  BY <1>2, <1>3 DEF FindSegmentNode
<1>5. Unopened(p, k) = IF names[k] \in ToSet(local[p]) THEN <<>> ELSE <<names[k]>>
  BY <1>4 DEF Unopened
<1>6. NodeOf(p, k) = names[k]
  BY <1>4 DEF NodeOf
<1>7. ASSUME CanOpen(Unopened(p, k)) PROVE Opens(p, Unopened(p, k))
  <2>1. CASE names[k] \in ToSet(local[p])
    BY <1>5, <2>1, ShortFact DEF Opens
  <2>2. CASE names[k] \notin ToSet(local[p])
    <3>1. /\ Unopened(p, k) \in Seq(Obj) /\ IsInjective(Unopened(p, k))
          /\ ToSet(Unopened(p, k)) = {names[k]}
      BY <1>5, <2>2, ShortFact
    <3>2. ~procs_tracking[names[k]].flag
      BY <1>7, <3>1 DEF CanOpen
    <3>3. names[k] \notin handles[p]
      BY <1>1, <2>2
    <3> QED
      BY <1>2, <3>1, <3>2, <3>3 DEF Opens
  <2> QED
    BY <2>1, <2>2
<1> QED
  BY <1>4, <1>5, <1>6, <1>7

(* What it means to be in the shared list.                                 *)
LEMMA ListedFact ==
    ASSUME NEW o \in Obj
    PROVE  o \in Listed <=> (Named(o) \/ Tracked(o)) /\ o \notin orphans /\ ~is_invalid[o]
BY DEF Listed, FreeObj, Named, Tracked

(* What Linked says of each segment, with the numbers of its neighbours.   *)
LEMMA LinkedFact ==
    ASSUME TrackInv, num_shared_segments \in Nat, NEW w, Linked(w),
           NEW i \in 1 .. num_shared_segments
    PROVE  /\ w[i] \in Obj \ orphans /\ number[w[i]] \in SegNum /\ names[number[w[i]]] = w[i]
           /\ ~is_invalid[w[i]] /\ number[w[i]] # NoSeg
           /\ \A j \in 1 .. num_shared_segments : number[w[i]] = number[w[j]] => i = j
           /\ number[w[i]] = first_seg_num <=> i = 1
           /\ number[w[i]] = last_seg_num <=> i = num_shared_segments
           /\ i # 1 => i - 1 \in 1 .. num_shared_segments /\ prev_seg_num[w[i]] = number[w[i - 1]]
           /\ i # num_shared_segments =>
                 i + 1 \in 1 .. num_shared_segments /\ next_seg_num[w[i]] = number[w[i + 1]]
<1>1. /\ w \in [1 .. num_shared_segments -> Obj]
      /\ \A j, k \in 1 .. num_shared_segments : w[j] = w[k] => j = k
      /\ \A j \in 1 .. num_shared_segments : names[number[w[j]]] = w[j]
  BY DEF Linked, IsInjective
<1>2. \A j, k \in 1 .. num_shared_segments : number[w[j]] = number[w[k]] => j = k
  BY <1>1
<1>3. w[i] \in Obj \ orphans /\ ~is_invalid[w[i]]
  BY <1>1 DEF Linked
<1>4. number[w[i]] \in SegNum /\ number[w[i]] # NoSeg
  BY <1>3, SegmentsAssumption DEF TrackInv
<1>5. /\ first_seg_num = number[w[1]] /\ last_seg_num = number[w[num_shared_segments]]
      /\ 1 \in 1 .. num_shared_segments /\ num_shared_segments \in 1 .. num_shared_segments
  BY DEF Linked
<1>6. /\ i # 1 => i - 1 \in 1 .. num_shared_segments /\ prev_seg_num[w[i]] = number[w[i - 1]]
      /\ i # num_shared_segments =>
            i + 1 \in 1 .. num_shared_segments /\ next_seg_num[w[i]] = number[w[i + 1]]
  BY DEF Linked
<1> QED
  BY <1>1, <1>2, <1>3, <1>4, <1>5, <1>6

(* The segments at the ends of the list, unless it is empty.               *)
LEMMA EndsFact ==
    ASSUME TrackInv, ListInv
    PROVE  /\ first_seg_num = NoSeg <=> num_shared_segments = 0
           /\ last_seg_num = NoSeg <=> num_shared_segments = 0
           /\ \A k \in {first_seg_num, last_seg_num} : k # NoSeg =>
                 k \in SegNum /\ names[k] \in Obj \ orphans /\ ~is_invalid[names[k]]
                 /\ number[names[k]] = k
<1>1. PICK w : w = SharedList
  OBVIOUS
<1>2. num_shared_segments \in Nat /\ Linked(w)
  BY <1>1 DEF ListInv
<1>3. CASE num_shared_segments = 0
  BY <1>2, <1>3 DEF Linked
<1>4. CASE num_shared_segments # 0
  <2>1. 1 \in 1 .. num_shared_segments /\ num_shared_segments \in 1 .. num_shared_segments
    BY <1>2, <1>4
  <2>2. first_seg_num = number[w[1]] /\ last_seg_num = number[w[num_shared_segments]]
    BY <1>2, <1>4 DEF Linked
  <2>3. \A i \in 1 .. num_shared_segments :
           /\ w[i] \in Obj \ orphans /\ number[w[i]] \in SegNum /\ names[number[w[i]]] = w[i]
           /\ ~is_invalid[w[i]] /\ number[w[i]] # NoSeg
    BY <1>2, LinkedFact
  <2> QED
    BY <1>4, <2>1, <2>2, <2>3
<1> QED
  BY <1>3, <1>4

(* Taking a segment out of the list opens those of its neighbours that are *)
(* not open yet (msh_RemoveSegmentFromSharedList).                         *)
LEMMA RemoveOpens ==
    ASSUME LocalInv, TrackInv, ListInv, NEW p \in Proc, NEW o \in handles[p], NEW l,
           ~is_invalid[o], pc[p] \in DetachPC => cur[p] = o,
           RemoveSegmentFromSharedList(p, o, l)
    PROVE  /\ number[o] # first_seg_num => NodeOf(p, prev_seg_num[o]) = names[prev_seg_num[o]]
           /\ number[o] # last_seg_num => NodeOf(p, next_seg_num[o]) = names[next_seg_num[o]]
           /\ \E objs : /\ Opens(p, objs)
                        /\ procs_tracking' = Opened(objs)
                        /\ handles' = [handles EXCEPT ![p] = @ \cup ToSet(objs)]
                        /\ local' = [local EXCEPT ![p] = l \o objs]
<1>1. PICK w : w = SharedList
  OBVIOUS
<1>2. num_shared_segments \in Nat /\ Linked(w)
  BY <1>1 DEF ListInv
<1>3. o \in Obj /\ Tracked(o) /\ o \notin orphans
  BY DEF LocalInv, TrackInv, Tracked
<1>4. PICK i \in 1 .. num_shared_segments : w[i] = o
  BY <1>2, <1>3 DEF Linked
<1> DEFINE Ahead == IF number[o] = first_seg_num THEN <<>> ELSE Unopened(p, prev_seg_num[o])
           Behind == IF number[o] = last_seg_num THEN <<>> ELSE Unopened(p, next_seg_num[o])
<1>5. /\ CanOpen(Ahead \o Behind) /\ procs_tracking' = Opened(Ahead \o Behind)
      /\ handles' = [handles EXCEPT ![p] = @ \cup ToSet(Ahead \o Behind)]
      /\ local' = [local EXCEPT ![p] = l \o (Ahead \o Behind)]
  BY DEF RemoveSegmentFromSharedList
<1>6. \A j \in 1 .. num_shared_segments :
         /\ w[j] \in Obj \ orphans /\ number[w[j]] \in SegNum /\ names[number[w[j]]] = w[j]
         /\ ~is_invalid[w[j]]
         /\ number[w[i]] = number[w[j]] => i = j
  BY <1>2, LinkedFact
<1>7. /\ number[o] # first_seg_num =>
            i - 1 \in 1 .. num_shared_segments /\ prev_seg_num[o] = number[w[i - 1]]
      /\ number[o] # last_seg_num =>
            i + 1 \in 1 .. num_shared_segments /\ next_seg_num[o] = number[w[i + 1]]
  BY <1>2, <1>4, LinkedFact
<1>8. ASSUME NEW j \in 1 .. num_shared_segments, j # i
      PROVE  /\ NodeOf(p, number[w[j]]) = w[j]
             /\ Unopened(p, number[w[j]]) \in {<<>>, <<w[j]>>}
             /\ CanOpen(Unopened(p, number[w[j]])) => Opens(p, Unopened(p, number[w[j]]))
  <2>1. /\ w[j] # o /\ number[w[j]] \in SegNum /\ names[number[w[j]]] = w[j]
        /\ w[j] \in Obj \ orphans /\ ~is_invalid[w[j]]
    BY <1>4, <1>6, <1>8
  <2> QED
    BY <2>1, UnopenedFact
<1>9. /\ Ahead \in {<<>>, <<w[i - 1]>>} /\ (CanOpen(Ahead) => Opens(p, Ahead))
      /\ Behind \in {<<>>, <<w[i + 1]>>} /\ (CanOpen(Behind) => Opens(p, Behind))
  <2>1. Opens(p, <<>>)
    BY ShortFact DEF Opens
  <2>2. i - 1 # i /\ i + 1 # i
    OBVIOUS
  <2> QED
    BY <1>7, <1>8, <2>1, <2>2
<1>10. PICK f, b : f = Ahead /\ b = Behind
  OBVIOUS
<1>11. /\ number[o] # first_seg_num => NodeOf(p, prev_seg_num[o]) = names[prev_seg_num[o]]
       /\ number[o] # last_seg_num => NodeOf(p, next_seg_num[o]) = names[next_seg_num[o]]
  BY <1>6, <1>7, <1>8
<1>12. f = <<>> \/ (f = <<w[i - 1]>> /\ i - 1 \in 1 .. num_shared_segments)
  BY <1>7, <1>9, <1>10
<1>13. b = <<>> \/ (b = <<w[i + 1]>> /\ i + 1 \in 1 .. num_shared_segments)
  BY <1>7, <1>9, <1>10
<1> HIDE DEF Ahead, Behind
<1>14. /\ f \in Seq(Obj) /\ IsInjective(f) /\ b \in Seq(Obj) /\ IsInjective(b)
       /\ ToSet(f) \cap ToSet(b) = {}
  <2>1. ToSet(f) = {} \/ (ToSet(f) = {w[i - 1]} /\ i - 1 \in 1 .. num_shared_segments)
    BY <1>6, <1>12, ShortFact
  <2>2. ToSet(b) = {} \/ (ToSet(b) = {w[i + 1]} /\ i + 1 \in 1 .. num_shared_segments)
    BY <1>6, <1>13, ShortFact
  <2>3. i - 1 \in 1 .. num_shared_segments /\ i + 1 \in 1 .. num_shared_segments => w[i - 1] # w[i + 1]
    <3>1. \A j, m \in 1 .. num_shared_segments : w[j] = w[m] => j = m
      BY <1>2 DEF Linked, IsInjective
    <3>2. i - 1 # i + 1
      OBVIOUS
    <3> QED
      BY <3>1, <3>2
  <2>4. f \in Seq(Obj) /\ IsInjective(f)
    <3>1. f = <<>> \/ \E x \in Obj : f = <<x>>
      BY <1>6, <1>12
    <3> QED
      BY <3>1, ShortFact
  <2>5. b \in Seq(Obj) /\ IsInjective(b)
    <3>1. b = <<>> \/ \E x \in Obj : b = <<x>>
      BY <1>6, <1>13
    <3> QED
      BY <3>1, ShortFact
  <2> QED
    BY <2>1, <2>2, <2>3, <2>4, <2>5
<1>15. f \o b \in Seq(Obj) /\ IsInjective(f \o b) /\ ToSet(f \o b) = ToSet(f) \cup ToSet(b)
  BY <1>14, ConcatFact
<1>16. Opens(p, f \o b)
  <2>1. CanOpen(f) /\ CanOpen(b)
    BY <1>5, <1>10, <1>15 DEF CanOpen
  <2>2. Opens(p, f) /\ Opens(p, b)
    BY <1>9, <1>10, <2>1
  <2> QED
    BY <1>15, <2>2 DEF Opens
<1> QED
  BY <1>5, <1>10, <1>11, <1>16

------------------------------------------------------------------------------
(* What a process knows of its own segments.                               *)

(* What LocalInv says of one process.                                      *)
LocalOf(p) ==
    /\ IsInjective(local[p])
    /\ handles[p] = ToSet(local[p]) \cup (IF pc[p] \in DetachPC THEN {cur[p]} ELSE {})
    /\ pc[p] \in DetachPC /\ ~(pc[p] = "collect" /\ ret[p] = "gc") => cur[p] \notin ToSet(local[p])
    /\ pc[p] \in {"add", "return"} => cur[p] \in ToSet(local[p])
    /\ pc[p] = "out" => local[p] = <<>>
    /\ used[p] \cup held[p] \subseteq var[p] /\ var[p] \subseteq handles[p]
    /\ pc[p] \in DetachPC \ {"detach", "collect"} => cur[p] \notin var[p]
    /\ At(p) \in {"clean", "stale", "walk"} => IsInjective(rest[p]) /\ ToSet(rest[p]) \subseteq ToSet(local[p])
    /\ pc[p] = "use" => ToSet(rest[p]) \subseteq var[p]

LocalTypes ==
    /\ local \in [Proc -> Seq(Obj)] /\ rest \in [Proc -> Seq(Obj)]
    /\ handles \in [Proc -> SUBSET Obj] /\ var \in [Proc -> SUBSET Obj]
    /\ used \in [Proc -> SUBSET Obj] /\ held \in [Proc -> SUBSET Obj]
    /\ cur \in [Proc -> Obj \cup {NoObj}]

(* A step of p leaves what the others know alone.                          *)
LocalFrame(p) ==
    \A q \in Proc : q # p =>
        /\ local'[q] = local[q] /\ handles'[q] = handles[q] /\ var'[q] = var[q]
        /\ used'[q] = used[q] /\ held'[q] = held[q] /\ rest'[q] = rest[q]
        /\ pc'[q] = pc[q] /\ cur'[q] = cur[q] /\ ret'[q] = ret[q]

(* LocalInv by its parts.                                                  *)
LEMMA LocalParts == LocalInv => LocalTypes /\ \A p \in Proc : LocalOf(p)
BY DEF LocalInv, LocalTypes, LocalOf

(* So only p itself is to be looked at.                                    *)
LEMMA LocalSame ==
    ASSUME LocalInv, NEW p \in Proc, LocalFrame(p), LocalTypes', LocalOf(p)'
    PROVE  LocalInv'
<1>1. ASSUME NEW q \in Proc, q # p PROVE LocalOf(q)'
  <2>1. LocalOf(q)
    BY LocalParts
  <2>2. /\ local'[q] = local[q] /\ handles'[q] = handles[q] /\ var'[q] = var[q]
        /\ used'[q] = used[q] /\ held'[q] = held[q] /\ rest'[q] = rest[q]
        /\ pc'[q] = pc[q] /\ cur'[q] = cur[q] /\ ret'[q] = ret[q]
    BY <1>1 DEF LocalFrame
  <2> QED
    BY <2>1, <2>2 DEF LocalOf, At
<1>2. \A q \in Proc : LocalOf(q)'
  BY <1>1
<1> QED
  BY <1>2 DEF LocalInv, LocalOf, LocalTypes

(* What is done to the local list and the open segments by taking a        *)
(* segment out of the shared list.                                         *)
LEMMA RemoveLocal ==
    ASSUME LocalInv, TrackInv, ListInv, NEW p \in Proc, NEW o \in handles[p], NEW l \in Seq(Obj),
           IsInjective(l), ToSet(l) \subseteq handles[p],
           pc[p] \in DetachPC => cur[p] = o, RemoveSegmentFromSharedList(p, o, l)
    PROVE  \E s \in Seq(Obj), S \in SUBSET Obj :
              /\ local' = [local EXCEPT ![p] = s] /\ handles' = [handles EXCEPT ![p] = @ \cup S]
              /\ IsInjective(s) /\ ToSet(s) = ToSet(l) \cup S /\ S \cap handles[p] = {}
<1>1. CASE is_invalid[o]
  <2>1. local' = [local EXCEPT ![p] = l] /\ handles' = handles
    BY <1>1 DEF RemoveSegmentFromSharedList
  <2>2. handles' = [handles EXCEPT ![p] = @ \cup {}]
    BY <2>1 DEF LocalInv
  <2>3. PICK S : S = {}
    OBVIOUS
  <2>4. /\ S \in SUBSET Obj /\ handles' = [handles EXCEPT ![p] = @ \cup S]
        /\ ToSet(l) = ToSet(l) \cup S /\ S \cap handles[p] = {}
    BY <2>2, <2>3
  <2> QED
    BY <2>1, <2>4
<1>2. CASE ~is_invalid[o]
  <2>1. PICK objs : /\ Opens(p, objs)
                    /\ handles' = [handles EXCEPT ![p] = @ \cup ToSet(objs)]
                    /\ local' = [local EXCEPT ![p] = l \o objs]
    BY <1>2, RemoveOpens
  <2>2. /\ objs \in Seq(Obj) /\ IsInjective(objs) /\ ToSet(objs) \cap handles[p] = {}
        /\ ToSet(objs) \in SUBSET Obj
    BY <2>1, LenProperties DEF Opens, ToSet, LocalInv
  <2>3. ToSet(l) \cap ToSet(objs) = {}
    BY <2>2
  <2>4. l \o objs \in Seq(Obj) /\ IsInjective(l \o objs) /\ ToSet(l \o objs) = ToSet(l) \cup ToSet(objs)
    BY <2>2, <2>3, ConcatFact
  <2>5. PICK s, S : s = l \o objs /\ S = ToSet(objs)
    OBVIOUS
  <2>6. /\ s \in Seq(Obj) /\ S \in SUBSET Obj
        /\ local' = [local EXCEPT ![p] = s] /\ handles' = [handles EXCEPT ![p] = @ \cup S]
        /\ IsInjective(s) /\ ToSet(s) = ToSet(l) \cup S /\ S \cap handles[p] = {}
    BY <2>1, <2>2, <2>4, <2>5
  <2> QED
    BY <2>6
<1> QED
  BY <1>1, <1>2

(* Starting to detach a segment that has left the local list.              *)
LEMMA LocalCallDetach ==
    ASSUME LocalInv, NEW p \in Proc, NEW o \in ToSet(local[p]), NEW l \in ReturnPC,
           CallDetach(p, o, l), pc \in [Proc -> PC], ret \in [Proc -> PC], pc[p] \notin DetachPC,
           NEW s \in Seq(Obj), IsInjective(s), NEW S \in SUBSET Obj,
           local' = [local EXCEPT ![p] = s], handles' = [handles EXCEPT ![p] = @ \cup S],
           ToSet(s) = (ToSet(local[p]) \cup S) \ {o},
           UNCHANGED <<var, used, held>>,
           NEW r \in Seq(Obj), rest' = [rest EXCEPT ![p] = r],
           l \in {"clean", "stale"} => IsInjective(r) /\ ToSet(r) \subseteq ToSet(s)
    PROVE  LocalInv'
<1>1. LocalTypes /\ LocalOf(p)
  BY LocalParts
<1>2. o \in Obj /\ handles[p] = ToSet(local[p])
  BY <1>1 DEF LocalOf, LocalTypes
<1>3. /\ cur' = [cur EXCEPT ![p] = o] /\ ret' = [ret EXCEPT ![p] = l]
      /\ pc' = [pc EXCEPT ![p] = IF o \in var[p] THEN "detach" ELSE "untrack"]
  BY DEF CallDetach, Goto, DetachEntry
<1>4. LocalTypes' /\ LocalFrame(p)
  BY <1>1, <1>2, <1>3 DEF LocalTypes, LocalFrame
<1>5. /\ local'[p] = s /\ handles'[p] = ToSet(local[p]) \cup S /\ cur'[p] = o /\ ret'[p] = l
      /\ rest'[p] = r /\ pc'[p] = IF o \in var[p] THEN "detach" ELSE "untrack"
  BY <1>1, <1>2, <1>3 DEF LocalTypes
<1>6. LocalOf(p)'
  BY <1>1, <1>2, <1>5 DEF LocalOf, At, DetachPC, ReturnPC
<1> QED
  BY <1>4, <1>6, LocalSame

(* Destroying the variable leaves the segment open.                        *)
LEMMA LocalDestroy ==
    ASSUME LockInv, LocalInv, NEW p \in Proc, DestroyVariable(p)
    PROVE  LocalInv'
<1>1. LocalTypes /\ LocalOf(p) /\ pc \in [Proc -> PC]
  BY LocalParts DEF LockInv
<1>2. /\ pc[p] = "detach" /\ UNCHANGED <<handles, local, cur, ret, rest>>
      /\ \E l \in {"collect", "untrack"} : pc' = [pc EXCEPT ![p] = l]
      /\ var' = [var EXCEPT ![p] = @ \ {cur[p]}]
      /\ held' = [held EXCEPT ![p] = @ \ {cur[p]}]
      /\ used' = [used EXCEPT ![p] = @ \ {cur[p]}]
  BY DEF DestroyVariable, Goto
<1>3. LocalTypes' /\ LocalFrame(p)
  BY <1>1, <1>2 DEF LocalTypes, LocalFrame
<1>4. LocalOf(p)'
  BY <1>1, <1>2 DEF LocalTypes, LocalOf, At, DetachPC
<1> QED
  BY <1>3, <1>4, LocalSame

(* The segment leaves the local list at the latest when it has left the    *)
(* shared one; its neighbours are open by then.                            *)
LEMMA LocalRemove ==
    ASSUME LockInv, LocalInv, TrackInv, ListInv, NEW p \in Proc, Collect(p) \/ RemoveLast(p)
    PROVE  LocalInv'
<1>1. LocalTypes /\ LocalOf(p) /\ pc \in [Proc -> PC]
  BY LocalParts DEF LockInv
<1>2. /\ pc[p] \in {"collect", "remove"} /\ UNCHANGED <<cur, ret, rest, var, used, held>>
      /\ pc[p] \in DetachPC /\ cur[p] \in handles[p] /\ cur[p] \in Obj
  BY <1>1 DEF Collect, RemoveLast, LocalOf, LocalTypes, DetachPC
<1>3. PICK l : /\ l = IF pc[p] = "collect" THEN RemoveNode(local[p], cur[p]) ELSE local[p]
  OBVIOUS
<1>4. /\ RemoveSegmentFromSharedList(p, cur[p], l)
      /\ pc' = [pc EXCEPT ![p] = IF pc[p] = "collect" THEN DetachEntry(p, cur[p]) ELSE "cas"]
  BY <1>3 DEF Collect, RemoveLast, Goto
<1>5. l \in Seq(Obj) /\ IsInjective(l) /\ ToSet(l) = handles[p] \ {cur[p]}
  <2>1. local[p] \in Seq(Obj) /\ IsInjective(local[p])
    BY <1>1 DEF LocalTypes, LocalOf
  <2>2. handles[p] = ToSet(local[p]) \cup {cur[p]}
    BY <1>1, <1>2 DEF LocalOf
  <2>3. CASE pc[p] = "collect"
    <3>1. l \in Seq(Obj) /\ IsInjective(l) /\ ToSet(l) = ToSet(local[p]) \ {cur[p]}
      BY <1>3, <2>1, <2>3, RemoveNodeFact
    <3> QED
      BY <2>2, <3>1
  <2>4. CASE pc[p] # "collect"
    <3>1. cur[p] \notin ToSet(local[p])
      BY <1>1, <1>2, <2>4 DEF LocalOf
    <3> QED
      BY <1>3, <2>1, <2>2, <2>4, <3>1
  <2> QED
    BY <2>3, <2>4
<1>6. PICK s \in Seq(Obj), S \in SUBSET Obj :
         /\ local' = [local EXCEPT ![p] = s] /\ handles' = [handles EXCEPT ![p] = @ \cup S]
         /\ IsInjective(s) /\ ToSet(s) = ToSet(l) \cup S /\ S \cap handles[p] = {}
  BY <1>2, <1>4, <1>5, RemoveLocal
<1>7. LocalTypes' /\ LocalFrame(p)
  BY <1>1, <1>2, <1>4, <1>6 DEF LocalTypes, LocalFrame
<1>8. /\ local'[p] = s /\ handles'[p] = handles[p] \cup S /\ ToSet(s) = (handles[p] \ {cur[p]}) \cup S
      /\ cur[p] \notin S
  BY <1>1, <1>2, <1>5, <1>6 DEF LocalTypes
<1>9. /\ pc'[p] \in {"detach", "untrack", "cas"}
      /\ pc'[p] \in {"untrack", "cas"} => cur[p] \notin var[p]
  BY <1>1, <1>2, <1>4 DEF DetachEntry, LocalOf
<1>10. At(p)' = At(p) /\ pc'[p] \in DetachPC
  BY <1>2, <1>9 DEF At, DetachPC
<1>11. At(p) \in {"clean", "stale", "walk"} => IsInjective(rest[p]) /\ ToSet(rest[p]) \subseteq ToSet(s)
  <2> SUFFICES ASSUME At(p) \in {"clean", "stale", "walk"}
               PROVE  IsInjective(rest[p]) /\ ToSet(rest[p]) \subseteq ToSet(s)
    OBVIOUS
  <2>1. ret[p] # "gc"
    BY <1>2 DEF At
  <2>2. cur[p] \notin ToSet(local[p]) /\ ToSet(rest[p]) \subseteq ToSet(local[p]) /\ IsInjective(rest[p])
        /\ ToSet(local[p]) \subseteq handles[p]
    BY <1>1, <1>2, <2>1 DEF LocalOf
  <2> QED
    BY <1>8, <2>2
<1>12. LocalOf(p)'
  <2>1. IsInjective(local'[p]) /\ handles'[p] = ToSet(local'[p]) \cup {cur[p]} /\ cur[p] \notin ToSet(local'[p])
    BY <1>2, <1>6, <1>8
  <2>2. used[p] \cup held[p] \subseteq var[p] /\ var[p] \subseteq handles'[p]
    BY <1>1, <1>8 DEF LocalOf
  <2>3. pc'[p] \notin {"add", "return", "out", "use"}
    BY <1>9
  <2> QED
    BY <1>2, <1>8, <1>9, <1>10, <1>11, <2>1, <2>2, <2>3 DEF LocalOf
<1> QED
  BY <1>7, <1>12, LocalSame

(* Letting go of the segment, or going on to let go of it.                 *)
LEMMA LocalUntrack ==
    ASSUME LockInv, LocalInv, NEW p \in Proc,
           Untrack(p) \/ CompareSwap(p) \/ UnlinkSegment(p) \/ PostAndSubtract(p)
    PROVE  LocalInv'
<1>1. LocalTypes /\ LocalOf(p) /\ pc \in [Proc -> PC] /\ ret \in [Proc -> PC]
  BY LocalParts DEF LockInv
<1>2. /\ pc[p] \in {"untrack", "cas", "unlink", "post"} /\ UNCHANGED <<local, rest, var, used, held>>
      /\ \/ UNCHANGED <<handles, cur, ret>>
            /\ \E l \in {"remove", "unlink", "untrack", "post"} : pc' = [pc EXCEPT ![p] = l]
         \/ Detached(p)
  BY DEF Untrack, CompareSwap, UnlinkSegment, PostAndSubtract, proc, Goto
<1>3. CASE UNCHANGED <<handles, cur, ret>>
           /\ \E l \in {"remove", "unlink", "untrack", "post"} : pc' = [pc EXCEPT ![p] = l]
  <2>1. LocalTypes' /\ LocalFrame(p)
    BY <1>1, <1>2, <1>3 DEF LocalTypes, LocalFrame
  <2>2. LocalOf(p)'
    BY <1>1, <1>2, <1>3 DEF LocalOf, At, DetachPC
  <2> QED
    BY <2>1, <2>2, LocalSame
<1>4. CASE Detached(p)
  <2>1. /\ handles' = [handles EXCEPT ![p] = @ \ {cur[p]}] /\ pc' = [pc EXCEPT ![p] = ret[p]]
        /\ cur' = [cur EXCEPT ![p] = NoObj] /\ ret' = [ret EXCEPT ![p] = "out"]
    BY <1>4 DEF Detached, Goto
  <2>2. LocalTypes' /\ LocalFrame(p)
    BY <1>1, <1>2, <2>1 DEF LocalTypes, LocalFrame
  <2>3. /\ handles[p] = ToSet(local[p]) \cup {cur[p]} /\ cur[p] \notin ToSet(local[p])
        /\ cur[p] \notin var[p]
    BY <1>1, <1>2 DEF LocalOf, DetachPC
  <2>4. handles'[p] = ToSet(local[p])
    BY <1>1, <2>1, <2>3 DEF LocalTypes
  <2>5. pc'[p] = ret[p] /\ ret[p] \in ReturnPC /\ At(p) = ret[p] /\ At(p)' = ret[p]
    BY <1>1, <1>2, <2>1 DEF LockInv, At, DetachPC, ReturnPC
  <2>6. pc'[p] \notin DetachPC \cup {"add", "return", "out", "use"}
    BY <2>5 DEF DetachPC, ReturnPC
  <2>7. used[p] \cup held[p] \subseteq var[p] /\ var[p] \subseteq ToSet(local[p])
    BY <1>1, <2>3 DEF LocalOf
  <2> QED
    BY <1>1, <1>2, <2>2, <2>4, <2>5, <2>6, <2>7, LocalSame DEF LocalOf
<1> QED
  BY <1>2, <1>3, <1>4

(* A step that only moves p on, from outside msh_DetachSegment to outside. *)
LEMMA LocalGoto ==
    ASSUME LocalInv, NEW p \in Proc, NEW l \in PC, Goto(p, l), pc \in [Proc -> PC],
           pc[p] \notin DetachPC,
           l \notin DetachPC \cup {"add", "return", "clean", "stale", "walk", "use"},
           l = "out" => local[p] = <<>>,
           UNCHANGED <<local, rest, handles, var, used, held, cur, ret>>
    PROVE  LocalInv'
<1>1. LocalTypes /\ LocalOf(p) /\ pc' = [pc EXCEPT ![p] = l]
  BY LocalParts DEF Goto
<1>2. LocalTypes' /\ LocalFrame(p)
  BY <1>1 DEF LocalTypes, LocalFrame
<1>3. LocalOf(p)'
  BY <1>1 DEF LocalOf, At
<1> QED
  BY <1>2, <1>3, LocalSame

(* Nothing of it changes.                                                  *)
LEMMA LocalQuiet ==
    ASSUME LocalInv, UNCHANGED <<local, rest, handles, var, used, held, pc, cur, ret>>
    PROVE  LocalInv'
BY DEF LocalInv, At

(* Cleaning the list: the segments not looked at yet are still in it.      *)
LEMMA LocalClean ==
    ASSUME LockInv, LocalInv, NEW p \in Proc, CleanSegmentList(p) \/ DetachStale(p)
    PROVE  LocalInv'
<1>1. LocalTypes /\ LocalOf(p) /\ pc \in [Proc -> PC] /\ ret \in [Proc -> PC]
  BY LocalParts DEF LockInv
<1>2. /\ pc[p] \in {"clean", "stale"} /\ pc[p] \in ReturnPC /\ pc[p] \notin DetachPC /\ At(p) = pc[p]
      /\ UNCHANGED <<handles, var, used, held>>
  BY DEF CleanSegmentList, DetachStale, DetachPC, ReturnPC, At
<1>3. /\ local[p] \in Seq(Obj) /\ IsInjective(local[p])
      /\ rest[p] \in Seq(Obj) /\ IsInjective(rest[p]) /\ ToSet(rest[p]) \subseteq ToSet(local[p])
  BY <1>1, <1>2 DEF LocalTypes, LocalOf
<1>4. CASE rest[p] = <<>>
  <2>1. /\ UNCHANGED <<local, rest, cur, ret>>
        /\ \E l \in {"gc", "command", "clear", "output"} : Goto(p, l)
    BY <1>4 DEF CleanSegmentList, DetachStale, AfterUpdate
  <2>2. PICK l \in {"gc", "command", "clear", "output"} : Goto(p, l)
    BY <2>1
  <2>3. l \in PC /\ l \notin DetachPC \cup {"add", "return", "clean", "stale", "walk", "use"} /\ l # "out"
    BY DEF PC, DetachPC
  <2> QED
    BY <1>1, <1>2, <2>1, <2>2, <2>3, LocalGoto
<1>5. CASE rest[p] # <<>>
  <2>1. PICK o, r : o = Head(rest[p]) /\ r = Tail(rest[p])
    OBVIOUS
  <2>2. /\ r \in Seq(Obj) /\ IsInjective(r) /\ o \in ToSet(rest[p]) /\ ToSet(r) = ToSet(rest[p]) \ {o}
    BY <1>3, <1>5, <2>1, TailFact
  <2>3. PICK s : s = RemoveNode(local[p], o)
    OBVIOUS
  <2>4. s \in Seq(Obj) /\ IsInjective(s) /\ ToSet(s) = ToSet(local[p]) \ {o}
    BY <1>3, <2>3, RemoveNodeFact
  <2>5. rest' = [rest EXCEPT ![p] = r]
    BY <1>5, <2>1 DEF CleanSegmentList, DetachStale
  <2>6. \/ UNCHANGED <<local, cur, ret, pc>>
        \/ local' = [local EXCEPT ![p] = s] /\ CallDetach(p, o, pc[p])
    BY <1>5, <2>1, <2>3 DEF CleanSegmentList, DetachStale
  <2>7. CASE UNCHANGED <<local, cur, ret, pc>>
    <3>1. LocalTypes' /\ LocalFrame(p)
      BY <1>1, <1>2, <2>2, <2>5, <2>7 DEF LocalTypes, LocalFrame
    <3>2. rest'[p] = r
      BY <1>1, <2>5 DEF LocalTypes
    <3>3. IsInjective(r) /\ ToSet(r) \subseteq ToSet(local[p])
      BY <1>3, <2>2
    <3>4. LocalOf(p)'
      BY <1>1, <1>2, <2>7, <3>2, <3>3 DEF LocalOf, At
    <3> QED
      BY <3>1, <3>4, LocalSame
  <2>8. CASE local' = [local EXCEPT ![p] = s] /\ CallDetach(p, o, pc[p])
    <3>1. PICK S : S = {}
      OBVIOUS
    <3>2. /\ S \in SUBSET Obj /\ handles' = [handles EXCEPT ![p] = @ \cup S]
      BY <1>1, <1>2, <3>1 DEF LocalTypes
    <3>3. ToSet(s) = (ToSet(local[p]) \cup S) \ {o} /\ ToSet(r) \subseteq ToSet(s) /\ o \in ToSet(local[p])
      BY <1>3, <2>2, <2>4, <3>1
    <3> QED
      BY <1>1, <1>2, <2>2, <2>4, <2>5, <2>8, <3>2, <3>3, LocalCallDetach
  <2> QED
    BY <2>6, <2>7, <2>8
<1> QED
  BY <1>4, <1>5

(* Clearing a variable, or leaving.                                        *)
LEMMA LocalClear ==
    ASSUME LockInv, LocalInv, TrackInv, ListInv, NEW p \in Proc,
           NEW o \in ToSet(local[p]), NEW l \in {"clear_all", "clear"}, pc[p] = l,
           RemoveSegmentFromSharedList(p, o, RemoveNode(local[p], o)), CallDetach(p, o, l),
           UNCHANGED <<var, used, held, rest>>
    PROVE  LocalInv'
<1>1. LocalTypes /\ LocalOf(p) /\ pc \in [Proc -> PC] /\ ret \in [Proc -> PC]
  BY LocalParts DEF LockInv
<1>2. pc[p] \notin DetachPC /\ l \in ReturnPC /\ l \notin {"clean", "stale"}
  BY DEF DetachPC, ReturnPC
<1>3. handles[p] = ToSet(local[p]) /\ local[p] \in Seq(Obj) /\ IsInjective(local[p])
  BY <1>1, <1>2 DEF LocalTypes, LocalOf
<1>4. PICK r : r = RemoveNode(local[p], o)
  OBVIOUS
<1>5. r \in Seq(Obj) /\ IsInjective(r) /\ ToSet(r) = ToSet(local[p]) \ {o}
  BY <1>3, <1>4, RemoveNodeFact
<1>6. PICK s \in Seq(Obj), S \in SUBSET Obj :
         /\ local' = [local EXCEPT ![p] = s] /\ handles' = [handles EXCEPT ![p] = @ \cup S]
         /\ IsInjective(s) /\ ToSet(s) = ToSet(r) \cup S /\ S \cap handles[p] = {}
  <2>1. o \in handles[p] /\ ToSet(r) \subseteq handles[p] /\ RemoveSegmentFromSharedList(p, o, r)
    BY <1>3, <1>4, <1>5
  <2> QED
    BY <1>2, <1>5, <2>1, RemoveLocal
<1>7. ToSet(s) = (ToSet(local[p]) \cup S) \ {o}
  BY <1>3, <1>5, <1>6
<1>8. rest[p] \in Seq(Obj) /\ rest' = [rest EXCEPT ![p] = rest[p]]
  BY <1>1 DEF LocalTypes
<1> QED
  BY <1>1, <1>2, <1>6, <1>7, <1>8, LocalCallDetach

(* A step that opens the segments in S, or none, and sees to the loops.    *)
LEMMA LocalGrow ==
    ASSUME LocalInv, NEW p \in Proc, pc \in [Proc -> PC], pc[p] \notin DetachPC,
           NEW l \in PC \ (DetachPC \cup {"out"}), pc' = [pc EXCEPT ![p] = l],
           NEW s \in Seq(Obj), IsInjective(s), local' = [local EXCEPT ![p] = s],
           NEW S \in SUBSET Obj, handles' = [handles EXCEPT ![p] = @ \cup S],
           ToSet(s) = ToSet(local[p]) \cup S,
           NEW r \in Seq(Obj), rest' = [rest EXCEPT ![p] = r],
           NEW c \in Obj \cup {NoObj}, cur' = [cur EXCEPT ![p] = c],
           UNCHANGED <<var, used, held, ret>>,
           l \in {"add", "return"} => c \in ToSet(s),
           l \in {"clean", "stale", "walk"} => IsInjective(r) /\ ToSet(r) \subseteq ToSet(s),
           l = "use" => ToSet(r) \subseteq var[p]
    PROVE  LocalInv'
<1>1. LocalTypes /\ LocalOf(p) /\ handles[p] = ToSet(local[p])
  BY LocalParts DEF LocalOf
<1>2. LocalTypes' /\ LocalFrame(p)
  BY <1>1 DEF LocalTypes, LocalFrame
<1>3. /\ local'[p] = s /\ handles'[p] = ToSet(s) /\ rest'[p] = r /\ cur'[p] = c /\ pc'[p] = l
      /\ ToSet(local[p]) \subseteq ToSet(s)
  BY <1>1 DEF LocalTypes
<1>4. LocalOf(p)'
  BY <1>1, <1>3 DEF LocalOf, At
<1> QED
  BY <1>2, <1>4, LocalSame

(* The same when it opens nothing.                                         *)
LEMMA LocalLoop ==
    ASSUME LocalInv, NEW p \in Proc, pc \in [Proc -> PC], pc[p] \notin DetachPC,
           NEW l \in PC \ (DetachPC \cup {"out"}), pc' = [pc EXCEPT ![p] = l],
           NEW r \in Seq(Obj), rest' = [rest EXCEPT ![p] = r],
           UNCHANGED <<local, handles, cur, var, used, held, ret>>,
           l \in {"add", "return"} => cur[p] \in ToSet(local[p]),
           l \in {"clean", "stale", "walk"} => IsInjective(r) /\ ToSet(r) \subseteq ToSet(local[p]),
           l = "use" => ToSet(r) \subseteq var[p]
    PROVE  LocalInv'
<1>1. LocalTypes /\ LocalOf(p)
  BY LocalParts
<1>2. LocalTypes' /\ LocalFrame(p)
  BY <1>1 DEF LocalTypes, LocalFrame
<1>3. rest'[p] = r /\ pc'[p] = l
  BY <1>1 DEF LocalTypes
<1>4. LocalOf(p)'
  BY <1>1, <1>3 DEF LocalOf, At
<1> QED
  BY <1>2, <1>4, LocalSame

(* Sharing: the new segment is open and in the local list.                 *)
LEMMA LocalShare ==
    ASSUME LockInv, LocalInv, TrackInv, NEW p \in Proc, CreateSegment(p)
    PROVE  LocalInv'
<1>1. LocalTypes /\ LocalOf(p) /\ pc \in [Proc -> PC]
  BY LocalParts DEF LockInv
<1>2. pc[p] = "create" /\ pc[p] \notin DetachPC /\ UNCHANGED <<var, used, held, ret, rest>>
  BY DEF CreateSegment, DetachPC
<1>3. CASE UNCHANGED <<handles, local, pc, cur>>
  BY <1>2, <1>3, LocalQuiet
<1>4. CASE \E o \in FreeObj : /\ handles' = [handles EXCEPT ![p] = @ \cup {o}]
                              /\ local' = [local EXCEPT ![p] = Append(@, o)]
                              /\ cur' = [cur EXCEPT ![p] = o]
                              /\ Goto(p, "add")
  <2>1. PICK o \in FreeObj : /\ handles' = [handles EXCEPT ![p] = @ \cup {o}]
                             /\ local' = [local EXCEPT ![p] = Append(@, o)]
                             /\ cur' = [cur EXCEPT ![p] = o]
                             /\ pc' = [pc EXCEPT ![p] = "add"]
    BY <1>4 DEF Goto
  <2>2. /\ o \in Obj /\ o \notin ToSet(local[p])
        /\ local[p] \in Seq(Obj) /\ IsInjective(local[p])
        /\ rest[p] \in Seq(Obj) /\ rest' = [rest EXCEPT ![p] = rest[p]]
    BY <1>1, <1>2, <2>1 DEF FreeObj, LocalOf, LocalTypes
  <2>3. PICK s, S : s = Append(local[p], o) /\ S = {o}
    OBVIOUS
  <2>4. RemoveNode(local[p], o) = local[p]
    BY <2>2 DEF RemoveNode
  <2>5. s \in Seq(Obj) /\ IsInjective(s) /\ ToSet(s) = ToSet(local[p]) \cup S
    BY <2>2, <2>3, <2>4, PlaceFact
  <2>6. "add" \in PC \ (DetachPC \cup {"out"})
    BY DEF PC, DetachPC
  <2>7. S \in SUBSET Obj /\ o \in ToSet(s) /\ handles' = [handles EXCEPT ![p] = @ \cup S]
        /\ local' = [local EXCEPT ![p] = s]
    BY <2>1, <2>2, <2>3, <2>5
  <2> QED
    BY <1>1, <1>2, <2>1, <2>2, <2>5, <2>6, <2>7, LocalGrow
<1> QED
  BY <1>3, <1>4 DEF CreateSegment

(* What opening objs does to the local list.                               *)
LEMMA OpenLocal ==
    ASSUME LocalInv, NEW p \in Proc, pc[p] \notin DetachPC, NEW objs, Opens(p, objs)
    PROVE  /\ local[p] \o objs \in Seq(Obj) /\ IsInjective(local[p] \o objs)
           /\ ToSet(local[p] \o objs) = ToSet(local[p]) \cup ToSet(objs)
           /\ ToSet(objs) \in SUBSET Obj
<1>1. LocalTypes /\ LocalOf(p)
  BY LocalParts
<1>2. /\ local[p] \in Seq(Obj) /\ IsInjective(local[p]) /\ handles[p] = ToSet(local[p])
      /\ objs \in Seq(Obj) /\ IsInjective(objs) /\ ToSet(objs) \cap handles[p] = {}
  BY <1>1 DEF LocalOf, LocalTypes, Opens
<1>3. ToSet(local[p]) \cap ToSet(objs) = {}
  BY <1>2
<1>4. ToSet(objs) \in SUBSET Obj
  BY <1>2, LenProperties DEF ToSet
<1> QED
  BY <1>2, <1>3, <1>4, ConcatFact

(* What the last segment of the list, opened by AddSegmentToSharedList and *)
(* by OpenLatest, means for the process.                                   *)
LEMMA LastOpens ==
    ASSUME LocalInv, TrackInv, ListInv, NEW p \in Proc, pc[p] \notin DetachPC,
           NEW k \in {first_seg_num, last_seg_num}, k # NoSeg
    PROVE  /\ NodeOf(p, k) = names[k] /\ k \in SegNum
           /\ names[k] \in Obj \ orphans /\ ~is_invalid[names[k]]
           /\ Unopened(p, k) = IF names[k] \in ToSet(local[p]) THEN <<>> ELSE <<names[k]>>
           /\ FindSegmentNode(p, k) = IF names[k] \in ToSet(local[p]) THEN {names[k]} ELSE {}
           /\ CanOpen(Unopened(p, k)) => Opens(p, Unopened(p, k))
<1>1. k \in SegNum /\ names[k] \in Obj \ orphans /\ ~is_invalid[names[k]]
  BY EndsFact
<1> QED
  BY <1>1, UnopenedFact

(* Adding the segment to the shared list opens the one before it; one that *)
(* is too many leaves the local list again.                                *)
LEMMA LocalAdd ==
    ASSUME LockInv, LocalInv, TrackInv, ListInv, NEW p \in Proc, AddSegmentToSharedList(p)
    PROVE  LocalInv'
<1>1. LocalTypes /\ LocalOf(p) /\ pc \in [Proc -> PC] /\ ret \in [Proc -> PC]
  BY LocalParts DEF LockInv
<1>2. pc[p] = "add" /\ pc[p] \notin DetachPC /\ UNCHANGED <<var, used, held, rest>>
  BY DEF AddSegmentToSharedList, DetachPC
<1>3. /\ local[p] \in Seq(Obj) /\ IsInjective(local[p]) /\ cur[p] \in ToSet(local[p])
      /\ rest[p] \in Seq(Obj) /\ rest' = [rest EXCEPT ![p] = rest[p]]
      /\ cur[p] \in Obj \cup {NoObj}
  BY <1>1, <1>2 DEF LocalOf, LocalTypes
<1>4. CASE /\ local' = [local EXCEPT ![p] = RemoveNode(@, cur[p])]
           /\ CallDetach(p, cur[p], "error") /\ UNCHANGED handles
  <2>1. PICK s, S : s = RemoveNode(local[p], cur[p]) /\ S = {}
    OBVIOUS
  <2>2. s \in Seq(Obj) /\ IsInjective(s) /\ ToSet(s) = ToSet(local[p]) \ {cur[p]}
    BY <1>3, <2>1, RemoveNodeFact
  <2>3. /\ ToSet(s) = (ToSet(local[p]) \cup S) \ {cur[p]} /\ S \in SUBSET Obj
        /\ local' = [local EXCEPT ![p] = s]
        /\ handles' = [handles EXCEPT ![p] = @ \cup S]
    BY <1>1, <1>4, <2>1, <2>2 DEF LocalTypes
  <2>4. "error" \in ReturnPC /\ "error" \notin {"clean", "stale"}
    BY DEF ReturnPC
  <2> QED
    BY <1>1, <1>2, <1>3, <1>4, <2>2, <2>3, <2>4, LocalCallDetach
<1>5. ASSUME NEW objs,
             objs = IF first_seg_num = NoSeg THEN <<>> ELSE Unopened(p, last_seg_num),
             CanOpen(objs), handles' = [handles EXCEPT ![p] = @ \cup ToSet(objs)],
             local' = [local EXCEPT ![p] = @ \o objs],
             Goto(p, "return"), UNCHANGED <<cur, ret>>
      PROVE  LocalInv'
  <2>1. Opens(p, objs)
    <3>1. CASE first_seg_num = NoSeg
      BY <1>5, <3>1, ShortFact DEF Opens
    <3>2. CASE first_seg_num # NoSeg
      <4>1. last_seg_num # NoSeg
        BY <3>2, EndsFact
      <4>2. objs = Unopened(p, last_seg_num)
        BY <1>5, <3>2
      <4> QED
        BY <1>2, <1>5, <4>1, <4>2, LastOpens
    <3> QED
      BY <3>1, <3>2
  <2>2. PICK s, S : s = local[p] \o objs /\ S = ToSet(objs)
    OBVIOUS
  <2>3. s \in Seq(Obj) /\ IsInjective(s) /\ ToSet(s) = ToSet(local[p]) \cup S /\ S \in SUBSET Obj
    BY <1>2, <2>1, <2>2, OpenLocal
  <2>4. "return" \in PC \ (DetachPC \cup {"out"})
    BY DEF PC, DetachPC
  <2>5. /\ local' = [local EXCEPT ![p] = s] /\ handles' = [handles EXCEPT ![p] = @ \cup S]
        /\ pc' = [pc EXCEPT ![p] = "return"] /\ cur' = [cur EXCEPT ![p] = cur[p]]
        /\ cur[p] \in ToSet(s) /\ UNCHANGED <<var, used, held, ret>>
    BY <1>1, <1>2, <1>3, <1>5, <2>2, <2>3 DEF LocalTypes, Goto
  <2> QED
    BY <1>1, <1>2, <1>3, <2>3, <2>4, <2>5, LocalGrow
<1> QED
  BY <1>4, <1>5 DEF AddSegmentToSharedList

(* The walk moves the segments it meets to the end of the local list.      *)
LEMMA LocalWalk ==
    ASSUME LockInv, LocalInv, TrackInv, ListInv, NEW p \in Proc, WalkSharedList(p)
    PROVE  LocalInv'
<1>1. LocalTypes /\ LocalOf(p) /\ pc \in [Proc -> PC]
  BY LocalParts DEF LockInv
<1>2. pc[p] = "walk" /\ pc[p] \notin DetachPC /\ At(p) = "walk" /\ UNCHANGED <<var, used, held, ret, cur>>
  BY DEF WalkSharedList, DetachPC, At
<1>3. /\ local[p] \in Seq(Obj) /\ IsInjective(local[p])
      /\ rest[p] \in Seq(Obj) /\ IsInjective(rest[p]) /\ ToSet(rest[p]) \subseteq ToSet(local[p])
  BY <1>1, <1>2 DEF LocalOf, LocalTypes
<1>4. "walk" \in PC \ (DetachPC \cup {"out"}) /\ "stale" \in PC \ (DetachPC \cup {"out"})
  BY DEF PC, DetachPC
<1>5. CASE scan[p] = NoSeg
  <2>1. pc' = [pc EXCEPT ![p] = "stale"] /\ UNCHANGED <<local, handles, rest>>
    BY <1>5 DEF WalkSharedList, Goto
  <2>2. rest' = [rest EXCEPT ![p] = rest[p]]
    BY <1>1, <2>1 DEF LocalTypes
  <2> QED
    BY <1>1, <1>2, <1>3, <1>4, <2>1, <2>2, LocalLoop
<1>6. CASE scan[p] # NoSeg
  <2>1. PICK o, objs : o = NodeOf(p, scan[p]) /\ objs = Unopened(p, scan[p])
    OBVIOUS
  <2>2. scan[p] \in SegNum /\ names[scan[p]] \in Obj \ orphans /\ ~is_invalid[names[scan[p]]]
    BY <1>2, <1>6 DEF ListInv, Listed
  <2>3. /\ CanOpen(objs) /\ handles' = [handles EXCEPT ![p] = @ \cup ToSet(objs)]
        /\ local' = [local EXCEPT ![p] = Append(RemoveNode(@, o), o)]
        /\ rest' = [rest EXCEPT ![p] = RemoveNode(@, o)] /\ UNCHANGED pc
    BY <1>6, <2>1 DEF WalkSharedList
  <2>4. /\ o = names[scan[p]] /\ o \in Obj
        /\ objs = IF o \in ToSet(local[p]) THEN <<>> ELSE <<o>>
    BY <1>2, <2>1, <2>2, UnopenedFact
  <2>5. PICK s, r, S : s = Append(RemoveNode(local[p], o), o) /\ r = RemoveNode(rest[p], o) /\ S = ToSet(objs)
    OBVIOUS
  <2>6. s \in Seq(Obj) /\ IsInjective(s) /\ ToSet(s) = ToSet(local[p]) \cup {o}
    BY <1>3, <2>4, <2>5, PlaceFact
  <2>7. r \in Seq(Obj) /\ IsInjective(r) /\ ToSet(r) \subseteq ToSet(s)
    <3>1. r \in Seq(Obj) /\ IsInjective(r) /\ ToSet(r) = ToSet(rest[p]) \ {o}
      BY <1>3, <2>5, RemoveNodeFact
    <3> QED
      BY <1>3, <2>6, <3>1
  <2>8. S = IF o \in ToSet(local[p]) THEN {} ELSE {o}
    BY <2>4, <2>5, ShortFact
  <2>9. ToSet(s) = ToSet(local[p]) \cup S /\ S \in SUBSET Obj
    BY <2>4, <2>6, <2>8
  <2>10. /\ local' = [local EXCEPT ![p] = s] /\ handles' = [handles EXCEPT ![p] = @ \cup S]
         /\ rest' = [rest EXCEPT ![p] = r] /\ cur' = [cur EXCEPT ![p] = cur[p]]
         /\ pc' = [pc EXCEPT ![p] = "walk"] /\ cur[p] \in Obj \cup {NoObj}
    BY <1>1, <1>2, <2>3, <2>5 DEF LocalTypes
  <2> QED
    <3>1. "walk" \in PC \ (DetachPC \cup {"out"}) /\ pc \in [Proc -> PC] /\ pc[p] \notin DetachPC
      BY <1>1, <1>2, <1>4
    <3>2. UNCHANGED <<var, used, held, ret>> /\ "walk" \notin {"add", "return"} /\ "walk" # "use"
      BY <1>2
    <3>3. /\ s \in Seq(Obj) /\ IsInjective(s) /\ r \in Seq(Obj) /\ S \in SUBSET Obj
          /\ ToSet(s) = ToSet(local[p]) \cup S /\ IsInjective(r) /\ ToSet(r) \subseteq ToSet(s)
      BY <2>6, <2>7, <2>9
    <3> QED
      BY <2>10, <3>1, <3>2, <3>3, LocalGrow, ZenonT(40)
<1> QED
  BY <1>5, <1>6

(* The most recent segment goes to the end of the local list.              *)
LEMMA LocalLatest ==
    ASSUME LockInv, LocalInv, TrackInv, ListInv, NEW p \in Proc,
           UpdateLatestSegment(p) \/ OpenLatest(p)
    PROVE  LocalInv'
<1>1. LocalTypes /\ LocalOf(p) /\ pc \in [Proc -> PC]
  BY LocalParts DEF LockInv
<1>2. /\ pc[p] \in {"command", "open_latest"} /\ pc[p] \notin DetachPC
      /\ UNCHANGED <<var, used, held, ret, cur, rest>>
  BY DEF UpdateLatestSegment, OpenLatest, DetachPC
<1>3. /\ local[p] \in Seq(Obj) /\ IsInjective(local[p])
      /\ rest[p] \in Seq(Obj) /\ rest' = [rest EXCEPT ![p] = rest[p]]
      /\ cur' = [cur EXCEPT ![p] = cur[p]] /\ cur[p] \in Obj \cup {NoObj}
  BY <1>1, <1>2 DEF LocalOf, LocalTypes
<1>4. PICK l \in {"output", "open_latest"} : pc' = [pc EXCEPT ![p] = l]
  BY DEF UpdateLatestSegment, OpenLatest, Goto
<1>5. /\ l \in PC \ (DetachPC \cup {"out"}) /\ l # "use"
      /\ l \notin {"add", "return"} /\ l \notin {"clean", "stale", "walk"}
  BY DEF PC, DetachPC
<1>6. CASE UNCHANGED <<local, handles>>
  BY <1>1, <1>2, <1>3, <1>4, <1>5, <1>6, LocalLoop
<1>7. CASE /\ \E o \in FindSegmentNode(p, last_seg_num) : PlaceAtEnd(p, o)
           /\ UNCHANGED handles /\ Goto(p, "output")
  <2>1. PICK o \in ToSet(local[p]) : PlaceAtEnd(p, o)
    BY <1>7 DEF FindSegmentNode
  <2>2. o \in Obj
    BY <1>3, LenProperties DEF ToSet
  <2>3. PICK s, S : s = Append(RemoveNode(local[p], o), o) /\ S = {}
    OBVIOUS
  <2>4. s \in Seq(Obj) /\ IsInjective(s) /\ ToSet(s) = ToSet(local[p]) \cup {o}
    BY <1>3, <2>2, <2>3, PlaceFact
  <2>5. /\ local' = [local EXCEPT ![p] = s] /\ handles' = [handles EXCEPT ![p] = @ \cup S]
        /\ S \in SUBSET Obj /\ ToSet(s) = ToSet(local[p]) \cup S
        /\ pc' = [pc EXCEPT ![p] = "output"] /\ UNCHANGED <<var, used, held, ret>>
        /\ pc \in [Proc -> PC] /\ pc[p] \notin DetachPC
    BY <1>1, <1>2, <1>7, <2>1, <2>3, <2>4 DEF LocalTypes, PlaceAtEnd, Goto
  <2>6. "output" \in PC \ (DetachPC \cup {"out"})
    BY DEF PC, DetachPC
  <2> QED
    BY <1>3, <2>4, <2>5, <2>6, LocalGrow
<1>8. ASSUME NEW objs, objs = Unopened(p, last_seg_num), last_seg_num # NoSeg,
             CanOpen(objs), handles' = [handles EXCEPT ![p] = @ \cup ToSet(objs)],
             local' = [local EXCEPT ![p] = @ \o objs], Goto(p, "output")
      PROVE  LocalInv'
  <2>1. Opens(p, objs)
    BY <1>2, <1>8, LastOpens
  <2>2. PICK s, S : s = local[p] \o objs /\ S = ToSet(objs)
    OBVIOUS
  <2>3. s \in Seq(Obj) /\ IsInjective(s) /\ ToSet(s) = ToSet(local[p]) \cup S /\ S \in SUBSET Obj
    BY <1>2, <2>1, <2>2, OpenLocal
  <2>4. /\ local' = [local EXCEPT ![p] = s] /\ handles' = [handles EXCEPT ![p] = @ \cup S]
        /\ pc' = [pc EXCEPT ![p] = "output"] /\ UNCHANGED <<var, used, held, ret>>
        /\ pc \in [Proc -> PC] /\ pc[p] \notin DetachPC
    BY <1>1, <1>2, <1>8, <2>2 DEF Goto
  <2>5. "output" \in PC \ (DetachPC \cup {"out"})
    BY DEF PC, DetachPC
  <2> QED
    BY <1>3, <2>3, <2>4, <2>5, LocalGrow
<1> QED
  BY <1>6, <1>7, <1>8 DEF UpdateLatestSegment, OpenLatest

(* Creating variables and copies of them.                                  *)
LEMMA LocalCopies ==
    ASSUME LockInv, LocalInv, NEW p \in Proc, CreateOutputs(p) \/ UseOutput(p) \/ ReturnShared(p)
    PROVE  LocalInv'
<1>1. LocalTypes /\ LocalOf(p) /\ pc \in [Proc -> PC]
  BY LocalParts DEF LockInv
<1>2. /\ pc[p] \in {"output", "use", "return"} /\ pc[p] \notin DetachPC /\ At(p) = pc[p]
      /\ UNCHANGED <<local, handles, ret>>
  BY DEF CreateOutputs, UseOutput, ReturnShared, DetachPC, At
<1>3. /\ local[p] \in Seq(Obj) /\ rest[p] \in Seq(Obj) /\ handles[p] = ToSet(local[p])
      /\ handles[p] \subseteq Obj
  BY <1>1, <1>2 DEF LocalOf, LocalTypes
<1>4. CASE CreateOutputs(p)
  <2>1. PICK r : r = IF cmd[p] = "fetch_recent" /\ local[p] # <<>> THEN <<Last(local[p])>> ELSE local[p]
    OBVIOUS
  <2>2. r \in Seq(Obj) /\ ToSet(r) \subseteq ToSet(local[p])
    BY <1>3, <2>1, LastFact, ShortFact
  <2>3. /\ var' = [var EXCEPT ![p] = ToSet(local[p])] /\ rest' = [rest EXCEPT ![p] = r]
        /\ pc' = [pc EXCEPT ![p] = "use"] /\ UNCHANGED <<used, held, cur>>
    BY <1>4, <2>1 DEF CreateOutputs, Goto
  <2>4. LocalTypes' /\ LocalFrame(p)
    BY <1>1, <1>2, <1>3, <2>2, <2>3 DEF LocalTypes, LocalFrame
  <2>5. var'[p] = ToSet(local[p]) /\ rest'[p] = r /\ pc'[p] = "use"
    BY <1>1, <2>3 DEF LocalTypes
  <2>6. LocalOf(p)'
    BY <1>1, <1>2, <1>3, <2>2, <2>3, <2>5 DEF LocalOf, At, DetachPC
  <2> QED
    BY <2>4, <2>6, LocalSame
<1>5. CASE UseOutput(p)
  <2>1. pc[p] = "use" /\ UNCHANGED <<var, cur>> /\ ToSet(rest[p]) \subseteq var[p] /\ var[p] \subseteq Obj
    BY <1>1, <1>5 DEF UseOutput, LocalOf, LocalTypes
  <2>2. CASE rest[p] = <<>>
    <3>1. Goto(p, "gc") /\ UNCHANGED <<rest, held, used>>
      BY <1>5, <2>2 DEF UseOutput
    <3>2. /\ "gc" \in PC /\ "gc" # "out"
          /\ "gc" \notin DetachPC \cup {"add", "return", "clean", "stale", "walk", "use"}
      BY DEF PC, DetachPC
    <3> QED
      BY <1>1, <1>2, <2>1, <3>1, <3>2, LocalGoto
  <2>3. CASE rest[p] # <<>>
    <3>1. PICK r, o : r = Tail(rest[p]) /\ o = Head(rest[p])
      OBVIOUS
    <3>2. r \in Seq(Obj) /\ o \in ToSet(rest[p]) /\ ToSet(r) \subseteq ToSet(rest[p])
      BY <1>3, <2>3, <3>1, TailSubset
    <3>3. /\ rest' = [rest EXCEPT ![p] = r] /\ UNCHANGED pc
          /\ \/ held' = [held EXCEPT ![p] = @ \cup {o}] /\ used' = [used EXCEPT ![p] = @ \cup {o}]
             \/ UNCHANGED <<held, used>>
      BY <1>5, <2>3, <3>1 DEF UseOutput, CopyAndUse
    <3>4. o \in var[p] /\ o \in Obj
      BY <2>1, <3>2
    <3>5. LocalTypes' /\ LocalFrame(p)
      <4>1. LocalFrame(p)
        BY <1>1, <1>2, <2>1, <3>3 DEF LocalTypes, LocalFrame
      <4>2. held[p] \cup {o} \in SUBSET Obj /\ used[p] \cup {o} \in SUBSET Obj
        BY <1>1, <3>4 DEF LocalTypes
      <4>3. held' \in [Proc -> SUBSET Obj]
        BY <1>1, <3>3, <4>2 DEF LocalTypes
      <4>4. used' \in [Proc -> SUBSET Obj]
        BY <1>1, <3>3, <4>2 DEF LocalTypes
      <4> QED
        BY <1>1, <1>2, <2>1, <3>2, <3>3, <4>1, <4>3, <4>4 DEF LocalTypes
    <3>6. /\ rest'[p] = r /\ ToSet(r) \subseteq var[p] /\ var'[p] = var[p]
          /\ held'[p] \subseteq held[p] \cup {o} /\ used'[p] \subseteq used[p] \cup {o}
      BY <1>1, <2>1, <3>2, <3>3 DEF LocalTypes
    <3>7. LocalOf(p)'
      BY <1>1, <1>2, <2>1, <3>3, <3>4, <3>6 DEF LocalOf, At
    <3> QED
      BY <3>5, <3>7, LocalSame
  <2> QED
    BY <2>2, <2>3
<1>6. CASE ReturnShared(p)
  <2>1. PICK o : o = cur[p]
    OBVIOUS
  <2>2. pc[p] = "return" /\ UNCHANGED rest /\ o \in ToSet(local[p]) /\ o \in Obj
    BY <1>1, <1>3, <1>6, <2>1 DEF ReturnShared, LocalOf
  <2>3. /\ var' = [var EXCEPT ![p] = @ \cup {o}] /\ cur' = [cur EXCEPT ![p] = NoObj]
        /\ held' = [held EXCEPT ![p] = @ \cup {o}] \/ UNCHANGED held
        /\ used' = [used EXCEPT ![p] = @ \cup {o}] \/ UNCHANGED used
    BY <1>6, <2>1 DEF ReturnShared, CopyAndUse
  <2>7. PICK l \in {"command", "gc"} : pc' = [pc EXCEPT ![p] = l]
    BY <1>6 DEF ReturnShared, Goto
  <2>4. LocalTypes' /\ LocalFrame(p)
    <3>1. LocalFrame(p)
      BY <1>1, <1>2, <2>2, <2>3, <2>7 DEF LocalTypes, LocalFrame
    <3>2. held' \in [Proc -> SUBSET Obj] /\ used' \in [Proc -> SUBSET Obj]
      <4>1. o \in Obj /\ held \in [Proc -> SUBSET Obj] /\ used \in [Proc -> SUBSET Obj]
        BY <1>1, <2>2 DEF LocalTypes
      <4>2. held' \in [Proc -> SUBSET Obj]
        BY <2>3, <4>1
      <4>3. used' \in [Proc -> SUBSET Obj]
        BY <2>3, <4>1
      <4> QED
        BY <4>2, <4>3
    <3>3. var' \in [Proc -> SUBSET Obj] /\ cur' \in [Proc -> Obj \cup {NoObj}]
      BY <1>1, <2>2, <2>3 DEF LocalTypes
    <3> QED
      BY <1>1, <1>2, <2>2, <3>1, <3>2, <3>3 DEF LocalTypes
  <2>5. /\ var'[p] = var[p] \cup {o} /\ pc'[p] \in {"command", "gc"}
        /\ held'[p] \subseteq held[p] \cup {o} /\ used'[p] \subseteq used[p] \cup {o}
    BY <1>1, <2>3, <2>7 DEF LocalTypes
  <2>6. LocalOf(p)'
    BY <1>1, <1>2, <1>3, <2>2, <2>5 DEF LocalOf, At, DetachPC
  <2> QED
    BY <2>4, <2>6, LocalSame
<1> QED
  BY <1>4, <1>5, <1>6

(* A variable found unused may have its segment collected.                 *)
LEMMA LocalGC ==
    ASSUME LockInv, LocalInv, NEW p \in Proc, CleanVariableList(p)
    PROVE  LocalInv'
<1>1. LocalTypes /\ LocalOf(p) /\ pc \in [Proc -> PC] /\ ret \in [Proc -> PC]
  BY LocalParts DEF LockInv
<1>2. pc[p] = "gc" /\ pc[p] \notin DetachPC /\ UNCHANGED <<local, rest, handles, var, held>>
  BY DEF CleanVariableList, DetachPC
<1>3. CASE Goto(p, "idle") /\ UNCHANGED <<used, cur, ret>>
  <2>1. /\ "idle" \in PC /\ "idle" # "out"
        /\ "idle" \notin DetachPC \cup {"add", "return", "clean", "stale", "walk", "use"}
    BY DEF PC, DetachPC
  <2> QED
    BY <1>1, <1>2, <1>3, <2>1, LocalGoto
<1>4. ASSUME NEW o \in var[p], used' = [used EXCEPT ![p] = @ \ {o}],
             \/ /\ cur' = [cur EXCEPT ![p] = o] /\ ret' = [ret EXCEPT ![p] = "gc"]
                /\ Goto(p, "collect")
             \/ UNCHANGED <<cur, ret, pc>>
      PROVE  LocalInv'
  <2>1. o \in Obj /\ handles[p] = ToSet(local[p]) /\ o \in ToSet(local[p])
    BY <1>1, <1>2, <1>4 DEF LocalTypes, LocalOf
  <2>2. used'[p] = used[p] \ {o} /\ used' \in [Proc -> SUBSET Obj]
    BY <1>1, <1>4 DEF LocalTypes
  <2>3. CASE UNCHANGED <<cur, ret, pc>>
    <3>1. LocalTypes' /\ LocalFrame(p)
      BY <1>1, <1>2, <1>4, <2>2, <2>3 DEF LocalTypes, LocalFrame
    <3>2. LocalOf(p)'
      BY <1>1, <1>2, <2>2, <2>3 DEF LocalOf, At
    <3> QED
      BY <3>1, <3>2, LocalSame
  <2>4. CASE cur' = [cur EXCEPT ![p] = o] /\ ret' = [ret EXCEPT ![p] = "gc"] /\ Goto(p, "collect")
    <3>1. LocalTypes' /\ LocalFrame(p)
      BY <1>1, <1>2, <1>4, <2>1, <2>2, <2>4 DEF LocalTypes, LocalFrame, Goto
    <3>2. cur'[p] = o /\ ret'[p] = "gc" /\ pc'[p] = "collect"
      BY <1>1, <2>4 DEF LocalTypes, Goto
    <3>3. LocalOf(p)'
      BY <1>1, <1>2, <2>1, <2>2, <3>2 DEF LocalOf, At, DetachPC
    <3> QED
      BY <3>1, <3>3, LocalSame
  <2> QED
    BY <1>4, <2>3, <2>4
<1> QED
  BY <1>3, <1>4 DEF CleanVariableList

(* Clearing the first segment of the shared list, or one of the others.    *)
LEMMA LocalClearFirst ==
    ASSUME LockInv, LocalInv, TrackInv, ListInv, NEW p \in Proc,
           ClearFirst(p) \/ \E o \in Obj : ClearOne(p, o)
    PROVE  LocalInv'
<1>1. LocalTypes /\ LocalOf(p) /\ pc \in [Proc -> PC]
  BY LocalParts DEF LockInv
<1>2. /\ pc[p] \in {"clear_all", "clear"} /\ pc[p] \notin DetachPC
      /\ UNCHANGED <<var, used, held, rest>>
  BY DEF ClearFirst, ClearOne, DetachPC
<1>3. ASSUME NEW o \in ToSet(local[p]), NEW l \in {"clear_all", "clear"}, pc[p] = l,
             RemoveSegmentFromSharedList(p, o, RemoveNode(local[p], o)), CallDetach(p, o, l)
      PROVE  LocalInv'
  BY <1>2, <1>3, LocalClear
<1>4. CASE ClearFirst(p)
  <2>1. PICK o, objs : o = NodeOf(p, first_seg_num) /\ objs = Unopened(p, first_seg_num)
    OBVIOUS
  <2>2. first_seg_num # NoSeg /\ pc[p] = "clear_all"
    BY <1>4 DEF ClearFirst
  <2>3. /\ o = names[first_seg_num] /\ objs = (IF o \in ToSet(local[p]) THEN <<>> ELSE <<o>>)
        /\ CanOpen(objs) => Opens(p, objs)
    BY <1>2, <2>1, <2>2, LastOpens
  <2>4. CASE objs # <<>>
    <3>1. /\ CanOpen(objs) /\ handles' = [handles EXCEPT ![p] = @ \cup ToSet(objs)]
          /\ local' = [local EXCEPT ![p] = @ \o objs] /\ UNCHANGED <<pc, cur, ret>>
      BY <1>4, <2>1, <2>4 DEF ClearFirst
    <3>2. PICK s, S : s = local[p] \o objs /\ S = ToSet(objs)
      OBVIOUS
    <3>3. s \in Seq(Obj) /\ IsInjective(s) /\ ToSet(s) = ToSet(local[p]) \cup S /\ S \in SUBSET Obj
      BY <1>2, <2>3, <3>1, <3>2, OpenLocal
    <3>4. /\ local' = [local EXCEPT ![p] = s] /\ handles' = [handles EXCEPT ![p] = @ \cup S]
          /\ pc' = [pc EXCEPT ![p] = "clear_all"] /\ UNCHANGED <<var, used, held, ret>>
          /\ pc \in [Proc -> PC] /\ pc[p] \notin DetachPC
      BY <1>1, <1>2, <2>2, <3>1, <3>2
    <3>5. /\ rest[p] \in Seq(Obj) /\ rest' = [rest EXCEPT ![p] = rest[p]]
          /\ cur[p] \in Obj \cup {NoObj} /\ cur' = [cur EXCEPT ![p] = cur[p]]
      BY <1>1, <1>2, <3>1 DEF LocalTypes
    <3>6. "clear_all" \in PC \ (DetachPC \cup {"out"})
      BY DEF PC, DetachPC
    <3> QED
      BY <3>3, <3>4, <3>5, <3>6, LocalGrow
  <2>5. CASE objs = <<>>
    <3>1. o \in ToSet(local[p])
      BY <2>3, <2>5
    <3>2. RemoveSegmentFromSharedList(p, o, RemoveNode(local[p], o)) /\ CallDetach(p, o, "clear_all")
      BY <1>4, <2>1, <2>5 DEF ClearFirst
    <3> QED
      BY <1>3, <2>2, <3>1, <3>2
  <2> QED
    BY <2>4, <2>5
<1>5. CASE \E o \in Obj : ClearOne(p, o)
  BY <1>3, <1>5 DEF ClearOne
<1> QED
  BY <1>4, <1>5

(* Leaving (msh_OnExit), and beginning a command.                          *)
LEMMA LocalUser ==
    ASSUME LockInv, LocalInv, NEW p \in Proc, OnExit(p) \/ User(p)
    PROVE  LocalInv'
<1>1. LocalTypes /\ LocalOf(p) /\ pc \in [Proc -> PC] /\ ret \in [Proc -> PC]
  BY LocalParts DEF LockInv
<1>2. local[p] \in Seq(Obj) /\ IsInjective(local[p])
  BY <1>1 DEF LocalTypes, LocalOf
<1>3. CASE OnExit(p)
  <2>1. pc[p] \in {"idle", "exit"} /\ pc[p] \notin DetachPC /\ UNCHANGED <<handles, var, used, held, rest>>
    BY <1>3 DEF OnExit, DetachPC
  <2>2. CASE local[p] = <<>>
    <3>1. Goto(p, "out") /\ UNCHANGED <<local, cur, ret>>
      BY <1>3, <2>2 DEF OnExit
    <3>2. /\ "out" \in PC
          /\ "out" \notin DetachPC \cup {"add", "return", "clean", "stale", "walk", "use"}
      BY DEF PC, DetachPC
    <3> QED
      BY <1>1, <2>1, <2>2, <3>1, <3>2, LocalGoto
  <2>3. CASE local[p] # <<>>
    <3>1. PICK o, s, S : o = Head(local[p]) /\ s = Tail(local[p]) /\ S = {}
      OBVIOUS
    <3>2. /\ s \in Seq(Obj) /\ IsInjective(s) /\ o \in ToSet(local[p])
          /\ ToSet(s) = (ToSet(local[p]) \cup S) \ {o} /\ S \in SUBSET Obj
      BY <1>2, <2>3, <3>1, TailFact
    <3>3. /\ local' = [local EXCEPT ![p] = s] /\ CallDetach(p, o, "exit")
          /\ handles' = [handles EXCEPT ![p] = @ \cup S]
          /\ rest[p] \in Seq(Obj) /\ rest' = [rest EXCEPT ![p] = rest[p]]
      BY <1>1, <1>3, <2>1, <2>3, <3>1 DEF OnExit, LocalTypes
    <3>4. "exit" \in ReturnPC /\ "exit" \notin {"clean", "stale"}
      BY DEF ReturnPC
    <3> QED
      BY <1>1, <2>1, <3>2, <3>3, <3>4, LocalCallDetach
  <2> QED
    BY <2>2, <2>3
<1>4. ASSUME NEW c \in Commands, Call(p, c) PROVE LocalInv'
  <2>1. /\ pc' = [pc EXCEPT ![p] = "clean"] /\ rest' = [rest EXCEPT ![p] = local[p]]
        /\ UNCHANGED <<local, handles, cur, var, used, held, ret>>
        /\ pc[p] \notin DetachPC
    BY <1>4 DEF Call, Goto, DetachPC, proc
  <2>2. "clean" \in PC \ (DetachPC \cup {"out"})
    BY DEF PC, DetachPC
  <2> QED
    BY <1>1, <1>2, <2>1, <2>2, LocalLoop
<1>5. ASSUME NEW o \in Obj, DropCopy(p, o) PROVE LocalInv'
  <2>1. /\ pc[p] = "idle" /\ held' = [held EXCEPT ![p] = @ \ {o}]
        /\ UNCHANGED <<local, rest, handles, var, used, pc, cur, ret>>
    BY <1>5 DEF DropCopy
  <2>2. LocalTypes' /\ LocalFrame(p)
    BY <1>1, <2>1 DEF LocalTypes, LocalFrame
  <2>3. LocalOf(p)'
    BY <1>1, <2>1 DEF LocalTypes, LocalOf, At
  <2> QED
    BY <2>2, <2>3, LocalSame
<1> QED
  BY <1>3, <1>4, <1>5 DEF User

(* Bringing the list up to date starts with every segment unmet.           *)
LEMMA LocalUpdateAll ==
    ASSUME LockInv, LocalInv, NEW p \in Proc, FetchUpdate(p) \/ ClearUpdate(p)
    PROVE  LocalInv'
<1>1. LocalTypes /\ LocalOf(p) /\ pc \in [Proc -> PC]
  BY LocalParts DEF LockInv
<1>2. local[p] \in Seq(Obj) /\ IsInjective(local[p])
  BY <1>1 DEF LocalTypes, LocalOf
<1>3. /\ pc[p] \notin DetachPC /\ UNCHANGED <<local, handles, var, used, held, cur, ret>>
      /\ \/ \E l \in {"clear", "output"} : Goto(p, l) /\ UNCHANGED rest
         \/ pc' = [pc EXCEPT ![p] = "walk"] /\ rest' = [rest EXCEPT ![p] = local[p]]
  BY DEF FetchUpdate, ClearUpdate, UpdateAllSegments, AfterUpdate, Goto, DetachPC, proc
<1>4. CASE \E l \in {"clear", "output"} : Goto(p, l) /\ UNCHANGED rest
  <2>1. PICK l \in {"clear", "output"} : Goto(p, l) /\ UNCHANGED rest
    BY <1>4
  <2>2. l \in PC /\ l \notin DetachPC \cup {"add", "return", "clean", "stale", "walk", "use"} /\ l # "out"
    BY DEF PC, DetachPC
  <2> QED
    BY <1>1, <1>3, <2>1, <2>2, LocalGoto
<1>5. CASE pc' = [pc EXCEPT ![p] = "walk"] /\ rest' = [rest EXCEPT ![p] = local[p]]
  <2>1. "walk" \in PC \ (DetachPC \cup {"out"})
    BY DEF PC, DetachPC
  <2> QED
    BY <1>1, <1>2, <1>3, <1>5, <2>1, LocalLoop
<1> QED
  BY <1>3, <1>4, <1>5

(* Every step keeps what the processes know of their segments.             *)
LEMMA LocalNext ==
    ASSUME LockInv, LocalInv, TrackInv, ListInv, [Next]_vars
    PROVE  LocalInv'
<1>1. pc \in [Proc -> PC]
  BY DEF LockInv
<1>2. ASSUME NEW p \in Proc,
             OnError(p) \/ Config(p) \/ ReserveSize(p) \/ CreateFails(p)
             \/ AcquireForClear(p) \/ ReleaseAfterClear(p)
      PROVE  LocalInv'
  <2>1. /\ pc[p] \notin DetachPC
        /\ UNCHANGED <<local, rest, handles, var, used, held, cur, ret>>
    BY <1>2 DEF OnError, Config, ReserveSize, CreateFails, AcquireForClear, ReleaseAfterClear,
                proc, DetachPC
  <2>2. \E l \in {"idle", "gc", "error", "create", "clear_all", "command"} : Goto(p, l)
    BY <1>2 DEF OnError, Config, ReserveSize, CreateFails, AcquireForClear, ReleaseAfterClear
  <2>3. PICK l \in {"idle", "gc", "error", "create", "clear_all", "command"} : Goto(p, l)
    BY <2>2
  <2>4. l \in PC /\ l \notin DetachPC \cup {"add", "return", "clean", "stale", "walk", "use"} /\ l # "out"
    BY DEF PC, DetachPC
  <2> QED
    BY <1>1, <2>1, <2>3, <2>4, LocalGoto
<1>3. ASSUME NEW p \in Proc, Detach(p) PROVE LocalInv'
  BY <1>3, LocalDestroy, LocalRemove, LocalUntrack DEF Detach
<1>4. ASSUME NEW p \in Proc, Step(p) PROVE LocalInv'
  BY <1>2, <1>3, <1>4, LocalClean, LocalGC, LocalShare, LocalAdd, LocalWalk, LocalLatest,
     LocalCopies, LocalUpdateAll, LocalClearFirst DEF Step
<1>5. CASE UNCHANGED vars
  BY <1>5, LocalQuiet DEF vars, proc
<1> QED
  BY <1>2, <1>4, <1>5, LocalUser DEF Next

(* Nothing is open to begin with.                                          *)
LEMMA LocalInit == Init => LocalInv
<1> SUFFICES ASSUME Init PROVE LocalInv
  OBVIOUS
<1>1. <<>> \in Seq(Obj) /\ IsInjective(<<>>) /\ ToSet(<<>>) = {}
  BY ShortFact
<1> QED
  BY <1>1 DEF Init, LocalInv, At, DetachPC


------------------------------------------------------------------------------
(* Names, counters and open segments.                                      *)

(* There are no more trackers than processes, so the counter never wraps.  *)
LEMMA TrackersFinite ==
    ASSUME NEW T \in SUBSET Proc
    PROVE  /\ IsFiniteSet(T) /\ Cardinality(T) \in Nat /\ Cardinality(T) < CountMod
           /\ \A p \in Proc : p \notin T =>
                 /\ Cardinality(T \cup {p}) = Cardinality(T) + 1
                 /\ Cardinality(T) + 1 < CountMod
           /\ \A p \in T : Cardinality(T \ {p}) = Cardinality(T) - 1
           /\ (Cardinality(T) = 1 => \A p \in T : T = {p})
           /\ (T # {} => Cardinality(T) >= 1)
           /\ \A p \in Proc : Cardinality({p}) = 1
<1>1. IsFiniteSet(Proc) /\ Cardinality(Proc) \in Nat /\ Cardinality(Proc) < CountMod
  BY SegmentsAssumption, FS_CardinalityType
<1>2. /\ IsFiniteSet(T) /\ Cardinality(T) \in Nat /\ Cardinality(T) =< Cardinality(Proc)
  BY <1>1, FS_Subset, FS_CardinalityType
<1>3. ASSUME NEW p \in Proc, p \notin T
      PROVE  Cardinality(T \cup {p}) = Cardinality(T) + 1 /\ Cardinality(T) + 1 < CountMod
  <2>1. Cardinality(T \cup {p}) = Cardinality(T) + 1
    BY <1>2, <1>3, FS_AddElement
  <2>2. Cardinality(T \cup {p}) =< Cardinality(Proc)
    BY <1>1, <1>3, FS_Subset
  <2> QED
    BY <1>1, <1>2, <2>1, <2>2, CountModAssumption
<1>4. \A p \in T : Cardinality(T \ {p}) = Cardinality(T) - 1
  BY <1>2, FS_RemoveElement
<1>5. Cardinality(T) = 1 => \A p \in T : T = {p}
  <2>1. Cardinality(T) = 1 => \E x : T = {x}
    BY <1>2, FS_Singleton
  <2> QED
    BY <2>1
<1>6. T # {} => Cardinality(T) >= 1
  BY <1>2, FS_EmptySet
<1>7. Cardinality(T) < CountMod
  BY <1>1, <1>2, CountModAssumption
<1>8. \A p \in Proc : Cardinality({p}) = 1
  BY FS_Singleton
<1> QED
  BY <1>2, <1>3, <1>4, <1>5, <1>6, <1>7, <1>8

(* What the others do not notice.                                          *)
TrackFrame(p) == \A q \in Proc : q # p => pc'[q] = pc[q] /\ cur'[q] = cur[q]

(* Opening the segments in S.                                              *)
LEMMA TrackOpen ==
    ASSUME TrackInv, NEW p \in Proc, TrackFrame(p),
           UNCHANGED <<names, number, orphans>>,
           handles \in [Proc -> SUBSET Obj],
           NEW S \in SUBSET Obj, handles' = [handles EXCEPT ![p] = @ \cup S],
           S \cap handles[p] = {},
           procs_tracking' \in [Obj -> Counter],
           \A o \in Obj : procs_tracking'[o] = IF o \in S THEN IncrementCounter(procs_tracking[o])
                                               ELSE procs_tracking[o],
           \A o \in S : names[number[o]] = o /\ ~procs_tracking[o].flag /\ o \notin orphans,
           pc[p] \notin {"unlink", "post"}, pc'[p] \notin {"unlink", "post"}
    PROVE  TrackInv'
<1>1. \A o \in Obj : Trackers(o)' = IF o \in S THEN Trackers(o) \cup {p} ELSE Trackers(o)
  BY DEF Trackers
<1>2. \A o \in Obj : Tracked(o) => Tracked(o)'
  BY DEF Tracked
<1>3. \A o \in Obj : Tracked(o)' => Tracked(o) \/ o \in S
  BY DEF Tracked
<1>4. \A o \in Obj : Named(o)' <=> Named(o)
  BY DEF Named
<1>5. \A o \in S : Named(o)
  BY DEF Named, TrackInv
<1>6. \A o \in Obj : procs_tracking'[o].flag = procs_tracking[o].flag
  BY DEF TrackInv, IncrementCounter, Counter
<1>7. ASSUME NEW o \in S
      PROVE  procs_tracking'[o].count = Cardinality(Trackers(o)')
  <2>1. Trackers(o) \in SUBSET Proc /\ p \notin Trackers(o)
    BY DEF Trackers
  <2>2. procs_tracking[o].count = Cardinality(Trackers(o))
    BY <1>5 DEF TrackInv
  <2>3. procs_tracking'[o].count = (Cardinality(Trackers(o)) + 1) % CountMod
    BY <2>2 DEF TrackInv, IncrementCounter, Counter
  <2>4. /\ Cardinality(Trackers(o)) \in Nat
        /\ Cardinality(Trackers(o) \cup {p}) = Cardinality(Trackers(o)) + 1
        /\ Cardinality(Trackers(o)) + 1 < CountMod
    BY <2>1, TrackersFinite
  <2>5. (Cardinality(Trackers(o)) + 1) % CountMod = Cardinality(Trackers(o)) + 1
    BY <2>4, CountModAssumption
  <2> QED
    BY <1>1, <2>3, <2>4, <2>5
<1>8. TrackedIsPinned'
  <2> SUFFICES ASSUME NEW q \in Proc, NEW o \in handles'[q]
               PROVE  names[number[o]] = o \/ (pc'[q] = "post" /\ cur'[q] = o)
    BY DEF TrackedIsPinned
  <2>1. CASE q = p
    BY <2>1 DEF TrackInv, TrackedIsPinned
  <2>2. CASE q # p
    BY <2>2 DEF TrackInv, TrackedIsPinned, TrackFrame
  <2> QED
    BY <2>1, <2>2
<1>9. ASSUME NEW q \in Proc, pc'[q] \in {"unlink", "post"}
      PROVE  /\ procs_tracking'[cur'[q]].flag /\ Trackers(cur[q])' = {q}
             /\ pc'[q] = "post" => names[number[cur'[q]]] # cur'[q]
  <2>1. q # p /\ pc'[q] = pc[q] /\ cur'[q] = cur[q]
    BY <1>9 DEF TrackFrame
  <2>2. procs_tracking[cur[q]].flag /\ Trackers(cur[q]) = {q} /\ cur[q] \in Obj
    BY <1>9, <2>1 DEF TrackInv, Trackers
  <2>3. cur[q] \notin S
    BY <2>2
  <2>4. procs_tracking'[cur'[q]].flag
    BY <1>6, <2>1, <2>2
  <2>5. Trackers(cur[q])' = {q}
    BY <2>1, <2>2, <2>3 DEF Trackers
  <2>6. pc'[q] = "post" => names[number[cur'[q]]] # cur'[q]
    BY <2>1 DEF TrackInv
  <2> QED
    BY <2>4, <2>5, <2>6
<1>10. ASSUME NEW o \in Obj, (Named(o) \/ Tracked(o))', procs_tracking'[o].flag
       PROVE  \E q \in Proc : pc'[q] \in {"unlink", "post"} /\ cur'[q] = o
  <2>1. (Named(o) \/ Tracked(o)) /\ procs_tracking[o].flag
    BY <1>3, <1>4, <1>5, <1>6, <1>10
  <2>2. PICK q \in Proc : pc[q] \in {"unlink", "post"} /\ cur[q] = o
    BY <2>1 DEF TrackInv
  <2> QED
    BY <2>2 DEF TrackFrame
<1>11. ASSUME NEW o \in Obj, (Named(o) \/ Tracked(o))', ~procs_tracking'[o].flag
       PROVE  procs_tracking'[o].count = Cardinality(Trackers(o)')
  <2>1. CASE o \in S
    BY <1>7, <2>1
  <2>2. CASE o \notin S
    <3>1. (Named(o) \/ Tracked(o)) /\ ~procs_tracking[o].flag
      BY <1>3, <1>4, <1>6, <1>11, <2>2
    <3> QED
      BY <1>1, <2>2, <3>1 DEF TrackInv
  <2> QED
    BY <2>1, <2>2
<1>12. \A o \in orphans : names[number[o]] = o /\ ~Tracked(o)'
  BY <1>3 DEF TrackInv
<1>13. \A k \in SegNum : names[k] \in Obj \ orphans => Tracked(names[k])'
  BY <1>2 DEF TrackInv
<1>14. /\ names' \in [SegNum -> Obj \cup {NoObj}] /\ number' \in [Obj -> SegNum]
       /\ orphans' \subseteq Obj
       /\ \A k \in SegNum : names'[k] # NoObj => number'[names'[k]] = k
  BY DEF TrackInv
<1> QED
  BY <1>8, <1>9, <1>10, <1>11, <1>12, <1>13, <1>14 DEF TrackInv

(* A tracker that is not the last one closes the segment.                  *)
LEMMA TrackUntrack ==
    ASSUME LocalInv, TrackInv, NEW p \in Proc, TrackFrame(p),
           UNCHANGED <<names, number, orphans>>, pc[p] = "untrack",
           ~(~procs_tracking[cur[p]].flag /\ procs_tracking[cur[p]].count = 1),
           procs_tracking' = [procs_tracking EXCEPT
                                 ![cur[p]] = DecrementCounter(procs_tracking[cur[p]], FALSE)],
           handles' = [handles EXCEPT ![p] = @ \ {cur[p]}],
           pc'[p] \notin {"unlink", "post"}
    PROVE  /\ TrackInv'
           /\ \A o \in Obj : (Tracked(o)' <=> Tracked(o))
                /\ procs_tracking'[o].flag = procs_tracking[o].flag
<1>1. PICK x : x = cur[p]
  OBVIOUS
<1>2. LocalTypes /\ LocalOf(p)
  BY LocalParts
<1>3. x \in handles[p] /\ x \in Obj /\ handles \in [Proc -> SUBSET Obj]
  BY <1>1, <1>2 DEF LocalTypes, LocalOf, DetachPC
<1>4. Tracked(x) /\ p \in Trackers(x)
  BY <1>3 DEF Tracked, Trackers
<1>5. ~procs_tracking[x].flag
  <2> SUFFICES ASSUME procs_tracking[x].flag PROVE FALSE
    OBVIOUS
  <2>1. PICK q \in Proc : pc[q] \in {"unlink", "post"} /\ cur[q] = x
    BY <1>3, <1>4 DEF TrackInv
  <2>2. Trackers(x) = {q}
    BY <2>1 DEF TrackInv
  <2> QED
    BY <1>4, <2>1, <2>2
<1>6. procs_tracking[x].count = Cardinality(Trackers(x)) /\ procs_tracking[x].count # 1
  BY <1>1, <1>3, <1>4, <1>5 DEF TrackInv
<1>7. Trackers(x) \in SUBSET Proc
  BY DEF Trackers
<1>8. /\ Cardinality(Trackers(x)) \in Nat /\ Cardinality(Trackers(x)) > 1
      /\ Cardinality(Trackers(x)) < CountMod
      /\ Cardinality(Trackers(x) \ {p}) = Cardinality(Trackers(x)) - 1
  BY <1>4, <1>6, <1>7, TrackersFinite
<1>9. \A o \in Obj : Trackers(o)' = IF o = x THEN Trackers(o) \ {p} ELSE Trackers(o)
  BY <1>1, <1>3 DEF Trackers
<1>10. (Cardinality(Trackers(x)) - 1) % CountMod = Cardinality(Trackers(x)) - 1
  BY <1>8, CountModAssumption
<1>11. /\ procs_tracking' \in [Obj -> Counter]
       /\ \A o \in Obj : /\ procs_tracking'[o].flag = procs_tracking[o].flag
                         /\ o # x => procs_tracking'[o] = procs_tracking[o]
       /\ procs_tracking'[x].count = Cardinality(Trackers(x)')
  <2>1. PICK c : c = procs_tracking[x]
    OBVIOUS
  <2>2. PICK n : n = Cardinality(Trackers(x)) - 1
    OBVIOUS
  <2>3. c \in Counter /\ procs_tracking \in [Obj -> Counter]
    BY <1>3, <2>1 DEF TrackInv
  <2>4. c.count - 1 = n
    BY <1>6, <2>1, <2>2
  <2>5. n % CountMod = n /\ n \in 0 .. (CountMod - 1)
    BY <1>8, <1>10, <2>2, CountModAssumption
  <2>6. DecrementCounter(c, FALSE) = [c EXCEPT !.count = n]
    BY <2>3, <2>4, <2>5 DEF DecrementCounter, Counter
  <2>7. PICK d : d = [c EXCEPT !.count = n]
    OBVIOUS
  <2>8. d \in Counter /\ d.flag = c.flag /\ d.count = n
    BY <2>3, <2>5, <2>7 DEF Counter
  <2>9. procs_tracking' = [procs_tracking EXCEPT ![x] = d]
    BY <1>1, <2>1, <2>6, <2>7
  <2>10. procs_tracking' \in [Obj -> Counter] /\ procs_tracking'[x] = d
         /\ \A o \in Obj : o # x => procs_tracking'[o] = procs_tracking[o]
    BY <1>3, <2>3, <2>8, <2>9
  <2>11. Cardinality(Trackers(x)') = n
    BY <1>3, <1>8, <1>9, <2>2
  <2> QED
    BY <2>1, <2>8, <2>10, <2>11
<1>12. /\ \A o \in Obj : Tracked(o)' <=> Tracked(o)
       /\ \A o \in Obj : Named(o)' <=> Named(o)
  <2>1. Tracked(x)'
    <3>1. Trackers(x) # {p}
      BY <1>6, TrackersFinite
    <3>2. PICK q \in Trackers(x) : q # p
      BY <1>4, <3>1
    <3> QED
      BY <1>9, <1>3, <3>2 DEF Trackers, Tracked
  <2>2. \A o \in Obj : o # x => (Tracked(o)' <=> Tracked(o))
    BY <1>1, <1>3 DEF Tracked
  <2> QED
    BY <1>4, <2>1, <2>2 DEF Named
<1>13. \A q \in Proc : pc'[q] \in {"unlink", "post"} \/ pc[q] \in {"unlink", "post"} =>
          q # p /\ pc'[q] = pc[q] /\ cur'[q] = cur[q]
  BY DEF TrackFrame
<1>14. TrackedIsPinned'
  BY <1>1, <1>3, <1>13 DEF TrackInv, TrackedIsPinned
<1>15. ASSUME NEW q \in Proc, pc'[q] \in {"unlink", "post"}
       PROVE  /\ procs_tracking'[cur'[q]].flag /\ Trackers(cur[q])' = {q} /\ cur'[q] = cur[q]
              /\ pc'[q] = "post" => names[number[cur'[q]]] # cur'[q]
  <2>1. procs_tracking[cur[q]].flag /\ Trackers(cur[q]) = {q} /\ q # p
        /\ pc'[q] = pc[q] /\ cur'[q] = cur[q] /\ cur[q] \in Obj
    BY <1>13, <1>15, <1>3 DEF TrackInv, Trackers
  <2>2. cur[q] # x
    BY <1>4, <2>1
  <2>3. Trackers(cur[q])' = {q} /\ procs_tracking'[cur[q]].flag
    BY <1>9, <1>11, <2>1, <2>2
  <2> QED
    BY <2>1, <2>3 DEF TrackInv
<1>16. ASSUME NEW o \in Obj, (Named(o) \/ Tracked(o))', procs_tracking'[o].flag
       PROVE  \E q \in Proc : pc'[q] \in {"unlink", "post"} /\ cur'[q] = o
  <2>1. PICK q \in Proc : pc[q] \in {"unlink", "post"} /\ cur[q] = o
    BY <1>11, <1>12, <1>16 DEF TrackInv
  <2> QED
    BY <1>13, <2>1
<1>17. ASSUME NEW o \in Obj, (Named(o) \/ Tracked(o))', ~procs_tracking'[o].flag
       PROVE  procs_tracking'[o].count = Cardinality(Trackers(o)')
  <2>1. CASE o = x
    BY <1>11, <2>1
  <2>2. CASE o # x
    <3>1. procs_tracking'[o] = procs_tracking[o] /\ Trackers(o)' = Trackers(o)
      BY <1>9, <1>11, <2>2
    <3>2. procs_tracking[o].count = Cardinality(Trackers(o))
      BY <1>12, <1>17, <3>1 DEF TrackInv
    <3> QED
      BY <3>1, <3>2
  <2> QED
    BY <2>1, <2>2
<1>18. /\ \A o \in orphans' : names'[number'[o]] = o /\ ~Tracked(o)'
       /\ \A k \in SegNum : names'[k] \in Obj \ orphans' => Tracked(names[k])'
       /\ names' \in [SegNum -> Obj \cup {NoObj}] /\ number' \in [Obj -> SegNum]
       /\ orphans' \subseteq Obj
       /\ \A k \in SegNum : names'[k] # NoObj => number'[names'[k]] = k
  BY <1>12 DEF TrackInv
<1>19. TrackInv'
  BY <1>11, <1>14, <1>15, <1>16, <1>17, <1>18 DEF TrackInv
<1> QED
  BY <1>11, <1>12, <1>19

(* Every step moves at most its own process.                               *)
LEMMA ControlFrame ==
    ASSUME LockInv, LocalInv, NEW p \in Proc,
           Step(p) \/ User(p) \/ CreateFails(p) \/ OnExit(p)
    PROVE  TrackFrame(p)
<1>1. pc \in [Proc -> PC] /\ cur \in [Proc -> Obj \cup {NoObj}]
  BY DEF LockInv, LocalInv
<1>2. CASE (\E l : pc' = [pc EXCEPT ![p] = l]) /\ (\E o : cur' = [cur EXCEPT ![p] = o])
  <2>1. PICK l, o : pc' = [pc EXCEPT ![p] = l] /\ cur' = [cur EXCEPT ![p] = o]
    BY <1>2
  <2> QED
    BY <1>1, <2>1 DEF TrackFrame
<1>3. /\ UNCHANGED pc => \E l : pc' = [pc EXCEPT ![p] = l]
      /\ UNCHANGED cur => \E o : cur' = [cur EXCEPT ![p] = o]
  <2>1. UNCHANGED pc => pc' = [pc EXCEPT ![p] = pc[p]]
    BY <1>1
  <2>2. UNCHANGED cur => cur' = [cur EXCEPT ![p] = cur[p]]
    BY <1>1
  <2> QED
    BY <2>1, <2>2
<1>4. ASSUME NEW o, NEW l, CallDetach(p, o, l) PROVE TrackFrame(p)
  BY <1>2, <1>4 DEF CallDetach, Goto
<1>5. ASSUME Detached(p) PROVE TrackFrame(p)
  BY <1>2, <1>5 DEF Detached, Goto
<1>6. CASE Detach(p)
  <2>1. CASE DestroyVariable(p) \/ Collect(p) \/ RemoveLast(p) \/ CompareSwap(p) \/ UnlinkSegment(p)
    BY <1>2, <1>3, <2>1 DEF DestroyVariable, Collect, RemoveLast, CompareSwap, UnlinkSegment, Goto
  <2>2. CASE Untrack(p) \/ PostAndSubtract(p)
    BY <1>2, <1>3, <1>5, <2>2 DEF Untrack, PostAndSubtract, Goto
  <2> QED
    BY <1>6, <2>1, <2>2 DEF Detach
<1>7. CASE CleanSegmentList(p) \/ CleanVariableList(p) \/ OnError(p) \/ Config(p) \/ OnExit(p)
  BY <1>2, <1>3, <1>4, <1>7 DEF CleanSegmentList, CleanVariableList, OnError, Config, OnExit, Goto
<1>8. CASE ReserveSize(p) \/ CreateSegment(p) \/ AddSegmentToSharedList(p) \/ ReturnShared(p) \/ CreateFails(p)
  <2>1. CASE ReserveSize(p) \/ CreateSegment(p) \/ CreateFails(p)
    BY <1>2, <1>3, <2>1 DEF ReserveSize, CreateSegment, CreateFails, Goto
  <2>2. CASE AddSegmentToSharedList(p)
    BY <1>2, <1>3, <1>4, <2>2 DEF AddSegmentToSharedList, Goto
  <2>3. CASE ReturnShared(p)
    BY <1>2, <2>3 DEF ReturnShared, Goto
  <2> QED
    BY <1>8, <2>1, <2>2, <2>3
<1>9. CASE WalkSharedList(p) \/ UpdateLatestSegment(p) \/ OpenLatest(p)
  BY <1>2, <1>3, <1>9 DEF WalkSharedList, UpdateLatestSegment, OpenLatest, Goto
<1>10. CASE DetachStale(p) \/ FetchUpdate(p) \/ ClearUpdate(p)
  BY <1>2, <1>3, <1>4, <1>10 DEF DetachStale, FetchUpdate, ClearUpdate, UpdateAllSegments, Goto
<1>11. CASE CreateOutputs(p) \/ UseOutput(p) \/ AcquireForClear(p) \/ ReleaseAfterClear(p)
  BY <1>2, <1>3, <1>11 DEF CreateOutputs, UseOutput, AcquireForClear, ReleaseAfterClear, Goto
<1>12. CASE ClearFirst(p) \/ (\E o \in Obj : ClearOne(p, o))
  BY <1>2, <1>3, <1>4, <1>12 DEF ClearFirst, ClearOne
<1>13. CASE User(p)
  BY <1>2, <1>3, <1>13 DEF User, Call, DropCopy, Goto
<1> QED
  BY <1>6, <1>7, <1>8, <1>9, <1>10, <1>11, <1>12, <1>13 DEF Step

(* A step that at most opens segments found by name.                       *)
Opening(p) ==
    /\ UNCHANGED <<names, number, orphans>>
    /\ pc[p] \notin {"unlink", "post"} /\ pc'[p] \notin {"unlink", "post"}
    /\ \E objs : /\ Opens(p, objs)
                 /\ procs_tracking' = Opened(objs)
                 /\ handles' = [handles EXCEPT ![p] = @ \cup ToSet(objs)]

(* ... or not even that.                                                   *)
LEMMA OpeningNothing ==
    ASSUME LocalInv, TrackInv, NEW p \in Proc,
           UNCHANGED <<names, number, orphans, handles, procs_tracking>>,
           pc[p] \notin {"unlink", "post"}, pc'[p] \notin {"unlink", "post"}
    PROVE  Opening(p)
<1>1. PICK objs : objs = <<>>
  OBVIOUS
<1>2. objs \in Seq(Obj) /\ IsInjective(objs) /\ ToSet(objs) = {}
  BY <1>1, ShortFact
<1>3. Opens(p, objs)
  BY <1>2 DEF Opens
<1>4. procs_tracking' = Opened(objs)
  BY <1>2 DEF Opened, TrackInv
<1>5. handles' = [handles EXCEPT ![p] = @ \cup ToSet(objs)]
  BY <1>2 DEF LocalInv
<1> QED
  BY <1>3, <1>4, <1>5 DEF Opening

(* Opening segments keeps the names and counts in agreement.               *)
LEMMA TrackOpening ==
    ASSUME LocalInv, TrackInv, NEW p \in Proc, TrackFrame(p), Opening(p)
    PROVE  TrackInv'
<1>1. PICK objs : /\ Opens(p, objs)
                  /\ procs_tracking' = Opened(objs)
                  /\ handles' = [handles EXCEPT ![p] = @ \cup ToSet(objs)]
  BY DEF Opening
<1>2. PICK S : S = ToSet(objs)
  OBVIOUS
<1>3. /\ UNCHANGED <<names, number, orphans>> /\ handles \in [Proc -> SUBSET Obj]
      /\ pc[p] \notin {"unlink", "post"} /\ pc'[p] \notin {"unlink", "post"}
  BY DEF Opening, LocalInv
<1>4. S \in SUBSET Obj /\ S \cap handles[p] = {}
      /\ \A o \in S : names[number[o]] = o /\ ~procs_tracking[o].flag /\ o \notin orphans
  BY <1>1, <1>2, LenProperties DEF Opens, ToSet
<1>5. \A o \in Obj : procs_tracking'[o] = IF o \in S THEN IncrementCounter(procs_tracking[o])
                                          ELSE procs_tracking[o]
  BY <1>1, <1>2 DEF Opened
<1>6. procs_tracking' \in [Obj -> Counter]
  <2>1. \A c \in Counter : IncrementCounter(c) \in Counter
    BY CountModAssumption DEF IncrementCounter, Counter
  <2> QED
    BY <1>1, <2>1 DEF Opened, TrackInv
<1>7. handles' = [handles EXCEPT ![p] = @ \cup S]
  BY <1>1, <1>2
<1> QED
  BY <1>3, <1>4, <1>5, <1>6, <1>7, TrackOpen

(* The steps that leave names, counters and open segments alone.           *)
LEMMA QuietSteps ==
    ASSUME LockInv, LocalInv, TrackInv, NEW p \in Proc, UNCHANGED orphans,
           \/ DestroyVariable(p) \/ CleanSegmentList(p) \/ CleanVariableList(p) \/ OnError(p)
           \/ Config(p) \/ OnExit(p) \/ ReserveSize(p) \/ ReturnShared(p) \/ DetachStale(p)
           \/ UpdateLatestSegment(p) \/ FetchUpdate(p) \/ ClearUpdate(p)
           \/ CreateOutputs(p) \/ UseOutput(p) \/ AcquireForClear(p) \/ ReleaseAfterClear(p)
           \/ User(p)
    PROVE  Opening(p)
<1>1. pc \in [Proc -> PC]
  BY DEF LockInv
<1>2. ASSUME UNCHANGED <<names, number, handles, procs_tracking>>,
             NEW k, k \notin {"unlink", "post"}, pc[p] = k,
             NEW l, l \notin {"unlink", "post"}, pc'[p] = l
      PROVE  Opening(p)
  BY <1>2, OpeningNothing
<1>3. CASE UNCHANGED <<names, number, handles, procs_tracking>>
           /\ \E l : pc' = [pc EXCEPT ![p] = l] /\ l \notin {"unlink", "post"}
           /\ pc[p] \notin {"unlink", "post"}
  BY <1>1, <1>2, <1>3
<1>4. ASSUME NEW o, NEW l, CallDetach(p, o, l)
      PROVE  \E k : pc' = [pc EXCEPT ![p] = k] /\ k \notin {"unlink", "post"}
  <2>1. pc' = [pc EXCEPT ![p] = DetachEntry(p, o)]
    BY <1>4 DEF CallDetach, Goto
  <2>2. DetachEntry(p, o) \notin {"unlink", "post"}
    BY DEF DetachEntry
  <2> QED
    BY <2>1, <2>2
<1>5. ASSUME UNCHANGED pc, pc[p] \notin {"unlink", "post"}
      PROVE  \E l : pc' = [pc EXCEPT ![p] = l] /\ l \notin {"unlink", "post"}
  <2>1. pc' = [pc EXCEPT ![p] = pc[p]]
    BY <1>1, <1>5
  <2> QED
    BY <1>5, <2>1
<1>6. CASE DestroyVariable(p) \/ CleanVariableList(p) \/ CleanSegmentList(p)
  <2>1. UNCHANGED <<names, number, handles, procs_tracking>> /\ pc[p] \notin {"unlink", "post"}
    BY <1>6 DEF DestroyVariable, CleanVariableList, CleanSegmentList, memory
  <2>2. \E l : pc' = [pc EXCEPT ![p] = l] /\ l \notin {"unlink", "post"}
    BY <1>4, <1>5, <1>6, <2>1 DEF DestroyVariable, CleanVariableList, CleanSegmentList, Goto
  <2> QED
    BY <1>3, <2>1, <2>2
<1>7. CASE OnError(p) \/ Config(p) \/ OnExit(p) \/ ReserveSize(p) \/ ReturnShared(p)
  <2>1. UNCHANGED <<names, number, handles, procs_tracking>> /\ pc[p] \notin {"unlink", "post"}
    BY <1>7 DEF OnError, Config, OnExit, ReserveSize, ReturnShared, memory
  <2>2. \E l : pc' = [pc EXCEPT ![p] = l] /\ l \notin {"unlink", "post"}
    BY <1>4, <1>7 DEF OnError, Config, OnExit, ReserveSize, ReturnShared, Goto
  <2> QED
    BY <1>3, <2>1, <2>2
<1>8. CASE DetachStale(p) \/ UpdateLatestSegment(p) \/ FetchUpdate(p) \/ ClearUpdate(p)
  <2>1. UNCHANGED <<names, number, handles, procs_tracking>> /\ pc[p] \notin {"unlink", "post"}
    BY <1>8 DEF DetachStale, UpdateLatestSegment, FetchUpdate, ClearUpdate, UpdateAllSegments, memory
  <2>2. \E l : pc' = [pc EXCEPT ![p] = l] /\ l \notin {"unlink", "post"}
    BY <1>4, <1>8 DEF DetachStale, UpdateLatestSegment, FetchUpdate, ClearUpdate,
                      UpdateAllSegments, AfterUpdate, Goto
  <2> QED
    BY <1>3, <2>1, <2>2
<1>9. CASE CreateOutputs(p) \/ UseOutput(p) \/ AcquireForClear(p) \/ ReleaseAfterClear(p)
  <2>1. UNCHANGED <<names, number, handles, procs_tracking>> /\ pc[p] \notin {"unlink", "post"}
    BY <1>9 DEF CreateOutputs, UseOutput, AcquireForClear, ReleaseAfterClear, memory
  <2>2. \E l : pc' = [pc EXCEPT ![p] = l] /\ l \notin {"unlink", "post"}
    BY <1>5, <1>9, <2>1 DEF CreateOutputs, UseOutput, AcquireForClear, ReleaseAfterClear, Goto
  <2> QED
    BY <1>3, <2>1, <2>2
<1>10. CASE User(p)
  <2>1. UNCHANGED <<names, number, handles, procs_tracking>> /\ pc[p] \notin {"unlink", "post"}
    BY <1>10 DEF User, Call, DropCopy, memory
  <2>2. \E l : pc' = [pc EXCEPT ![p] = l] /\ l \notin {"unlink", "post"}
    BY <1>5, <1>10, <2>1 DEF User, Call, DropCopy, Goto
  <2> QED
    BY <1>3, <2>1, <2>2
<1> QED
  BY <1>6, <1>7, <1>8, <1>9, <1>10

(* Taking a segment out of the shared list opens its neighbours.           *)
LEMMA OpeningRemove ==
    ASSUME LocalInv, TrackInv, ListInv, NEW p \in Proc, NEW o \in handles[p], NEW l,
           pc[p] \in DetachPC => cur[p] = o,
           UNCHANGED <<names, number, orphans>>,
           RemoveSegmentFromSharedList(p, o, l),
           pc[p] \notin {"unlink", "post"}, pc'[p] \notin {"unlink", "post"}
    PROVE  Opening(p)
<1>1. CASE is_invalid[o]
  <2>1. UNCHANGED <<handles, procs_tracking>>
    BY <1>1 DEF RemoveSegmentFromSharedList
  <2> QED
    BY <2>1, OpeningNothing
<1>2. CASE ~is_invalid[o]
  BY <1>2, RemoveOpens DEF Opening
<1> QED
  BY <1>1, <1>2

(* So do the other steps that work on the shared list.                     *)
LEMMA ListSteps ==
    ASSUME LockInv, LocalInv, TrackInv, ListInv, NEW p \in Proc, UNCHANGED orphans,
           \/ Collect(p) \/ RemoveLast(p) \/ AddSegmentToSharedList(p) \/ WalkSharedList(p)
           \/ OpenLatest(p) \/ ClearFirst(p) \/ \E o \in Obj : ClearOne(p, o)
    PROVE  Opening(p)
<1>1. pc \in [Proc -> PC] /\ LocalTypes /\ LocalOf(p)
  BY LocalParts DEF LockInv
<1>2. ASSUME NEW o, NEW l, CallDetach(p, o, l) PROVE pc'[p] \notin {"unlink", "post"}
  BY <1>1, <1>2 DEF CallDetach, Goto, DetachEntry
<1>3. CASE Collect(p) \/ RemoveLast(p)
  <2>1. /\ pc[p] \in DetachPC \ {"unlink", "post"} /\ pc'[p] \notin {"unlink", "post"}
        /\ UNCHANGED <<names, number>>
    BY <1>1, <1>3 DEF Collect, RemoveLast, Goto, DetachEntry, DetachPC, memory
  <2>2. cur[p] \in handles[p]
    BY <1>1, <2>1 DEF LocalOf
  <2>3. \E l : RemoveSegmentFromSharedList(p, cur[p], l)
    BY <1>3 DEF Collect, RemoveLast
  <2> QED
    BY <2>1, <2>2, <2>3, OpeningRemove
<1>4. ASSUME NEW o \in ToSet(local[p]), NEW l, RemoveSegmentFromSharedList(p, o, l),
             \E k : CallDetach(p, o, k), pc[p] \notin DetachPC, UNCHANGED <<names, number>>
      PROVE  Opening(p)
  <2>1. o \in handles[p]
    BY <1>1 DEF LocalOf
  <2>2. pc[p] \notin {"unlink", "post"} /\ pc'[p] \notin {"unlink", "post"}
    BY <1>2, <1>4 DEF DetachPC
  <2> QED
    BY <1>4, <2>1, <2>2, OpeningRemove
<1>5. CASE \E o \in Obj : ClearOne(p, o)
  <2>1. PICK o \in Obj : ClearOne(p, o)
    BY <1>5
  <2>2. /\ o \in ToSet(local[p]) /\ pc[p] \notin DetachPC /\ UNCHANGED <<names, number>>
        /\ RemoveSegmentFromSharedList(p, o, RemoveNode(local[p], o)) /\ CallDetach(p, o, "clear")
    BY <2>1 DEF ClearOne, DetachPC, memory
  <2> QED
    BY <1>4, <2>2
<1>6. CASE ClearFirst(p)
  <2>1. PICK o, objs : o = NodeOf(p, first_seg_num) /\ objs = Unopened(p, first_seg_num)
    OBVIOUS
  <2>2. /\ first_seg_num # NoSeg /\ pc[p] = "clear_all" /\ pc[p] \notin DetachPC
        /\ UNCHANGED <<names, number>>
    BY <1>6 DEF ClearFirst, DetachPC, memory
  <2>3. /\ o = names[first_seg_num] /\ objs = (IF o \in ToSet(local[p]) THEN <<>> ELSE <<o>>)
        /\ CanOpen(objs) => Opens(p, objs)
    BY <2>1, <2>2, LastOpens
  <2>4. CASE objs # <<>>
    <3>1. /\ CanOpen(objs) /\ handles' = [handles EXCEPT ![p] = @ \cup ToSet(objs)]
          /\ procs_tracking' = Opened(objs) /\ UNCHANGED pc
      BY <1>6, <2>1, <2>4 DEF ClearFirst
    <3> QED
      BY <2>2, <2>3, <3>1 DEF Opening
  <2>5. CASE objs = <<>>
    <3>1. o \in ToSet(local[p])
      BY <2>3, <2>5
    <3>2. RemoveSegmentFromSharedList(p, o, RemoveNode(local[p], o)) /\ CallDetach(p, o, "clear_all")
      BY <1>6, <2>1, <2>5 DEF ClearFirst
    <3> QED
      BY <1>4, <2>2, <3>1, <3>2
  <2> QED
    BY <2>4, <2>5
<1>7. CASE AddSegmentToSharedList(p)
  <2>1. pc[p] = "add" /\ pc[p] \notin DetachPC /\ UNCHANGED <<names, number>>
    BY <1>7 DEF AddSegmentToSharedList, DetachPC, memory
  <2>2. PICK objs : objs = IF first_seg_num = NoSeg THEN <<>> ELSE Unopened(p, last_seg_num)
    OBVIOUS
  <2>3. CanOpen(objs) => Opens(p, objs)
    <3>1. CASE first_seg_num = NoSeg
      BY <2>2, <3>1, ShortFact DEF Opens
    <3>2. CASE first_seg_num # NoSeg
      <4>1. last_seg_num # NoSeg
        BY <3>2, EndsFact
      <4>2. objs = Unopened(p, last_seg_num)
        BY <2>2, <3>2
      <4> QED
        BY <2>1, <4>1, <4>2, LastOpens
    <3> QED
      BY <3>1, <3>2
  <2>4. CASE CallDetach(p, cur[p], "error") /\ UNCHANGED <<procs_tracking, handles>>
    BY <1>2, <2>1, <2>4, OpeningNothing
  <2>5. CASE /\ CanOpen(objs) /\ procs_tracking' = Opened(objs)
             /\ handles' = [handles EXCEPT ![p] = @ \cup ToSet(objs)] /\ Goto(p, "return")
    <3>1. pc[p] \notin {"unlink", "post"} /\ pc'[p] \notin {"unlink", "post"}
      BY <1>1, <2>1, <2>5 DEF Goto
    <3> QED
      BY <2>1, <2>3, <2>5, <3>1 DEF Opening
  <2> QED
    BY <1>7, <2>2, <2>4, <2>5 DEF AddSegmentToSharedList
<1>8. CASE WalkSharedList(p)
  <2>1. /\ pc[p] = "walk" /\ pc[p] \notin DetachPC /\ UNCHANGED <<names, number>>
        /\ pc'[p] \notin {"unlink", "post"}
    BY <1>1, <1>8 DEF WalkSharedList, DetachPC, memory, Goto
  <2>2. CASE scan[p] = NoSeg
    <3>1. UNCHANGED <<handles, procs_tracking>>
      BY <1>8, <2>2 DEF WalkSharedList
    <3> QED
      BY <2>1, <3>1, OpeningNothing
  <2>3. CASE scan[p] # NoSeg
    <3>1. PICK objs : objs = Unopened(p, scan[p])
      OBVIOUS
    <3>2. scan[p] \in SegNum /\ names[scan[p]] \in Obj \ orphans /\ ~is_invalid[names[scan[p]]]
      BY <2>1, <2>3 DEF ListInv, Listed
    <3>3. CanOpen(objs) => Opens(p, objs)
      BY <2>1, <3>1, <3>2, UnopenedFact
    <3>4. /\ CanOpen(objs) /\ procs_tracking' = Opened(objs)
          /\ handles' = [handles EXCEPT ![p] = @ \cup ToSet(objs)]
      BY <1>8, <2>3, <3>1 DEF WalkSharedList
    <3> QED
      BY <2>1, <3>3, <3>4 DEF Opening
  <2> QED
    BY <2>2, <2>3
<1>9. CASE OpenLatest(p)
  <2>1. /\ pc[p] = "open_latest" /\ pc[p] \notin DetachPC /\ UNCHANGED <<names, number>>
        /\ pc'[p] \notin {"unlink", "post"}
    BY <1>1, <1>9 DEF OpenLatest, DetachPC, memory, Goto
  <2>2. CASE UNCHANGED <<handles, procs_tracking>>
    BY <2>1, <2>2, OpeningNothing
  <2>3. ASSUME NEW objs, objs = Unopened(p, last_seg_num), last_seg_num # NoSeg, CanOpen(objs),
               procs_tracking' = Opened(objs), handles' = [handles EXCEPT ![p] = @ \cup ToSet(objs)]
        PROVE  Opening(p)
    BY <2>1, <2>3, LastOpens DEF Opening
  <2> QED
    BY <1>9, <2>2, <2>3 DEF OpenLatest
<1> QED
  BY <1>3, <1>5, <1>6, <1>7, <1>8, <1>9

(* The last tracker of a segment raises its flag.                          *)
LEMMA TrackSwap ==
    ASSUME LocalInv, TrackInv, NEW p \in Proc, TrackFrame(p), pc[p] = "cas",
           NEW x \in Obj, x = cur[p], procs_tracking[x] = [ZeroCounter EXCEPT !.count = 1],
           procs_tracking' = [procs_tracking EXCEPT ![x] = [ZeroCounter EXCEPT !.flag = TRUE]],
           UNCHANGED <<names, number, orphans, handles>>, cur'[p] = x, pc'[p] = "unlink"
    PROVE  TrackInv'
<1>1. LocalOf(p)
  BY LocalParts
<1>2. x \in handles[p]
  BY <1>1 DEF LocalOf, DetachPC
<1>3. ~procs_tracking[x].flag /\ procs_tracking[x].count = 1
  BY DEF ZeroCounter
<1>4. Tracked(x) /\ p \in Trackers(x) /\ Trackers(x) \in SUBSET Proc
  BY <1>2 DEF Tracked, Trackers
<1>5. Trackers(x) = {p}
  <2>1. Cardinality(Trackers(x)) = 1
    BY <1>3, <1>4 DEF TrackInv
  <2> QED
    BY <1>4, <2>1, TrackersFinite
<1>6. /\ procs_tracking' \in [Obj -> Counter] /\ procs_tracking'[x].flag
      /\ \A o \in Obj : o # x => procs_tracking'[o] = procs_tracking[o]
  <2>1. PICK c : c = [ZeroCounter EXCEPT !.flag = TRUE]
    OBVIOUS
  <2>2. c \in Counter /\ c.flag
    <3>1. c = [count |-> 0, flag |-> TRUE, post |-> FALSE]
      BY <2>1 DEF ZeroCounter
    <3>2. 0 \in 0 .. (CountMod - 1)
      BY CountModAssumption
    <3> QED
      BY <3>1, <3>2 DEF Counter
  <2>3. procs_tracking' = [procs_tracking EXCEPT ![x] = c]
    BY <2>1
  <2> QED
    BY <2>2, <2>3 DEF TrackInv
<1>7. \A o : /\ Trackers(o)' = Trackers(o) /\ (Tracked(o)' <=> Tracked(o))
             /\ (Named(o)' <=> Named(o))
  BY DEF Trackers, Tracked, Named
<1>8. \A q \in Proc : q # p => pc'[q] = pc[q] /\ cur'[q] = cur[q]
  BY DEF TrackFrame
<1>9. \A q \in Proc : pc[q] \in {"unlink", "post"} => cur[q] # x /\ q # p
  BY <1>3 DEF TrackInv
<1>10. TrackedIsPinned'
  BY <1>8 DEF TrackInv, TrackedIsPinned
<1>11. ASSUME NEW q \in Proc, pc'[q] \in {"unlink", "post"}
       PROVE  /\ procs_tracking'[cur'[q]].flag /\ Trackers(cur[q])' = {q} /\ cur'[q] = cur[q]
              /\ pc'[q] = "post" => names[number[cur'[q]]] # cur'[q]
  <2>1. CASE q = p
    BY <1>5, <1>6, <1>7, <2>1
  <2>2. CASE q # p
    <3>1. pc[q] \in {"unlink", "post"} /\ cur'[q] = cur[q] /\ cur[q] # x /\ pc'[q] = pc[q]
      BY <1>8, <1>9, <1>11, <2>2
    <3>2. procs_tracking[cur[q]].flag /\ Trackers(cur[q]) = {q}
          /\ (pc[q] = "post" => names[number[cur[q]]] # cur[q])
      BY <3>1 DEF TrackInv
    <3>3. cur[q] \in Obj
      BY <3>2 DEF Trackers, LocalInv
    <3> QED
      BY <1>6, <1>7, <3>1, <3>2, <3>3
  <2> QED
    BY <2>1, <2>2
<1>12. ASSUME NEW o \in Obj, (Named(o) \/ Tracked(o))', procs_tracking'[o].flag
       PROVE  \E q \in Proc : pc'[q] \in {"unlink", "post"} /\ cur'[q] = o
  <2>1. CASE o # x
    <3>1. PICK q \in Proc : pc[q] \in {"unlink", "post"} /\ cur[q] = o
      BY <1>6, <1>7, <1>12, <2>1 DEF TrackInv
    <3> QED
      BY <1>8, <1>9, <3>1
  <2> QED
    BY <2>1
<1>13. ASSUME NEW o \in Obj, (Named(o) \/ Tracked(o))', ~procs_tracking'[o].flag
       PROVE  procs_tracking'[o].count = Cardinality(Trackers(o)')
  BY <1>6, <1>7, <1>13 DEF TrackInv
<1>14. /\ \A o \in orphans' : names'[number'[o]] = o /\ ~Tracked(o)'
       /\ \A k \in SegNum : names'[k] \in Obj \ orphans' => Tracked(names[k])'
       /\ names' \in [SegNum -> Obj \cup {NoObj}] /\ number' \in [Obj -> SegNum]
       /\ orphans' \subseteq Obj
       /\ \A k \in SegNum : names'[k] # NoObj => number'[names'[k]] = k
  BY <1>7 DEF TrackInv
<1> QED
  BY <1>6, <1>10, <1>11, <1>12, <1>13, <1>14 DEF TrackInv

(* Its name goes.                                                          *)
LEMMA TrackUnlink ==
    ASSUME LocalInv, TrackInv, NEW p \in Proc, TrackFrame(p), pc[p] = "unlink",
           NEW x, x = cur[p], names' = [names EXCEPT ![number[x]] = NoObj],
           UNCHANGED <<procs_tracking, number, orphans, handles>>, cur'[p] = x, pc'[p] = "post"
    PROVE  /\ x \in Obj /\ names[number[x]] = x /\ number[x] \in SegNum
           /\ TrackInv'
<1>1. procs_tracking[x].flag /\ Trackers(x) = {p}
  BY DEF TrackInv
<1>2. x \in handles[p] /\ x \in Obj /\ Tracked(x)
  BY <1>1 DEF Trackers, LocalInv, Tracked
<1>3. names[number[x]] = x /\ number[x] \in SegNum /\ NoObj \notin Obj
  BY <1>2, SegmentsAssumption DEF TrackInv, TrackedIsPinned
<1>4. /\ names' \in [SegNum -> Obj \cup {NoObj}] /\ names'[number[x]] = NoObj
      /\ \A k \in SegNum : k # number[x] => names'[k] = names[k]
  BY <1>3 DEF TrackInv
<1>5. \A o : Trackers(o)' = Trackers(o) /\ (Tracked(o)' <=> Tracked(o))
  BY DEF Trackers, Tracked
<1>6. \A o \in Obj : Named(o)' => Named(o)
  BY <1>3, <1>4 DEF Named
<1>7. \A q \in Proc : q # p => pc'[q] = pc[q] /\ cur'[q] = cur[q]
  BY DEF TrackFrame
<1>8. \A o \in Obj : o # x /\ names[number[o]] = o => names'[number[o]] = o
  BY <1>3, <1>4 DEF TrackInv
<1>9. TrackedIsPinned'
  <2> SUFFICES ASSUME NEW q \in Proc, NEW o \in handles'[q]
               PROVE  names'[number[o]] = o \/ (pc'[q] = "post" /\ cur'[q] = o)
    BY DEF TrackedIsPinned
  <2>1. o \in handles[q] /\ o \in Obj
    BY DEF LocalInv
  <2>2. names[number[o]] = o \/ (pc[q] = "post" /\ cur[q] = o)
    BY <2>1 DEF TrackInv, TrackedIsPinned
  <2>3. CASE o = x
    <3>1. q = p
      BY <1>1, <2>1, <2>3 DEF Trackers
    <3> QED
      BY <2>3, <3>1
  <2>4. CASE o # x
    BY <1>7, <1>8, <2>1, <2>2, <2>4
  <2> QED
    BY <2>3, <2>4
<1>10. ASSUME NEW q \in Proc, pc'[q] \in {"unlink", "post"}
       PROVE  /\ procs_tracking'[cur'[q]].flag /\ Trackers(cur[q])' = {q} /\ cur'[q] = cur[q]
              /\ pc'[q] = "post" => names'[number[cur'[q]]] # cur'[q]
  <2>1. CASE q = p
    BY <1>1, <1>2, <1>3, <1>4, <1>5, <2>1
  <2>2. CASE q # p
    <3>1. pc[q] \in {"unlink", "post"} /\ cur'[q] = cur[q] /\ pc'[q] = pc[q]
      BY <1>7, <1>10, <2>2
    <3>2. procs_tracking[cur[q]].flag /\ Trackers(cur[q]) = {q}
          /\ (pc[q] = "post" => names[number[cur[q]]] # cur[q])
      BY <3>1 DEF TrackInv
    <3>3. cur[q] \in Obj /\ number[cur[q]] \in SegNum
      BY <3>2 DEF Trackers, LocalInv, TrackInv
    <3>4. pc'[q] = "post" => names'[number[cur[q]]] # cur[q]
      BY <1>3, <1>4, <3>1, <3>2, <3>3
    <3> QED
      BY <1>5, <3>1, <3>2, <3>4
  <2> QED
    BY <2>1, <2>2
<1>11. ASSUME NEW o \in Obj, (Named(o) \/ Tracked(o))', procs_tracking'[o].flag
       PROVE  \E q \in Proc : pc'[q] \in {"unlink", "post"} /\ cur'[q] = o
  <2>1. PICK q \in Proc : pc[q] \in {"unlink", "post"} /\ cur[q] = o
    BY <1>5, <1>6, <1>11 DEF TrackInv
  <2> QED
    BY <1>7, <2>1
<1>12. ASSUME NEW o \in Obj, (Named(o) \/ Tracked(o))', ~procs_tracking'[o].flag
       PROVE  procs_tracking'[o].count = Cardinality(Trackers(o)')
  BY <1>5, <1>6, <1>12 DEF TrackInv
<1>13. ASSUME NEW o \in orphans PROVE names'[number[o]] = o /\ ~Tracked(o)'
  <2>1. names[number[o]] = o /\ ~Tracked(o) /\ o \in Obj
    BY <1>13 DEF TrackInv
  <2> QED
    BY <1>2, <1>5, <1>8, <2>1
<1>14. ASSUME NEW k \in SegNum, names'[k] \in Obj \ orphans PROVE Tracked(names[k])'
  <2>1. names'[k] = names[k]
    BY <1>3, <1>4, <1>14
  <2>2. Tracked(names[k])
    BY <1>14, <2>1 DEF TrackInv
  <2> QED
    BY <1>5, <2>1, <2>2 DEF Tracked
<1>15. \A k \in SegNum : names'[k] # NoObj => number[names'[k]] = k
  BY <1>4 DEF TrackInv
<1>16. /\ procs_tracking' \in [Obj -> Counter] /\ number' \in [Obj -> SegNum] /\ orphans' \subseteq Obj
       /\ names' \in [SegNum -> Obj \cup {NoObj}]
       /\ \A k \in SegNum : names'[k] # NoObj => number'[names'[k]] = k
       /\ \A o \in orphans' : names'[number'[o]] = o /\ ~Tracked(o)'
       /\ \A k \in SegNum : names'[k] \in Obj \ orphans' => Tracked(names[k])'
  BY <1>4, <1>13, <1>14, <1>15 DEF TrackInv
<1>17. /\ \A q \in Proc : pc'[q] \in {"unlink", "post"} =>
             procs_tracking'[cur'[q]].flag /\ Trackers(cur[q])' = {q}
       /\ \A q \in Proc : pc'[q] = "post" => names'[number'[cur'[q]]] # cur'[q]
  BY <1>10
<1>18. TrackInv'
  BY <1>9, <1>11, <1>12, <1>16, <1>17 DEF TrackInv
<1> QED
  BY <1>2, <1>3, <1>18

(* Without a name or a tracker the object is free.                         *)
LEMMA TrackPost ==
    ASSUME LocalInv, TrackInv, NEW p \in Proc, TrackFrame(p), pc[p] = "post",
           NEW x, x = cur[p],
           procs_tracking' = [procs_tracking EXCEPT ![x] = SetCounterPost(@, TRUE)],
           handles' = [handles EXCEPT ![p] = @ \ {x}],
           UNCHANGED <<names, number, orphans>>, pc'[p] \notin {"unlink", "post"}
    PROVE  /\ TrackInv'
           /\ x \in Obj /\ ~Named(x) /\ ~Tracked(x)'
           /\ \A o \in Obj : o # x => (Tracked(o)' <=> Tracked(o))
<1>1. procs_tracking[x].flag /\ Trackers(x) = {p} /\ names[number[x]] # x
  BY DEF TrackInv
<1>2. x \in Obj /\ handles \in [Proc -> SUBSET Obj]
  BY <1>1 DEF Trackers, LocalInv
<1>3. /\ procs_tracking' \in [Obj -> Counter]
      /\ \A o \in Obj : o # x => procs_tracking'[o] = procs_tracking[o]
  <2>1. SetCounterPost(procs_tracking[x], TRUE) \in Counter
    <3>1. procs_tracking[x] \in Counter
      BY <1>2 DEF TrackInv
    <3> QED
      BY <3>1 DEF SetCounterPost, Counter
  <2>2. procs_tracking \in [Obj -> Counter]
    BY DEF TrackInv
  <2>3. PICK c \in Counter : procs_tracking' = [procs_tracking EXCEPT ![x] = c]
    BY <2>1
  <2> QED
    BY <1>2, <2>2, <2>3, ZenonT(40)
<1>4. ~Named(x)
  BY <1>1, <1>2, SegmentsAssumption DEF Named, TrackInv
<1>5. \A o \in Obj : Trackers(o)' = IF o = x THEN {} ELSE Trackers(o)
  BY <1>1, <1>2 DEF Trackers
<1>6. ~Tracked(x)' /\ \A o \in Obj : o # x => (Tracked(o)' <=> Tracked(o))
  BY <1>1, <1>2 DEF Tracked, Trackers
<1>7. \A o \in Obj : Named(o)' <=> Named(o)
  BY DEF Named
<1>8. \A q \in Proc : q # p => pc'[q] = pc[q] /\ cur'[q] = cur[q]
  BY DEF TrackFrame
<1>9. TrackedIsPinned'
  <2> SUFFICES ASSUME NEW q \in Proc, NEW o \in handles'[q]
               PROVE  names[number[o]] = o \/ (pc'[q] = "post" /\ cur'[q] = o)
    BY DEF TrackedIsPinned
  <2>1. o \in handles[q] /\ (q = p => o # x)
    BY <1>2
  <2>2. names[number[o]] = o \/ (pc[q] = "post" /\ cur[q] = o)
    BY <2>1 DEF TrackInv, TrackedIsPinned
  <2> QED
    BY <1>8, <2>1, <2>2
<1>10. ASSUME NEW q \in Proc, pc'[q] \in {"unlink", "post"}
       PROVE  /\ procs_tracking'[cur'[q]].flag /\ Trackers(cur[q])' = {q} /\ cur'[q] = cur[q]
              /\ pc'[q] = "post" => names[number[cur'[q]]] # cur'[q]
  <2>1. q # p /\ pc[q] \in {"unlink", "post"} /\ cur'[q] = cur[q] /\ pc'[q] = pc[q]
    BY <1>8, <1>10
  <2>2. procs_tracking[cur[q]].flag /\ Trackers(cur[q]) = {q}
        /\ (pc[q] = "post" => names[number[cur[q]]] # cur[q])
    BY <2>1 DEF TrackInv
  <2>3. cur[q] \in Obj /\ cur[q] # x
    BY <1>1, <2>1, <2>2 DEF Trackers, LocalInv
  <2>4. procs_tracking'[cur[q]].flag /\ Trackers(cur[q])' = {q}
    BY <1>3, <1>5, <2>1, <2>2, <2>3
  <2> QED
    BY <2>1, <2>2, <2>4
<1>11. ASSUME NEW o \in Obj, (Named(o) \/ Tracked(o))', procs_tracking'[o].flag
       PROVE  \E q \in Proc : pc'[q] \in {"unlink", "post"} /\ cur'[q] = o
  <2>1. o # x
    BY <1>4, <1>6, <1>7, <1>11
  <2>2. PICK q \in Proc : pc[q] \in {"unlink", "post"} /\ cur[q] = o
    BY <1>3, <1>6, <1>7, <1>11, <2>1 DEF TrackInv
  <2> QED
    BY <1>8, <2>1, <2>2
<1>12. ASSUME NEW o \in Obj, (Named(o) \/ Tracked(o))', ~procs_tracking'[o].flag
       PROVE  procs_tracking'[o].count = Cardinality(Trackers(o)')
  <2>1. o # x
    BY <1>4, <1>6, <1>7, <1>12
  <2>2. procs_tracking[o].count = Cardinality(Trackers(o)) /\ procs_tracking'[o] = procs_tracking[o]
    BY <1>3, <1>6, <1>7, <1>12, <2>1 DEF TrackInv
  <2> QED
    BY <1>5, <2>1, <2>2
<1>13. \A o \in orphans : names[number[o]] = o /\ ~Tracked(o)'
  BY <1>6 DEF TrackInv
<1>14. ASSUME NEW k \in SegNum, names[k] \in Obj \ orphans PROVE Tracked(names[k])'
  BY <1>4, <1>6, <1>14 DEF TrackInv, Named
<1>15. /\ names' \in [SegNum -> Obj \cup {NoObj}] /\ number' \in [Obj -> SegNum]
       /\ orphans' \subseteq Obj
       /\ \A k \in SegNum : names'[k] # NoObj => number'[names'[k]] = k
  BY DEF TrackInv
<1> QED
  BY <1>2, <1>3, <1>4, <1>6, <1>9, <1>10, <1>11, <1>12, <1>13, <1>14, <1>15 DEF TrackInv

(* A new segment: tracked by its creator, or an orphan.                    *)
LEMMA TrackNew ==
    ASSUME LocalInv, TrackInv, NEW p \in Proc, TrackFrame(p),
           NEW o \in FreeObj, NEW k \in SegNum, names[k] = NoObj,
           names' = [names EXCEPT ![k] = o], number' = [number EXCEPT ![o] = k],
           NEW c \in Counter, procs_tracking' = [procs_tracking EXCEPT ![o] = c], ~c.flag,
           NEW T \in SUBSET {p}, c.count = Cardinality(T),
           handles' = [handles EXCEPT ![p] = IF p \in T THEN @ \cup {o} ELSE @],
           orphans' = IF p \in T THEN orphans ELSE orphans \cup {o},
           pc[p] \notin {"unlink", "post"}, pc'[p] \notin {"unlink", "post"}
    PROVE  TrackInv'
<1>1. o \in Obj /\ ~Named(o) /\ ~Tracked(o) /\ NoObj \notin Obj /\ Trackers(o) = {}
  BY SegmentsAssumption DEF FreeObj, Named, Tracked, Trackers
<1>2. /\ names' \in [SegNum -> Obj \cup {NoObj}] /\ names'[k] = o
      /\ \A j \in SegNum : j # k => names'[j] = names[j]
      /\ number' \in [Obj -> SegNum] /\ number'[o] = k
      /\ \A x \in Obj : x # o => number'[x] = number[x]
      /\ procs_tracking' \in [Obj -> Counter] /\ procs_tracking'[o] = c
      /\ \A x \in Obj : x # o => procs_tracking'[x] = procs_tracking[x]
  BY <1>1 DEF TrackInv
<1>3. \A x \in Obj : Trackers(x)' = IF x = o THEN T ELSE Trackers(x)
  BY <1>1 DEF Trackers, LocalInv
<1>4. \A x \in Obj : x # o => (Tracked(x)' <=> Tracked(x))
  BY DEF Tracked, LocalInv
<1>5. Tracked(o)' <=> p \in T
  BY <1>1 DEF Tracked, LocalInv
<1>6. \A x \in Obj : x # o => (Named(x)' <=> Named(x))
  BY <1>2, <1>1 DEF Named
<1>7. Named(o)'
  BY <1>2 DEF Named
<1>8. \A q \in Proc : q # p => pc'[q] = pc[q] /\ cur'[q] = cur[q]
  BY DEF TrackFrame
<1>9. \A x \in Obj : x # o /\ names[number[x]] = x => names'[number'[x]] = x
  BY <1>1, <1>2 DEF TrackInv
<1>10. \A q \in Proc : pc'[q] \in {"unlink", "post"} =>
          q # p /\ pc[q] \in {"unlink", "post"} /\ cur'[q] = cur[q] /\ pc'[q] = pc[q]
  BY <1>8
<1>11. TrackedIsPinned'
  <2> SUFFICES ASSUME NEW q \in Proc, NEW x \in handles'[q]
               PROVE  names'[number'[x]] = x \/ (pc'[q] = "post" /\ cur'[q] = x)
    BY DEF TrackedIsPinned
  <2>1. CASE x = o
    BY <1>2, <2>1
  <2>2. CASE x # o
    <3>1. x \in handles[q] /\ x \in Obj
      BY <2>2 DEF LocalInv
    <3>2. names[number[x]] = x \/ (pc[q] = "post" /\ cur[q] = x)
      BY <3>1 DEF TrackInv, TrackedIsPinned
    <3> QED
      BY <1>8, <1>9, <2>2, <3>1, <3>2
  <2> QED
    BY <2>1, <2>2
<1>12. ASSUME NEW q \in Proc, pc'[q] \in {"unlink", "post"}
       PROVE  /\ procs_tracking'[cur'[q]].flag /\ Trackers(cur[q])' = {q}
              /\ pc'[q] = "post" => names'[number'[cur'[q]]] # cur'[q]
  <2>1. q # p /\ pc[q] \in {"unlink", "post"} /\ cur'[q] = cur[q] /\ pc'[q] = pc[q]
    BY <1>10, <1>12
  <2>2. procs_tracking[cur[q]].flag /\ Trackers(cur[q]) = {q}
        /\ (pc[q] = "post" => names[number[cur[q]]] # cur[q])
    BY <2>1 DEF TrackInv
  <2>3. cur[q] \in Obj /\ cur[q] # o
    BY <1>1, <2>2 DEF Trackers, LocalInv
  <2>4. procs_tracking'[cur[q]].flag /\ Trackers(cur[q])' = {q} /\ number'[cur[q]] = number[cur[q]]
    BY <1>2, <1>3, <2>1, <2>2, <2>3
  <2>5. pc'[q] = "post" => names'[number[cur[q]]] # cur[q]
    <3>1. number[cur[q]] \in SegNum
      BY <2>3 DEF TrackInv
    <3> QED
      BY <1>2, <2>1, <2>2, <2>3, <3>1
  <2> QED
    BY <2>1, <2>4, <2>5
<1>13. ASSUME NEW x \in Obj, (Named(x) \/ Tracked(x))', procs_tracking'[x].flag
       PROVE  \E q \in Proc : pc'[q] \in {"unlink", "post"} /\ cur'[q] = x
  <2>1. x # o
    BY <1>2, <1>13
  <2>2. PICK q \in Proc : pc[q] \in {"unlink", "post"} /\ cur[q] = x
    BY <1>2, <1>4, <1>6, <1>13, <2>1 DEF TrackInv
  <2> QED
    BY <1>8, <2>2
<1>14. ASSUME NEW x \in Obj, (Named(x) \/ Tracked(x))', ~procs_tracking'[x].flag
       PROVE  procs_tracking'[x].count = Cardinality(Trackers(x)')
  <2>1. CASE x = o
    BY <1>1, <1>2, <1>3, <2>1
  <2>2. CASE x # o
    <3>1. procs_tracking[x].count = Cardinality(Trackers(x)) /\ procs_tracking'[x] = procs_tracking[x]
      BY <1>2, <1>4, <1>6, <1>14, <2>2 DEF TrackInv
    <3> QED
      BY <1>3, <2>2, <3>1
  <2> QED
    BY <2>1, <2>2
<1>15. ASSUME NEW x \in orphans' PROVE names'[number'[x]] = x /\ ~Tracked(x)' /\ x \in Obj
  <2>1. CASE x = o
    <3>1. o \notin orphans
      BY <1>1 DEF TrackInv, Named
    <3> QED
      BY <1>1, <1>2, <1>5, <1>15, <2>1, <3>1
  <2>2. CASE x # o
    <3>1. names[number[x]] = x /\ ~Tracked(x) /\ x \in Obj
      BY <1>15, <2>2 DEF TrackInv
    <3> QED
      BY <1>4, <1>9, <2>2, <3>1
  <2> QED
    BY <2>1, <2>2
<1>16. ASSUME NEW j \in SegNum, names'[j] \in Obj \ orphans' PROVE Tracked(names[j])'
  <2>1. CASE j = k
    <3>1. p \in T /\ names'[j] = o
      BY <1>2, <1>16, <2>1
    <3> QED
      BY <1>5, <3>1 DEF Tracked
  <2>2. CASE j # k
    <3>1. names'[j] = names[j] /\ names[j] \in Obj \ orphans /\ names[j] # o
      BY <1>1, <1>2, <1>16, <2>2 DEF Named
    <3>2. Tracked(names[j])
      BY <3>1 DEF TrackInv
    <3> QED
      BY <1>4, <3>1, <3>2 DEF Tracked
  <2> QED
    BY <2>1, <2>2
<1>17. ASSUME NEW j \in SegNum, names'[j] # NoObj PROVE number'[names'[j]] = j
  <2>1. CASE j = k
    BY <1>2, <2>1
  <2>2. CASE j # k
    <3>1. names'[j] = names[j] /\ names[j] \in Obj /\ names[j] # o
      BY <1>1, <1>2, <1>17, <2>2 DEF Named, TrackInv
    <3> QED
      BY <1>2, <1>17, <3>1 DEF TrackInv
  <2> QED
    BY <2>1, <2>2
<1>18. /\ \A q \in Proc : pc'[q] \in {"unlink", "post"} =>
             procs_tracking'[cur'[q]].flag /\ Trackers(cur[q])' = {q}
       /\ \A q \in Proc : pc'[q] = "post" => names'[number'[cur'[q]]] # cur'[q]
       /\ orphans' \subseteq Obj
  BY <1>12, <1>15
<1> QED
  BY <1>2, <1>11, <1>13, <1>14, <1>15, <1>16, <1>17, <1>18 DEF TrackInv

(* The number tried next is one.                                           *)
LEMMA NextSegNumType == ASSUME NEW k \in SegNum \cup {NoSeg} PROVE NextSegNum(k) \in SegNum
BY SegmentsAssumption DEF NextSegNum, SegNum

(* Creating a segment, and failing to.                                     *)
LEMMA TrackCreate ==
    ASSUME LockInv, LocalInv, TrackInv, ListInv, NEW p \in Proc, TrackFrame(p),
           (CreateSegment(p) /\ UNCHANGED orphans) \/ CreateFails(p)
    PROVE  TrackInv'
<1>1. pc[p] = "create" /\ pc \in [Proc -> PC]
  BY DEF CreateSegment, CreateFails, LockInv
<1>2. PICK k : k = NextSegNum(scan[p])
  OBVIOUS
<1>3. k \in SegNum
  BY <1>2, NextSegNumType DEF ListInv
<1>4. PICK one : one = IncrementCounter(ZeroCounter)
  OBVIOUS
<1>5. one \in Counter /\ ~one.flag /\ one.count = 1 /\ ZeroCounter \in Counter
      /\ ~ZeroCounter.flag /\ ZeroCounter.count = 0
  <2>1. 1 % CountMod = 1 /\ 0 \in 0 .. (CountMod - 1) /\ 1 \in 0 .. (CountMod - 1)
    BY CountModAssumption
  <2>2. one = [count |-> 1, flag |-> FALSE, post |-> FALSE]
    <3>1. one = [ZeroCounter EXCEPT !.count = (ZeroCounter.count + 1) % CountMod]
      BY <1>4 DEF IncrementCounter
    <3>2. ZeroCounter.count + 1 = 1
      BY DEF ZeroCounter
    <3>3. one = [ZeroCounter EXCEPT !.count = 1]
      BY <2>1, <3>1, <3>2
    <3> QED
      BY <3>3 DEF ZeroCounter
  <2> QED
    BY <2>1, <2>2 DEF Counter, ZeroCounter
<1>6. Cardinality({p}) = 1 /\ Cardinality({}) = 0
  BY FS_Singleton, FS_EmptySet
<1>7. CASE UNCHANGED <<names, number, orphans, handles, procs_tracking>> /\ pc'[p] \in {"create", "error"}
  <2>1. Opening(p)
    BY <1>1, <1>7, OpeningNothing
  <2> QED
    BY <2>1, TrackOpening
<1>8. ASSUME NEW o \in FreeObj, names[k] = NoObj, names' = [names EXCEPT ![k] = o],
             number' = [number EXCEPT ![o] = k], procs_tracking' = [procs_tracking EXCEPT ![o] = one],
             handles' = [handles EXCEPT ![p] = @ \cup {o}], UNCHANGED orphans, pc'[p] = "add"
      PROVE  TrackInv'
  <2>1. PICK T : T = {p}
    OBVIOUS
  <2>2. T \in SUBSET {p} /\ one.count = Cardinality(T) /\ p \in T
    BY <1>5, <1>6, <2>1
  <2>3. /\ handles' = [handles EXCEPT ![p] = IF p \in T THEN @ \cup {o} ELSE @]
        /\ orphans' = IF p \in T THEN orphans ELSE orphans \cup {o}
        /\ pc[p] \notin {"unlink", "post"} /\ pc'[p] \notin {"unlink", "post"}
    BY <1>1, <1>8, <2>2
  <2> QED
    BY <1>3, <1>5, <1>8, <2>2, <2>3, TrackNew
<1>9. ASSUME NEW o \in FreeObj, names[k] = NoObj, names' = [names EXCEPT ![k] = o],
             number' = [number EXCEPT ![o] = k], procs_tracking' = [procs_tracking EXCEPT ![o] = ZeroCounter],
             UNCHANGED handles, orphans' = orphans \cup {o}, pc'[p] = "error"
      PROVE  TrackInv'
  <2>1. PICK T : T = {}
    OBVIOUS
  <2>2. T \in SUBSET {p} /\ ZeroCounter.count = Cardinality(T) /\ p \notin T
    BY <1>5, <1>6, <2>1
  <2>3. /\ handles' = [handles EXCEPT ![p] = IF p \in T THEN @ \cup {o} ELSE @]
        /\ orphans' = IF p \in T THEN orphans ELSE orphans \cup {o}
        /\ pc[p] \notin {"unlink", "post"} /\ pc'[p] \notin {"unlink", "post"}
    BY <1>1, <1>9, <2>2 DEF LocalInv
  <2> QED
    BY <1>3, <1>5, <1>9, <2>2, <2>3, TrackNew
<1>10. CASE CreateSegment(p) /\ UNCHANGED orphans
  <2>1. CASE UNCHANGED <<names, number, procs_tracking, handles, pc>>
    BY <1>1, <1>7, <1>10, <2>1
  <2>2. CASE /\ names[k] = NoObj /\ Goto(p, "add")
             /\ \E o \in FreeObj :
                /\ names' = [names EXCEPT ![k] = o] /\ number' = [number EXCEPT ![o] = k]
                /\ procs_tracking' = [procs_tracking EXCEPT ![o] = one]
                /\ handles' = [handles EXCEPT ![p] = @ \cup {o}]
    BY <1>1, <1>8, <1>10, <2>2 DEF Goto
  <2> QED
    BY <1>2, <1>4, <1>10, <2>1, <2>2 DEF CreateSegment
<1>11. CASE CreateFails(p)
  <2>1. pc'[p] = "error" /\ UNCHANGED handles
    BY <1>1, <1>11 DEF CreateFails, Goto
  <2>2. CASE UNCHANGED <<names, number, procs_tracking, orphans>>
    BY <1>7, <2>1, <2>2
  <2>3. CASE /\ names[k] = NoObj
             /\ \E o \in FreeObj :
                /\ names' = [names EXCEPT ![k] = o] /\ number' = [number EXCEPT ![o] = k]
                /\ procs_tracking' = [procs_tracking EXCEPT ![o] = ZeroCounter]
                /\ orphans' = orphans \cup {o}
    BY <1>9, <2>1, <2>3
  <2> QED
    BY <1>2, <1>11, <2>2, <2>3 DEF CreateFails
<1> QED
  BY <1>10, <1>11

(* The steps at the end of msh_DetachSegment.                              *)
LEMMA TrackDetach ==
    ASSUME LockInv, LocalInv, TrackInv, NEW p \in Proc, TrackFrame(p), UNCHANGED orphans,
           Untrack(p) \/ CompareSwap(p) \/ UnlinkSegment(p) \/ PostAndSubtract(p)
    PROVE  TrackInv'
<1>1. /\ pc \in [Proc -> PC] /\ cur \in [Proc -> Obj \cup {NoObj}] /\ LocalTypes /\ LocalOf(p)
      /\ pc[p] \in DetachPC /\ ret[p] \in ReturnPC
  BY LocalParts DEF LockInv, LocalInv, Untrack, CompareSwap, UnlinkSegment, PostAndSubtract, DetachPC
<1>2. PICK x : x = cur[p]
  OBVIOUS
<1>3. x \in handles[p] /\ x \in Obj
  BY <1>1, <1>2 DEF LocalOf, LocalTypes
<1>4. ret[p] \notin {"unlink", "post"}
  BY <1>1 DEF ReturnPC
<1>5. CASE Untrack(p)
  <2>1. pc[p] = "untrack" /\ UNCHANGED <<names, number>>
    BY <1>5 DEF Untrack, memory
  <2>2. CASE ~procs_tracking[x].flag /\ procs_tracking[x].count = 1
    <3>1. pc' = [pc EXCEPT ![p] = "remove"] /\ UNCHANGED <<procs_tracking, handles>>
      BY <1>2, <1>5, <2>2 DEF Untrack, Goto
    <3>2. pc'[p] = "remove"
      BY <1>1, <3>1
    <3>3. Opening(p)
      BY <2>1, <3>1, <3>2, OpeningNothing
    <3> QED
      BY <3>3, TrackOpening
  <2>3. CASE ~(~procs_tracking[x].flag /\ procs_tracking[x].count = 1)
    <3>1. /\ procs_tracking' = [procs_tracking EXCEPT
                                  ![cur[p]] = DecrementCounter(procs_tracking[cur[p]], FALSE)]
          /\ handles' = [handles EXCEPT ![p] = @ \ {cur[p]}]
          /\ pc' = [pc EXCEPT ![p] = ret[p]]
      BY <1>2, <1>5, <2>3 DEF Untrack, Detached, Goto
    <3>2. pc'[p] \notin {"unlink", "post"}
      BY <1>1, <1>4, <3>1
    <3>3. ~(~procs_tracking[cur[p]].flag /\ procs_tracking[cur[p]].count = 1)
      BY <1>2, <2>3
    <3> QED
      BY <2>1, <3>1, <3>2, <3>3, TrackUntrack
  <2> QED
    BY <2>2, <2>3
<1>6. CASE CompareSwap(p)
  <2>1. pc[p] = "cas" /\ UNCHANGED <<names, number, handles, cur>>
    BY <1>6 DEF CompareSwap, memory
  <2>2. PICK one : one = [ZeroCounter EXCEPT !.count = 1]
    OBVIOUS
  <2>3. DecrementCounter(one, TRUE) = [ZeroCounter EXCEPT !.flag = TRUE]
    <3>1. one = [count |-> 1, flag |-> FALSE, post |-> FALSE]
      BY <2>2 DEF ZeroCounter
    <3>2. (one.count - 1) % CountMod = 0
      BY <3>1, CountModAssumption
    <3>3. PICK n : n = (one.count - 1) % CountMod
      OBVIOUS
    <3>4. PICK b : b = (one.flag \/ (TRUE /\ n = 0))
      OBVIOUS
    <3>5. DecrementCounter(one, TRUE) = [one EXCEPT !.count = n, !.flag = b]
      BY <3>3, <3>4, Zenon DEF DecrementCounter
    <3>6. n = 0 /\ b = TRUE
      BY <3>1, <3>2, <3>3, <3>4
    <3>7. DecrementCounter(one, TRUE) = [one EXCEPT !.count = 0, !.flag = TRUE]
      BY <3>5, <3>6, Zenon
    <3>8. DecrementCounter(one, TRUE) = [count |-> 0, flag |-> TRUE, post |-> FALSE]
      BY <3>1, <3>7
    <3>9. PICK zero : zero = [ZeroCounter EXCEPT !.flag = TRUE]
      OBVIOUS
    <3>10. zero = [count |-> 0, flag |-> TRUE, post |-> FALSE]
      BY <3>9 DEF ZeroCounter
    <3> QED
      BY <3>8, <3>9, <3>10, Zenon
  <2>4. CASE procs_tracking[x] = one
    <3>1. /\ procs_tracking' = [procs_tracking EXCEPT ![x] = DecrementCounter(one, TRUE)]
          /\ pc' = [pc EXCEPT ![p] = "unlink"]
      BY <1>2, <1>6, <2>2, <2>4 DEF CompareSwap, Goto
    <3>2. pc'[p] = "unlink" /\ cur'[p] = x
      BY <1>1, <1>2, <2>1, <3>1
    <3> QED
      BY <1>2, <1>3, <2>1, <2>2, <2>3, <2>4, <3>1, <3>2, TrackSwap
  <2>5. CASE procs_tracking[x] # one
    <3>1. pc' = [pc EXCEPT ![p] = "untrack"] /\ UNCHANGED procs_tracking
      BY <1>2, <1>6, <2>2, <2>5 DEF CompareSwap, Goto
    <3>2. pc'[p] = "untrack"
      BY <1>1, <3>1
    <3>3. Opening(p)
      BY <2>1, <3>1, <3>2, OpeningNothing
    <3> QED
      BY <3>3, TrackOpening
  <2> QED
    BY <2>4, <2>5
<1>7. CASE UnlinkSegment(p)
  <2>1. /\ pc[p] = "unlink" /\ names' = [names EXCEPT ![number[x]] = NoObj]
        /\ UNCHANGED <<procs_tracking, number, handles>> /\ UNCHANGED cur
        /\ pc' = [pc EXCEPT ![p] = "post"]
    BY <1>2, <1>7 DEF UnlinkSegment, Goto
  <2>2. pc'[p] = "post" /\ cur'[p] = x
    BY <1>1, <1>2, <2>1
  <2> QED
    BY <1>2, <2>1, <2>2, TrackUnlink
<1>8. CASE PostAndSubtract(p)
  <2>1. /\ pc[p] = "post" /\ UNCHANGED <<names, number>>
        /\ procs_tracking' = [procs_tracking EXCEPT ![x] = SetCounterPost(@, TRUE)]
        /\ handles' = [handles EXCEPT ![p] = @ \ {x}]
        /\ pc' = [pc EXCEPT ![p] = ret[p]]
    BY <1>2, <1>8 DEF PostAndSubtract, Detached, Goto, memory
  <2>2. pc'[p] \notin {"unlink", "post"}
    BY <1>1, <1>4, <2>1
  <2> QED
    BY <1>2, <2>1, <2>2, TrackPost
<1> QED
  BY <1>5, <1>6, <1>7, <1>8

(* Every step keeps names, counters and open segments in agreement.        *)
LEMMA TrackNext ==
    ASSUME LockInv, LocalInv, TrackInv, ListInv, [Next]_vars
    PROVE  TrackInv'
<1>1. ASSUME NEW p \in Proc, Step(p) \/ User(p), UNCHANGED orphans PROVE TrackInv'
  <2>1. TrackFrame(p)
    BY <1>1, ControlFrame
  <2>2. CASE Untrack(p) \/ CompareSwap(p) \/ UnlinkSegment(p) \/ PostAndSubtract(p)
    BY <1>1, <2>1, <2>2, TrackDetach
  <2>3. CASE CreateSegment(p)
    BY <1>1, <2>1, <2>3, TrackCreate
  <2>4. CASE ~(Untrack(p) \/ CompareSwap(p) \/ UnlinkSegment(p) \/ PostAndSubtract(p) \/ CreateSegment(p))
    <3>1. Opening(p)
      BY <1>1, <2>4, QuietSteps, ListSteps DEF Step, Detach
    <3> QED
      BY <2>1, <3>1, TrackOpening
  <2> QED
    BY <2>2, <2>3, <2>4
<1>2. ASSUME NEW p \in Proc, CreateFails(p) PROVE TrackInv'
  BY <1>2, ControlFrame, TrackCreate
<1>3. ASSUME NEW p \in Proc, OnExit(p) PROVE TrackInv'
  <2>1. UNCHANGED orphans
    BY <1>3 DEF OnExit
  <2>2. TrackFrame(p) /\ Opening(p)
    BY <1>3, <2>1, ControlFrame, QuietSteps
  <2> QED
    BY <2>2, TrackOpening
<1>4. CASE UNCHANGED vars
  <2>1. UNCHANGED <<names, number, orphans, procs_tracking, handles, pc, cur>>
    BY <1>4 DEF vars, memory, faults
  <2> QED
    BY <2>1 DEF TrackInv, TrackedIsPinned, Trackers, Tracked, Named
<1>5. Next => \E p \in Proc : \/ (Step(p) \/ User(p)) /\ UNCHANGED orphans
                              \/ CreateFails(p) \/ OnExit(p)
  BY DEF Next, faults
<1> QED
  BY <1>1, <1>2, <1>3, <1>4, <1>5

(* To begin with there is no segment.                                      *)
LEMMA TrackInit == Init => TrackInv
<1> SUFFICES ASSUME Init PROVE TrackInv
  OBVIOUS
<1>1. ZeroCounter \in Counter
  <2>1. 0 \in 0 .. (CountMod - 1)
    BY CountModAssumption
  <2> QED
    BY <2>1 DEF ZeroCounter, Counter
<1>2. 0 \in SegNum /\ NoObj \notin Obj
  BY SegmentsAssumption DEF SegNum
<1>3. \A o \in Obj : ~Named(o) /\ ~Tracked(o)
  BY <1>2 DEF Init, Named, Tracked
<1>4. \A p \in Proc : pc[p] = "out" /\ handles[p] = {}
  BY DEF Init
<1>5. /\ names \in [SegNum -> Obj \cup {NoObj}] /\ number \in [Obj -> SegNum]
      /\ procs_tracking \in [Obj -> Counter] /\ orphans = {}
      /\ \A k \in SegNum : names[k] = NoObj
  BY <1>1, <1>2 DEF Init
<1> QED
  BY <1>2, <1>3, <1>4, <1>5 DEF TrackInv, TrackedIsPinned

------------------------------------------------------------------------------
(* The shared list.                                                        *)

(* A non-empty set of naturals has a least member.                         *)
LEMMA LeastNumber ==
    ASSUME NEW S \in SUBSET Nat, S # {}
    PROVE  \E m \in S : \A k \in S : m =< k
<1> DEFINE R == {ss \in Nat \X Nat : ss[1] < ss[2]}
<1>1. IsWellFoundedOn(R, Nat)
  BY NatLessThanWellFounded, Zenon DEF OpToRel
<1>2. PICK m \in S : \A k \in S : ~(<<k, m>> \in R)
  <2> HIDE DEF R
  <2> QED
    BY <1>1, WFMin
<1>3. ASSUME NEW k \in S PROVE m =< k
  <2>1. k \in Nat /\ m \in Nat /\ <<k, m>> \notin R
    BY <1>2
  <2>2. <<k, m>> \in Nat \X Nat /\ <<k, m>>[1] = k /\ <<k, m>>[2] = m
    BY <2>1
  <2>3. ~(k < m)
    BY <2>1, <2>2
  <2> QED
    BY <2>1, <2>3
<1> QED
  BY <1>3

(* A sequence of numbers in which each is what the links say of the one    *)
(* before is what following the links gives.                               *)
LEMMA FollowFact ==
    ASSUME NEW n \in Nat, NEW start, NEW step, NEW v,
           v[0] = start,
           \A i \in 1 .. n : v[i] = IF v[i - 1] = NoSeg \/ names[v[i - 1]] = NoObj THEN NoSeg
                                    ELSE step[names[v[i - 1]]]
    PROVE  Follow(start, step, n) = v[n]
<1> DEFINE Fix(g) == g = [i \in 0 .. n |-> IF i = 0 THEN start
                                           ELSE IF g[i - 1] = NoSeg \/ names[g[i - 1]] = NoObj THEN NoSeg
                                           ELSE step[names[g[i - 1]]]]
<1>1. PICK u : u = [i \in 0 .. n |-> v[i]]
  OBVIOUS
<1>2. Fix(u)
  <2>1. \A i \in 0 .. n : u[i] = v[i]
    BY <1>1
  <2>2. \A i \in 0 .. n : i # 0 => i \in 1 .. n /\ i - 1 \in 0 .. n
    OBVIOUS
  <2>3. \A i \in 0 .. n : v[i] = IF i = 0 THEN start
                                 ELSE IF u[i - 1] = NoSeg \/ names[u[i - 1]] = NoObj THEN NoSeg
                                 ELSE step[names[u[i - 1]]]
    BY <2>1, <2>2
  <2> QED
    BY <1>1, <2>3
<1>3. ASSUME NEW g, Fix(g) PROVE g[n] = v[n]
  <2> DEFINE Bad == {i \in 0 .. n : g[i] # v[i]}
  <2>1. \A i \in 0 .. n : g[i] = IF i = 0 THEN start
                                 ELSE IF g[i - 1] = NoSeg \/ names[g[i - 1]] = NoObj THEN NoSeg
                                 ELSE step[names[g[i - 1]]]
    BY <1>3
  <2>2. Bad = {}
    <3> SUFFICES ASSUME Bad # {} PROVE FALSE
      OBVIOUS
    <3>1. Bad \in SUBSET Nat
      OBVIOUS
    <3>2. PICK m \in Bad : \A k \in Bad : m =< k
      <4> HIDE DEF Bad
      <4> QED
        BY <3>1, LeastNumber
    <3>3. m \in 0 .. n /\ g[m] # v[m]
      OBVIOUS
    <3>4. m # 0
      BY <2>1, <3>3
    <3>5. m - 1 \in 0 .. n /\ m - 1 \notin Bad
      BY <3>2, <3>3, <3>4
    <3>6. g[m - 1] = v[m - 1] /\ m \in 1 .. n
      BY <3>3, <3>4, <3>5
    <3>7. g[m] = IF v[m - 1] = NoSeg \/ names[v[m - 1]] = NoObj THEN NoSeg
                 ELSE step[names[v[m - 1]]]
      BY <2>1, <3>3, <3>4, <3>6
    <3> QED
      BY <3>3, <3>6, <3>7
  <2> QED
    BY <2>2
<1> HIDE DEF Fix
<1>4. Fix(CHOOSE g : Fix(g))
  BY <1>2, Zenon
<1>5. (CHOOSE g : Fix(g))[n] = v[n]
  BY <1>3, <1>4
<1> QED
  BY <1>5 DEF Follow, Fix

(* Following the links of a list from either end.                          *)
LEMMA FollowLinked ==
    ASSUME TrackInv, num_shared_segments \in Nat, NEW w, Linked(w),
           NEW n \in 0 .. num_shared_segments
    PROVE  /\ Follow(first_seg_num, next_seg_num, n) =
                 IF n < num_shared_segments THEN number[w[n + 1]] ELSE NoSeg
           /\ Follow(last_seg_num, prev_seg_num, n) =
                 IF n < num_shared_segments THEN number[w[num_shared_segments - n]] ELSE NoSeg
<1>1. PICK N \in Nat : N = num_shared_segments
  OBVIOUS
<1>2. n \in 0 .. N /\ n \in Nat
  BY <1>1
<1>3. \A i \in 1 .. N :
         /\ w[i] \in Obj /\ number[w[i]] # NoSeg /\ names[number[w[i]]] = w[i] /\ w[i] # NoObj
         /\ next_seg_num[w[i]] = IF i = N THEN NoSeg ELSE number[w[i + 1]]
         /\ prev_seg_num[w[i]] = IF i = 1 THEN NoSeg ELSE number[w[i - 1]]
  <2> TAKE i \in 1 .. N
  <2>1. i \in 1 .. num_shared_segments
    BY <1>1
  <2>2. w[i] \in Obj \ orphans /\ names[number[w[i]]] = w[i] /\ number[w[i]] # NoSeg
    BY <2>1, LinkedFact
  <2> QED
    BY <1>1, <2>2, SegmentsAssumption DEF Linked
<1>4. /\ first_seg_num = IF N = 0 THEN NoSeg ELSE number[w[1]]
      /\ last_seg_num = IF N = 0 THEN NoSeg ELSE number[w[N]]
  BY <1>1 DEF Linked
<1>5. PICK v : v = [i \in 0 .. N |-> IF i < N THEN number[w[i + 1]] ELSE NoSeg]
  OBVIOUS
<1>6. PICK u : u = [i \in 0 .. N |-> IF i < N THEN number[w[N - i]] ELSE NoSeg]
  OBVIOUS
<1>7. v[0] = first_seg_num /\ u[0] = last_seg_num
  BY <1>4, <1>5, <1>6
<1>8. ASSUME NEW i \in 1 .. n
      PROVE  v[i] = IF v[i - 1] = NoSeg \/ names[v[i - 1]] = NoObj THEN NoSeg
                    ELSE next_seg_num[names[v[i - 1]]]
  <2>1. i \in 1 .. N /\ i - 1 \in 0 .. N /\ i - 1 < N /\ (i - 1) + 1 = i /\ i \in 0 .. N
    BY <1>2
  <2>2. v[i - 1] = number[w[i]] /\ v[i] = IF i < N THEN number[w[i + 1]] ELSE NoSeg
    BY <1>5, <2>1
  <2> QED
    BY <1>3, <2>1, <2>2
<1>9. ASSUME NEW i \in 1 .. n
      PROVE  u[i] = IF u[i - 1] = NoSeg \/ names[u[i - 1]] = NoObj THEN NoSeg
                    ELSE prev_seg_num[names[u[i - 1]]]
  <2>1. PICK j : j = N - (i - 1)
    OBVIOUS
  <2>2. j \in 1 .. N /\ i - 1 \in 0 .. N /\ i - 1 < N /\ j - 1 = N - i /\ i \in 0 .. N /\ (i < N <=> j # 1)
    BY <1>2, <2>1
  <2>3. u[i - 1] = number[w[j]] /\ u[i] = IF i < N THEN number[w[N - i]] ELSE NoSeg
    BY <1>6, <2>1, <2>2
  <2> QED
    BY <1>3, <2>2, <2>3
<1>10. Follow(first_seg_num, next_seg_num, n) = v[n]
  BY <1>2, <1>7, <1>8, FollowFact
<1>11. Follow(last_seg_num, prev_seg_num, n) = u[n]
  BY <1>2, <1>7, <1>9, FollowFact
<1> QED
  BY <1>1, <1>2, <1>5, <1>6, <1>10, <1>11

(* Everything in circulation is linked into the list once.                 *)
LEMMA ListedCount ==
    ASSUME num_shared_segments \in Nat, NEW w, Linked(w)
    PROVE  /\ Listed = {w[i] : i \in 1 .. num_shared_segments}
           /\ IsFiniteSet(Listed) /\ Cardinality(Listed) = num_shared_segments
<1>1. /\ w \in [1 .. num_shared_segments -> Obj]
      /\ \A i, j \in 1 .. num_shared_segments : w[i] = w[j] => i = j
      /\ \A o \in Obj : o \in Listed <=> \E i \in 1 .. num_shared_segments : w[i] = o
  BY ListedFact DEF Linked, IsInjective
<1>2. \A o : o \in Listed <=> o \in {w[i] : i \in 1 .. num_shared_segments}
  <2>1. Listed \subseteq Obj
    BY DEF Listed
  <2> QED
    BY <1>1, <2>1
<1>3. Listed = {w[i] : i \in 1 .. num_shared_segments}
  BY <1>2
<1>4. w \in Bijection(1 .. num_shared_segments, Listed)
  BY <1>1, <1>3 DEF Bijection, Injection, Surjection, IsInjective
<1>5. ExistsBijection(1 .. num_shared_segments, Listed)
  BY <1>4 DEF ExistsBijection
<1>6. /\ IsFiniteSet(1 .. num_shared_segments)
      /\ Cardinality(1 .. num_shared_segments) = num_shared_segments
  BY FS_Interval
<1> QED
  BY <1>3, <1>5, <1>6, FS_Bijection

OneList == \A w : TrackInv /\ num_shared_segments \in Nat /\ Linked(w) => SharedList = w

(* There is one list only.                                                 *)
LEMMA SharedListUnique == OneList
<1> SUFFICES ASSUME NEW w, TrackInv, num_shared_segments \in Nat, Linked(w) PROVE SharedList = w
  BY DEF OneList
<1>1. PICK N \in Nat : N = num_shared_segments
  OBVIOUS
<1>2. Cardinality(Listed) = N
  BY <1>1, ListedCount
<1>3. w \in [1 .. N -> Obj]
  BY <1>1 DEF Linked
<1>4. ASSUME NEW i \in 1 .. N PROVE names[Follow(first_seg_num, next_seg_num, i - 1)] = w[i]
  <2>1. i - 1 \in 0 .. num_shared_segments /\ i - 1 < num_shared_segments /\ (i - 1) + 1 = i
    BY <1>1
  <2>2. Follow(first_seg_num, next_seg_num, i - 1) = number[w[i]]
    BY <2>1, FollowLinked
  <2>3. names[number[w[i]]] = w[i]
    BY <1>1 DEF Linked
  <2> QED
    BY <2>2, <2>3
<1> QED
  BY <1>2, <1>3, <1>4 DEF SharedList

(* ... nor after a step.                                                   *)
LEMMA NextSharedList ==
    ASSUME TrackInv', num_shared_segments' \in Nat, NEW w, Linked(w)'
    PROVE  (SharedList = w)'
<1>1. OneList'
  BY SharedListUnique, PTL
<1> QED
  BY <1>1 DEF OneList

(* ListInv by its parts.                                                   *)
ListTypes ==
    /\ num_shared_segments \in Nat
    /\ is_invalid \in [Obj -> BOOLEAN]
    /\ next_seg_num \in [Obj -> SegNum \cup {NoSeg}]
    /\ prev_seg_num \in [Obj -> SegNum \cup {NoSeg}]
    /\ scan \in [Proc -> SegNum \cup {NoSeg}]

ListOf(p) ==
    /\ pc[p] \in {"cas", "unlink", "post", "add"} => is_invalid[cur[p]]
    /\ pc[p] = "add" => Trackers(cur[p]) = {p} /\ next_seg_num[cur[p]] = NoSeg
    /\ pc[p] = "walk" /\ scan[p] # NoSeg =>
          names[scan[p]] \in Listed /\ number[names[scan[p]]] = scan[p]

(* Taking ListInv apart, and putting it together again after a step.       *)
LEMMA ListParts == ListInv => ListTypes /\ Linked(SharedList) /\ \A p \in Proc : ListOf(p)
BY DEF ListInv, ListTypes, ListOf

(* ListInv after a step, from its parts.                                   *)
LEMMA ListSame ==
    ASSUME TrackInv', ListTypes', NEW w, Linked(w)', \A p \in Proc : ListOf(p)'
    PROVE  ListInv'
<1>1. num_shared_segments' \in Nat
  BY DEF ListTypes
<1>2. (SharedList = w)'
  BY <1>1, NextSharedList
<1>3. Linked(SharedList)'
  BY <1>2
<1> QED
  BY <1>3 DEF ListInv, ListTypes, ListOf

(* A step that concerns only the segments in S, which are not in the list. *)
Steady(S) ==
    /\ UNCHANGED <<first_seg_num, last_seg_num, num_shared_segments>>
    /\ \A o \in Obj : o \notin S =>
          /\ number'[o] = number[o] /\ next_seg_num'[o] = next_seg_num[o]
          /\ prev_seg_num'[o] = prev_seg_num[o]
          /\ is_invalid'[o] = is_invalid[o]
          /\ procs_tracking'[o].flag = procs_tracking[o].flag
          /\ (Named(o) \/ Tracked(o))' <=> (Named(o) \/ Tracked(o))
          /\ o \in orphans' <=> o \in orphans
          /\ names[number[o]] = o => names'[number[o]] = o
    /\ \A o \in S : o \notin Listed /\ o \notin Listed'

(* It leaves the list as it is.                                            *)
LEMMA SteadyLinked ==
    ASSUME num_shared_segments \in Nat, NEW w, Linked(w), NEW S, Steady(S)
    PROVE  Linked(w)' /\ \A o : o \in Listed' <=> o \in Listed
<1>1. /\ w \in [1 .. num_shared_segments -> Obj] /\ num_shared_segments' = num_shared_segments
      /\ IsInjective(w) /\ first_seg_num' = first_seg_num /\ last_seg_num' = last_seg_num
  BY DEF Linked, Steady
<1>2. \A o \in Obj : o \in Listed <=> (Named(o) \/ Tracked(o)) /\ o \notin orphans /\ ~is_invalid[o]
  BY ListedFact
<1>3. \A o \in Obj : o \in Listed' <=> (Named(o) \/ Tracked(o))' /\ o \notin orphans' /\ ~is_invalid'[o]
  BY DEF Listed, FreeObj, Named, Tracked
<1>4. \A o \in Obj : o \in Listed' <=> o \in Listed
  BY <1>2, <1>3 DEF Steady
<1>5. \A o \in Obj : (\E i \in 1 .. num_shared_segments : w[i] = o) <=> o \in Listed
  BY <1>2 DEF Linked
<1>6. \A i \in 1 .. num_shared_segments : w[i] \in Obj /\ w[i] \notin S
  BY <1>1, <1>5 DEF Steady
<1>7. \A i \in 1 .. num_shared_segments :
         /\ number'[w[i]] = number[w[i]] /\ next_seg_num'[w[i]] = next_seg_num[w[i]]
         /\ prev_seg_num'[w[i]] = prev_seg_num[w[i]]
         /\ names'[number'[w[i]]] = w[i] /\ ~procs_tracking'[w[i]].flag
  <2> TAKE i \in 1 .. num_shared_segments
  <2>1. PICK o : o = w[i]
    OBVIOUS
  <2>2. names[number[o]] = o /\ ~procs_tracking[o].flag
    BY <2>1 DEF Linked
  <2>3. o \in Obj /\ o \notin S
    BY <1>6, <2>1
  <2>4. /\ number'[o] = number[o] /\ next_seg_num'[o] = next_seg_num[o]
        /\ prev_seg_num'[o] = prev_seg_num[o]
        /\ procs_tracking'[o].flag = procs_tracking[o].flag
        /\ names'[number[o]] = o
    BY <2>2, <2>3 DEF Steady
  <2> QED
    BY <2>1, <2>2, <2>4
<1>8. \A i \in 1 .. num_shared_segments :
         /\ next_seg_num'[w[i]] = IF i = num_shared_segments THEN NoSeg ELSE number'[w[i + 1]]
         /\ prev_seg_num'[w[i]] = IF i = 1 THEN NoSeg ELSE number'[w[i - 1]]
  <2> TAKE i \in 1 .. num_shared_segments
  <2>1. i # num_shared_segments => i + 1 \in 1 .. num_shared_segments
    OBVIOUS
  <2>2. i # 1 => i - 1 \in 1 .. num_shared_segments
    OBVIOUS
  <2> QED
    BY <1>7, <2>1, <2>2 DEF Linked
<1>9. /\ first_seg_num' = IF num_shared_segments = 0 THEN NoSeg ELSE number'[w[1]]
      /\ last_seg_num' = IF num_shared_segments = 0 THEN NoSeg ELSE number'[w[num_shared_segments]]
  <2>1. CASE num_shared_segments = 0
    BY <1>1, <2>1 DEF Linked
  <2>2. CASE num_shared_segments # 0
    <3>1. 1 \in 1 .. num_shared_segments /\ num_shared_segments \in 1 .. num_shared_segments
      BY <2>2
    <3> QED
      BY <1>1, <1>7, <2>2, <3>1 DEF Linked
  <2> QED
    BY <2>1, <2>2
<1>10. Linked(w)'
  <2>1. \A o \in Obj : (\E i \in 1 .. num_shared_segments : w[i] = o) <=>
           (Named(o) \/ Tracked(o))' /\ o \notin orphans' /\ ~is_invalid'[o]
    BY <1>3, <1>4, <1>5
  <2> QED
    BY <1>1, <1>7, <1>8, <1>9, <2>1 DEF Linked
<1> QED
  BY <1>4, <1>10 DEF Listed

(* The segments p opens in a step are in the list, or new.                 *)
HandlesFrame(p) ==
    /\ \A q \in Proc : q # p => handles'[q] = handles[q] /\ scan'[q] = scan[q]
    /\ \A o \in handles'[p] : o \in handles[p] \/ ~is_invalid[o] \/ ~Tracked(o)

(* A process that waits with a segment of its own does not notice.         *)
LEMMA OthersList ==
    ASSUME LockInv, LocalInv, TrackInv, ListInv, NEW p \in Proc, TrackFrame(p), HandlesFrame(p),
           \A q \in Proc, o \in Obj : q # p /\ o \in handles[q] /\ is_invalid[o] =>
              (is_invalid'[o] \/ Trackers(o) = {p}) /\ next_seg_num'[o] = next_seg_num[o],
           \A q \in Proc : q # p /\ pc[q] = "walk" /\ scan[q] # NoSeg =>
              /\ names'[scan[q]] = names[scan[q]] /\ names[scan[q]] \in Listed'
              /\ number'[names[scan[q]]] = scan[q]
    PROVE  \A q \in Proc : q # p => ListOf(q)'
<1> SUFFICES ASSUME NEW q \in Proc, q # p PROVE ListOf(q)'
  OBVIOUS
<1>1. ListOf(q) /\ LocalOf(q) /\ LocalTypes
  BY LocalParts, ListParts
<1>2. pc'[q] = pc[q] /\ cur'[q] = cur[q] /\ scan'[q] = scan[q] /\ handles'[q] = handles[q]
  BY DEF TrackFrame, HandlesFrame
<1>3. ASSUME pc[q] \in {"cas", "unlink", "post", "add"}
      PROVE  is_invalid'[cur[q]] /\ next_seg_num'[cur[q]] = next_seg_num[cur[q]]
             /\ cur[q] \in handles[q] /\ cur[q] \in Obj /\ is_invalid[cur[q]]
  <2>1. cur[q] \in handles[q]
    BY <1>1, <1>3 DEF LocalOf, DetachPC
  <2>2. cur[q] \in Obj /\ is_invalid[cur[q]] /\ q \in Trackers(cur[q])
    BY <1>1, <1>3, <2>1 DEF LocalTypes, ListOf, Trackers
  <2>3. Trackers(cur[q]) # {p}
    BY <2>2
  <2> QED
    BY <2>1, <2>2, <2>3
<1>4. ASSUME pc[q] = "add" PROVE Trackers(cur[q])' = {q}
  <2>1. PICK x : x = cur[q]
    OBVIOUS
  <2>2. Trackers(x) = {q} /\ is_invalid[x] /\ x \in handles[q] /\ Tracked(x)
    BY <1>1, <1>3, <1>4, <2>1 DEF ListOf, Tracked
  <2>3. x \notin handles[p] /\ x \notin handles'[p]
    BY <2>2 DEF Trackers, HandlesFrame
  <2>4. \A r \in Proc : r # p => handles'[r] = handles[r]
    BY DEF HandlesFrame
  <2>5. Trackers(x)' = {q}
    BY <2>2, <2>3, <2>4 DEF Trackers
  <2> QED
    BY <1>2, <2>1, <2>5 DEF Trackers
<1>5. pc[q] = "add" => next_seg_num'[cur[q]] = NoSeg
  BY <1>1, <1>3 DEF ListOf
<1>6. ASSUME pc[q] = "walk", scan[q] # NoSeg
      PROVE  names'[scan[q]] \in Listed' /\ number'[names'[scan[q]]] = scan[q]
  BY <1>6
<1> QED
  BY <1>2, <1>3, <1>4, <1>5, <1>6 DEF ListOf

(* So much for a step that leaves the list as it is.                       *)
LEMMA SteadyList ==
    ASSUME LockInv, LocalInv, TrackInv, ListInv, NEW p \in Proc, TrackFrame(p), HandlesFrame(p),
           TrackInv', ListTypes', NEW S, Steady(S), ListOf(p)',
           \A q \in Proc, o \in Obj : q # p /\ o \in handles[q] /\ is_invalid[o] =>
              is_invalid'[o] /\ next_seg_num'[o] = next_seg_num[o]
    PROVE  ListInv'
<1>1. PICK w : w = SharedList
  OBVIOUS
<1>2. ListTypes /\ Linked(w) /\ (\A q \in Proc : ListOf(q)) /\ num_shared_segments \in Nat
  BY <1>1, ListParts DEF ListTypes
<1>3. Linked(w)' /\ \A o : o \in Listed' <=> o \in Listed
  BY <1>2, SteadyLinked
<1>4. ASSUME NEW q \in Proc, q # p, pc[q] = "walk", scan[q] # NoSeg
      PROVE  /\ names'[scan[q]] = names[scan[q]] /\ names[scan[q]] \in Listed'
             /\ number'[names[scan[q]]] = scan[q]
  <2>1. PICK o : o = names[scan[q]]
    OBVIOUS
  <2>2. o \in Listed /\ number[o] = scan[q] /\ names[number[o]] = o
    BY <1>2, <1>4, <2>1 DEF ListOf
  <2>3. o \in Obj /\ o \notin S
    BY <2>2 DEF Steady, Listed
  <2>4. number'[o] = number[o] /\ names'[number[o]] = o
    BY <2>2, <2>3 DEF Steady
  <2> QED
    BY <1>3, <2>1, <2>2, <2>4
<1>5. \A q \in Proc : q # p => ListOf(q)'
  BY <1>4, OthersList
<1>6. \A q \in Proc : ListOf(q)'
  BY <1>5
<1> QED
  BY <1>3, <1>6, ListSame

------------------------------------------------------------------------------
(* The steps that leave the links alone.                                   *)

links == <<first_seg_num, last_seg_num, num_shared_segments, next_seg_num, prev_seg_num,
           is_invalid>>

(* Opening a segment changes neither what is in circulation nor the flags. *)
LEMMA OpeningKeeps ==
    ASSUME LocalInv, TrackInv, NEW p \in Proc, Opening(p)
    PROVE  /\ UNCHANGED <<names, number, orphans>>
           /\ \A o \in Obj : /\ (Named(o) \/ Tracked(o))' <=> (Named(o) \/ Tracked(o))
                             /\ procs_tracking'[o].flag = procs_tracking[o].flag
           /\ \A q \in Proc : q # p => handles'[q] = handles[q]
           /\ handles[p] \subseteq handles'[p]
           /\ \A o \in handles'[p] : o \in handles[p] \/ ~is_invalid[o]
           /\ handles' \in [Proc -> SUBSET Obj]
<1>1. PICK objs : /\ Opens(p, objs)
                  /\ procs_tracking' = Opened(objs)
                  /\ handles' = [handles EXCEPT ![p] = @ \cup ToSet(objs)]
  BY DEF Opening
<1>2. UNCHANGED <<names, number, orphans>> /\ handles \in [Proc -> SUBSET Obj]
  BY DEF Opening, LocalInv
<1>3. ToSet(objs) \subseteq Obj
  BY <1>1, LenProperties DEF Opens, ToSet
<1>4. \A o \in ToSet(objs) : names[number[o]] = o /\ ~is_invalid[o] /\ number[o] \in SegNum
  BY <1>1, <1>3 DEF Opens, TrackInv
<1>5. /\ \A q \in Proc : q # p => handles'[q] = handles[q]
      /\ handles'[p] = handles[p] \cup ToSet(objs)
      /\ handles' \in [Proc -> SUBSET Obj]
  BY <1>1, <1>2, <1>3
<1>6. \A o \in Obj : procs_tracking'[o].flag = procs_tracking[o].flag
  <2>1. \A c : IncrementCounter(c).flag = c.flag
    BY DEF IncrementCounter
  <2> QED
    BY <1>1, <2>1 DEF Opened
<1>7. ASSUME NEW o \in Obj
      PROVE  (Named(o) \/ Tracked(o))' <=> (Named(o) \/ Tracked(o))
  <2>1. Named(o)' <=> Named(o)
    BY <1>2 DEF Named
  <2>2. Tracked(o) => Tracked(o)'
    BY <1>5 DEF Tracked
  <2>3. Tracked(o)' => Tracked(o) \/ o \in ToSet(objs)
    BY <1>5 DEF Tracked
  <2>4. o \in ToSet(objs) => Named(o)
    BY <1>4 DEF Named
  <2> QED
    BY <2>1, <2>2, <2>3, <2>4
<1> QED
  BY <1>2, <1>4, <1>5, <1>6, <1>7

(* Such a step leaves the list as it is.                                   *)
LEMMA ListOpening ==
    ASSUME LockInv, LocalInv, TrackInv, ListInv, NEW p \in Proc, TrackFrame(p), Opening(p),
           TrackInv', UNCHANGED links, scan' \in [Proc -> SegNum \cup {NoSeg}],
           \A q \in Proc : q # p => scan'[q] = scan[q],
           ListOf(p)'
    PROVE  ListInv'
<1>1. /\ first_seg_num' = first_seg_num /\ last_seg_num' = last_seg_num
      /\ num_shared_segments' = num_shared_segments /\ next_seg_num' = next_seg_num
      /\ prev_seg_num' = prev_seg_num /\ is_invalid' = is_invalid
  BY DEF links
<1>2. ListTypes'
  BY <1>1, ListParts DEF ListTypes
<1>3. PICK S : S = {}
  OBVIOUS
<1>4. Steady(S)
  BY <1>1, <1>3, OpeningKeeps DEF Steady
<1>5. HandlesFrame(p)
  BY OpeningKeeps DEF HandlesFrame
<1> QED
  BY <1>1, <1>2, <1>4, <1>5, SteadyList

(* Where p has nothing to do with the list it cannot know it wrong.        *)
LEMMA ListQuiet ==
    ASSUME LockInv, LocalInv, TrackInv, ListInv, NEW p \in Proc, TrackFrame(p), Opening(p),
           TrackInv', UNCHANGED <<links, scan>>,
           pc'[p] \notin {"cas", "unlink", "post", "add", "walk"}
    PROVE  ListInv'
<1>1. UNCHANGED links /\ scan' = scan /\ scan \in [Proc -> SegNum \cup {NoSeg}]
  BY DEF ListInv, links
<1>2. ListOf(p)'
  BY DEF ListOf
<1> QED
  BY <1>1, <1>2, ListOpening

(* The steps that leave the links alone.                                   *)
LEMMA ListQuietSteps ==
    ASSUME LockInv, LocalInv, TrackInv, ListInv, NEW p \in Proc, TrackFrame(p), UNCHANGED orphans,
           TrackInv',
           \/ DestroyVariable(p) \/ CleanSegmentList(p) \/ CleanVariableList(p) \/ OnError(p)
           \/ Config(p) \/ OnExit(p) \/ ReserveSize(p) \/ ReturnShared(p) \/ DetachStale(p)
           \/ UpdateLatestSegment(p) \/ FetchUpdate(p) \/ ClearUpdate(p)
           \/ CreateOutputs(p) \/ UseOutput(p) \/ AcquireForClear(p) \/ ReleaseAfterClear(p)
           \/ User(p)
    PROVE  ListInv'
<1>1. Opening(p)
  BY QuietSteps
<1>2. pc \in [Proc -> PC]
  BY DEF LockInv
<1>3. ASSUME UNCHANGED <<links, scan>>,
             NEW k, k \notin {"cas", "unlink", "post", "add", "walk"}, pc' = [pc EXCEPT ![p] = k]
      PROVE  ListInv'
  BY <1>1, <1>2, <1>3, ListQuiet
<1>4. ASSUME NEW o, NEW l, CallDetach(p, o, l)
      PROVE  \E k : pc' = [pc EXCEPT ![p] = k] /\ k \notin {"cas", "unlink", "post", "add", "walk"}
  <2>1. pc' = [pc EXCEPT ![p] = DetachEntry(p, o)]
    BY <1>4 DEF CallDetach, Goto
  <2>2. DetachEntry(p, o) \notin {"cas", "unlink", "post", "add", "walk"}
    BY DEF DetachEntry
  <2> QED
    BY <2>1, <2>2
<1>5. ASSUME UNCHANGED pc, pc[p] \notin {"cas", "unlink", "post", "add", "walk"}
      PROVE  \E l : pc' = [pc EXCEPT ![p] = l] /\ l \notin {"cas", "unlink", "post", "add", "walk"}
  <2>1. pc' = [pc EXCEPT ![p] = pc[p]]
    BY <1>2, <1>5
  <2> QED
    BY <1>5, <2>1
<1>6. CASE DestroyVariable(p) \/ CleanVariableList(p) \/ CleanSegmentList(p)
  <2>1. UNCHANGED <<links, scan>> /\ pc[p] \notin {"cas", "unlink", "post", "add", "walk"}
    BY <1>6 DEF DestroyVariable, CleanVariableList, CleanSegmentList, list, links
  <2>2. \E l : pc' = [pc EXCEPT ![p] = l] /\ l \notin {"cas", "unlink", "post", "add", "walk"}
    BY <1>4, <1>5, <1>6, <2>1 DEF DestroyVariable, CleanVariableList, CleanSegmentList, Goto
  <2> QED
    BY <1>3, <2>1, <2>2
<1>7. CASE OnError(p) \/ Config(p) \/ OnExit(p) \/ ReturnShared(p)
  <2>1. UNCHANGED <<links, scan>>
    BY <1>7 DEF OnError, Config, OnExit, ReturnShared, list, links
  <2>2. \E l : pc' = [pc EXCEPT ![p] = l] /\ l \notin {"cas", "unlink", "post", "add", "walk"}
    <3>1. CASE OnExit(p)
      BY <1>4, <3>1 DEF OnExit, Goto
    <3>2. CASE OnError(p)
      <4>1. pc' = [pc EXCEPT ![p] = "idle"]
        BY <3>2 DEF OnError, Goto
      <4>2. "idle" \notin {"cas", "unlink", "post", "add", "walk"}
        OBVIOUS
      <4> QED
        BY <4>1, <4>2, Zenon
    <3>3. CASE Config(p)
      <4>1. pc' = [pc EXCEPT ![p] = "gc"]
        BY <3>3 DEF Config, Goto
      <4>2. "gc" \notin {"cas", "unlink", "post", "add", "walk"}
        OBVIOUS
      <4> QED
        BY <4>1, <4>2, Zenon
    <3>4. CASE ReturnShared(p)
      <4>1. PICK l \in {"command", "gc"} : pc' = [pc EXCEPT ![p] = l]
        BY <3>4 DEF ReturnShared, Goto
      <4> QED
        BY <4>1
    <3> QED
      BY <1>7, <3>1, <3>2, <3>3, <3>4
  <2> QED
    BY <1>3, <2>1, <2>2
<1>8. CASE ReserveSize(p)
  <2>1. /\ UNCHANGED links
        /\ scan' = scan \/ scan' = [scan EXCEPT ![p] = last_seg_num]
        /\ pc' = [pc EXCEPT ![p] = "error"] \/ pc' = [pc EXCEPT ![p] = "create"]
    BY <1>8 DEF ReserveSize, Goto, list, links
  <2>2. pc'[p] = "error" \/ pc'[p] = "create"
    BY <1>2, <2>1
  <2>3. ListOf(p)'
    BY <2>2 DEF ListOf
  <2>4. last_seg_num \in SegNum \cup {NoSeg} /\ scan \in [Proc -> SegNum \cup {NoSeg}]
    BY EndsFact DEF ListInv
  <2>5. scan' \in [Proc -> SegNum \cup {NoSeg}] /\ \A q \in Proc : q # p => scan'[q] = scan[q]
    BY <2>1, <2>4
  <2> QED
    BY <1>1, <2>1, <2>3, <2>5, ListOpening
<1>9. CASE DetachStale(p) \/ UpdateLatestSegment(p)
  <2>1. UNCHANGED <<links, scan>>
    BY <1>9 DEF DetachStale, UpdateLatestSegment, list, links
  <2>2. \E l : pc' = [pc EXCEPT ![p] = l] /\ l \notin {"cas", "unlink", "post", "add", "walk"}
    BY <1>4, <1>9 DEF DetachStale, UpdateLatestSegment, AfterUpdate, Goto
  <2> QED
    BY <1>3, <2>1, <2>2
<1>10. CASE FetchUpdate(p) \/ ClearUpdate(p)
  <2>1. UpdateAllSegments(p) /\ UNCHANGED links
    BY <1>10 DEF FetchUpdate, ClearUpdate, UpdateAllSegments, list, links
  <2>2. CASE Goto(p, AfterUpdate(p)) /\ UNCHANGED scan
    <3>1. pc' = [pc EXCEPT ![p] = AfterUpdate(p)]
          /\ AfterUpdate(p) \notin {"cas", "unlink", "post", "add", "walk"}
      BY <2>2 DEF Goto, AfterUpdate
    <3> QED
      BY <1>3, <2>1, <2>2, <3>1
  <2>3. CASE scan' = [scan EXCEPT ![p] = first_seg_num] /\ Goto(p, "walk")
    <3>1. /\ first_seg_num \in SegNum \cup {NoSeg}
          /\ first_seg_num # NoSeg => /\ names[first_seg_num] \in Obj \ orphans
                                      /\ ~is_invalid[names[first_seg_num]]
                                      /\ number[names[first_seg_num]] = first_seg_num
      BY EndsFact
    <3>2. scan \in [Proc -> SegNum \cup {NoSeg}]
      BY DEF ListInv
    <3>3. /\ scan' \in [Proc -> SegNum \cup {NoSeg}] /\ \A q \in Proc : q # p => scan'[q] = scan[q]
          /\ scan'[p] = first_seg_num /\ pc'[p] = "walk"
      BY <1>2, <2>3, <3>1, <3>2 DEF Goto
    <3>4. names' = names /\ number' = number /\ orphans' = orphans /\ is_invalid' = is_invalid
      BY <1>1, <2>1 DEF Opening, links
    <3>5. ASSUME first_seg_num # NoSeg
          PROVE  names'[first_seg_num] \in Listed' /\ number'[names'[first_seg_num]] = first_seg_num
      <4>1. PICK x : x = names[first_seg_num]
        OBVIOUS
      <4>2. x \in Obj \ orphans /\ ~is_invalid[x] /\ number[x] = first_seg_num
        BY <3>1, <3>5, <4>1
      <4>3. Named(x)'
        BY <3>1, <3>4, <3>5, <4>1 DEF Named
      <4>4. x \in Listed'
        BY <3>4, <4>2, <4>3 DEF Listed, FreeObj, Named
      <4> QED
        BY <3>4, <4>1, <4>2, <4>4
    <3>6. ListOf(p)'
      BY <3>3, <3>5 DEF ListOf
    <3> QED
      BY <1>1, <2>1, <3>3, <3>6, ListOpening
  <2> QED
    BY <2>1, <2>2, <2>3 DEF UpdateAllSegments
<1>11. CASE CreateOutputs(p) \/ UseOutput(p) \/ AcquireForClear(p) \/ ReleaseAfterClear(p)
  <2>1. UNCHANGED <<links, scan>> /\ pc[p] \notin {"cas", "unlink", "post", "add", "walk"}
    BY <1>11 DEF CreateOutputs, UseOutput, AcquireForClear, ReleaseAfterClear, list, links
  <2>2. \E l : pc' = [pc EXCEPT ![p] = l] /\ l \notin {"cas", "unlink", "post", "add", "walk"}
    BY <1>5, <1>11, <2>1 DEF CreateOutputs, UseOutput, AcquireForClear, ReleaseAfterClear, Goto
  <2> QED
    BY <1>3, <2>1, <2>2
<1>12. CASE User(p)
  <2>1. UNCHANGED <<links, scan>> /\ pc[p] \notin {"cas", "unlink", "post", "add", "walk"}
    BY <1>12 DEF User, Call, DropCopy, list, links
  <2>2. \E l : pc' = [pc EXCEPT ![p] = l] /\ l \notin {"cas", "unlink", "post", "add", "walk"}
    BY <1>5, <1>12, <2>1 DEF User, Call, DropCopy, Goto
  <2> QED
    BY <1>3, <2>1, <2>2
<1> QED
  BY <1>6, <1>7, <1>8, <1>9, <1>10, <1>11, <1>12

(* A segment on its way out is no longer in the list.                      *)
LEMMA ListDetach ==
    ASSUME LockInv, LocalInv, TrackInv, ListInv, NEW p \in Proc, TrackFrame(p), UNCHANGED orphans,
           TrackInv', Untrack(p) \/ CompareSwap(p) \/ UnlinkSegment(p) \/ PostAndSubtract(p)
    PROVE  ListInv'
<1>1. /\ pc \in [Proc -> PC] /\ LocalTypes /\ LocalOf(p) /\ ListTypes /\ ListOf(p)
      /\ pc[p] \in DetachPC /\ ret[p] \in ReturnPC
  BY LocalParts, ListParts DEF LockInv, Untrack, CompareSwap, UnlinkSegment, PostAndSubtract, DetachPC
<1>2. PICK x : x = cur[p]
  OBVIOUS
<1>3. x \in handles[p] /\ x \in Obj /\ handles \in [Proc -> SUBSET Obj]
  BY <1>1, <1>2 DEF LocalOf, LocalTypes
<1>4. ret[p] \notin {"cas", "unlink", "post", "add", "walk"}
  BY <1>1 DEF ReturnPC
<1>5. UNCHANGED links /\ scan' = scan
  BY DEF Untrack, CompareSwap, UnlinkSegment, PostAndSubtract, list, links
<1>6. /\ first_seg_num' = first_seg_num /\ last_seg_num' = last_seg_num
      /\ num_shared_segments' = num_shared_segments /\ next_seg_num' = next_seg_num
      /\ prev_seg_num' = prev_seg_num /\ is_invalid' = is_invalid
  BY <1>5 DEF links
<1>7. ListTypes'
  BY <1>1, <1>5, <1>6 DEF ListTypes
<1>8. ASSUME NEW S, Steady(S), ListOf(p)', \A q \in Proc : q # p => handles'[q] = handles[q],
             handles'[p] \subseteq handles[p]
      PROVE  ListInv'
  <2>1. HandlesFrame(p)
    BY <1>5, <1>8 DEF HandlesFrame
  <2> QED
    BY <1>6, <1>7, <1>8, <2>1, SteadyList
<1>9. ASSUME is_invalid[x] PROVE x \notin Listed /\ x \notin Listed'
  BY <1>6, <1>9 DEF Listed
<1>10. CASE Untrack(p)
  <2>1. pc[p] = "untrack" /\ UNCHANGED <<names, number>>
    BY <1>10 DEF Untrack, memory
  <2>2. CASE ~procs_tracking[x].flag /\ procs_tracking[x].count = 1
    <3>1. pc' = [pc EXCEPT ![p] = "remove"] /\ UNCHANGED <<procs_tracking, handles>>
      BY <1>2, <1>10, <2>2 DEF Untrack, Goto
    <3>2. pc'[p] = "remove"
      BY <1>1, <3>1
    <3>3. Opening(p)
      BY <2>1, <3>1, <3>2, OpeningNothing
    <3> QED
      BY <1>5, <3>2, <3>3, ListQuiet
  <2>3. CASE ~(~procs_tracking[x].flag /\ procs_tracking[x].count = 1)
    <3>1. /\ procs_tracking' = [procs_tracking EXCEPT
                                  ![cur[p]] = DecrementCounter(procs_tracking[cur[p]], FALSE)]
          /\ handles' = [handles EXCEPT ![p] = @ \ {cur[p]}]
          /\ pc' = [pc EXCEPT ![p] = ret[p]]
      BY <1>2, <1>10, <2>3 DEF Untrack, Detached, Goto
    <3>2. pc'[p] = ret[p]
      BY <1>1, <3>1
    <3>3. ~(~procs_tracking[cur[p]].flag /\ procs_tracking[cur[p]].count = 1)
      BY <1>2, <2>3
    <3>4. pc'[p] \notin {"unlink", "post"}
      BY <1>4, <3>2
    <3>5. \A o \in Obj : (Tracked(o)' <=> Tracked(o))
                         /\ procs_tracking'[o].flag = procs_tracking[o].flag
      BY <2>1, <3>1, <3>3, <3>4, TrackUntrack
    <3>6. \A o \in Obj : (Named(o) \/ Tracked(o))' <=> (Named(o) \/ Tracked(o))
      BY <2>1, <3>5 DEF Named
    <3>7. PICK S : S = {}
      OBVIOUS
    <3>8. Steady(S)
      BY <1>6, <2>1, <3>5, <3>6, <3>7 DEF Steady
    <3>9. ListOf(p)'
      BY <1>4, <3>2 DEF ListOf
    <3>10. (\A q \in Proc : q # p => handles'[q] = handles[q]) /\ handles'[p] \subseteq handles[p]
      BY <1>3, <3>1
    <3> QED
      BY <1>8, <3>8, <3>9, <3>10
  <2> QED
    BY <2>2, <2>3
<1>11. PICK S : S = {x}
  OBVIOUS
<1>12. CASE CompareSwap(p)
  <2>1. pc[p] = "cas" /\ UNCHANGED <<names, number, handles, cur>>
    BY <1>12 DEF CompareSwap, memory
  <2>2. CASE \E c : procs_tracking' = [procs_tracking EXCEPT ![x] = c] /\ Goto(p, "unlink")
    <3>1. pc'[p] = "unlink" /\ \A o \in Obj : o # x => procs_tracking'[o] = procs_tracking[o]
      BY <1>1, <2>2 DEF Goto, TrackInv
    <3>2. is_invalid[x]
      BY <1>1, <1>2, <2>1 DEF ListOf
    <3>3. \A o : (Named(o) \/ Tracked(o))' <=> (Named(o) \/ Tracked(o))
      BY <2>1 DEF Named, Tracked
    <3>4. Steady(S)
      BY <1>6, <1>9, <1>11, <2>1, <3>1, <3>2, <3>3 DEF Steady
    <3>5. cur'[p] = x /\ is_invalid'[x]
      BY <1>2, <1>6, <2>1, <3>2
    <3>6. ListOf(p)'
      BY <3>1, <3>5 DEF ListOf
    <3> QED
      BY <1>8, <2>1, <3>4, <3>6
  <2>3. CASE Goto(p, "untrack") /\ UNCHANGED procs_tracking
    <3>1. pc'[p] = "untrack"
      BY <1>1, <2>3 DEF Goto
    <3>2. Opening(p)
      BY <2>1, <2>3, <3>1, OpeningNothing
    <3> QED
      BY <1>5, <3>1, <3>2, ListQuiet
  <2> QED
    BY <1>2, <1>12, <2>2, <2>3 DEF CompareSwap
<1>13. CASE UnlinkSegment(p)
  <2>1. /\ pc[p] = "unlink" /\ names' = [names EXCEPT ![number[x]] = NoObj]
        /\ UNCHANGED <<procs_tracking, number, handles>> /\ UNCHANGED cur
        /\ pc' = [pc EXCEPT ![p] = "post"]
    BY <1>2, <1>13 DEF UnlinkSegment, Goto
  <2>2. pc'[p] = "post" /\ cur'[p] = x
    BY <1>1, <1>2, <2>1
  <2>3. names[number[x]] = x /\ number[x] \in SegNum
    BY <1>2, <2>1, <2>2, TrackUnlink
  <2>4. /\ names'[number[x]] = NoObj /\ NoObj \notin Obj
        /\ \A k \in SegNum : k # number[x] => names'[k] = names[k]
    BY <2>1, <2>3, SegmentsAssumption DEF TrackInv
  <2>5. is_invalid[x]
    BY <1>1, <1>2, <2>1 DEF ListOf
  <2>6. \A o \in Obj : o # x => (Named(o)' <=> Named(o))
    BY <2>3, <2>4 DEF Named
  <2>7. \A o \in Obj : o # x => ((Named(o) \/ Tracked(o))' <=> (Named(o) \/ Tracked(o)))
    BY <2>1, <2>6 DEF Tracked
  <2>8. \A o \in Obj : o # x /\ names[number[o]] = o => names'[number[o]] = o
    BY <2>3, <2>4 DEF TrackInv
  <2>9. Steady(S)
    BY <1>6, <1>9, <1>11, <2>1, <2>5, <2>7, <2>8 DEF Steady
  <2>10. is_invalid'[x]
    BY <1>6, <2>5
  <2>11. ListOf(p)'
    BY <2>2, <2>10 DEF ListOf
  <2> QED
    BY <1>8, <2>1, <2>9, <2>11
<1>14. CASE PostAndSubtract(p)
  <2>1. /\ pc[p] = "post" /\ UNCHANGED <<names, number>>
        /\ procs_tracking' = [procs_tracking EXCEPT ![x] = SetCounterPost(@, TRUE)]
        /\ handles' = [handles EXCEPT ![p] = @ \ {x}]
        /\ pc' = [pc EXCEPT ![p] = ret[p]]
    BY <1>2, <1>14 DEF PostAndSubtract, Detached, Goto, memory
  <2>2. pc'[p] = ret[p]
    BY <1>1, <2>1
  <2>3. pc'[p] \notin {"unlink", "post"}
    BY <1>4, <2>2
  <2>4. \A o \in Obj : o # x => (Tracked(o)' <=> Tracked(o))
    BY <1>2, <2>1, <2>3, TrackPost
  <2>5. \A o \in Obj : o # x => ((Named(o) \/ Tracked(o))' <=> (Named(o) \/ Tracked(o)))
    BY <2>1, <2>4 DEF Named
  <2>6. \A o \in Obj : o # x => procs_tracking'[o] = procs_tracking[o]
    BY <2>1 DEF TrackInv
  <2>7. is_invalid[x]
    BY <1>1, <1>2, <2>1 DEF ListOf
  <2>8. Steady(S)
    BY <1>6, <1>9, <1>11, <2>1, <2>5, <2>6, <2>7 DEF Steady
  <2>9. ListOf(p)'
    BY <1>4, <2>2 DEF ListOf
  <2>10. (\A q \in Proc : q # p => handles'[q] = handles[q]) /\ handles'[p] \subseteq handles[p]
    BY <1>3, <2>1
  <2> QED
    BY <1>8, <2>8, <2>9, <2>10
<1> QED
  BY <1>10, <1>12, <1>13, <1>14

(* A segment being created is not in the list yet.                         *)
LEMMA ListCreate ==
    ASSUME LockInv, LocalInv, TrackInv, ListInv, NEW p \in Proc, TrackFrame(p), TrackInv',
           (CreateSegment(p) /\ UNCHANGED orphans) \/ CreateFails(p)
    PROVE  ListInv'
<1>1. pc[p] = "create" /\ pc \in [Proc -> PC] /\ ListTypes /\ LocalTypes
  BY LocalParts, ListParts DEF CreateSegment, CreateFails, LockInv
<1>2. PICK k : k = NextSegNum(scan[p])
  OBVIOUS
<1>3. k \in SegNum /\ scan[p] \in SegNum \cup {NoSeg}
  BY <1>1, <1>2, NextSegNumType DEF ListTypes
<1>4. /\ UNCHANGED <<first_seg_num, last_seg_num, num_shared_segments>>
      /\ \E j \in SegNum \cup {NoSeg} : scan' = [scan EXCEPT ![p] = j]
  BY <1>2, <1>3 DEF CreateSegment, CreateFails
<1>5. scan' \in [Proc -> SegNum \cup {NoSeg}] /\ \A q \in Proc : q # p => scan'[q] = scan[q]
  BY <1>1, <1>4 DEF ListTypes
<1>6. ASSUME NEW l \in {"create", "error"}, pc'[p] = l, UNCHANGED links,
             UNCHANGED <<names, number, orphans, handles, procs_tracking>>
      PROVE  ListInv'
  <2>1. Opening(p)
    BY <1>1, <1>6, OpeningNothing
  <2>2. ListOf(p)'
    BY <1>6 DEF ListOf
  <2> QED
    BY <1>5, <1>6, <2>1, <2>2, ListOpening
<1>7. ASSUME NEW o \in FreeObj, names[k] = NoObj, names' = [names EXCEPT ![k] = o],
             number' = [number EXCEPT ![o] = k],
             NEW c, procs_tracking' = [procs_tracking EXCEPT ![o] = c],
             NEW b \in BOOLEAN, is_invalid' = [is_invalid EXCEPT ![o] = b],
             next_seg_num' = next_seg_num \/ next_seg_num' = [next_seg_num EXCEPT ![o] = NoSeg],
             prev_seg_num' = prev_seg_num \/ prev_seg_num' = [prev_seg_num EXCEPT ![o] = 0],
             handles' = handles \/ handles' = [handles EXCEPT ![p] = @ \cup {o}],
             orphans' \ {o} = orphans \ {o}, b \/ o \in orphans',
             ListOf(p)'
      PROVE  ListInv'
  <2>1. o \in Obj /\ ~Named(o) /\ ~Tracked(o) /\ NoObj \notin Obj /\ 0 \in SegNum
    BY SegmentsAssumption DEF FreeObj, Named, Tracked, SegNum
  <2>2. ListTypes'
    <3>1. next_seg_num' \in [Obj -> SegNum \cup {NoSeg}] /\ prev_seg_num' \in [Obj -> SegNum \cup {NoSeg}]
      BY <1>1, <1>7, <2>1 DEF ListTypes
    <3>2. is_invalid' \in [Obj -> BOOLEAN] /\ num_shared_segments' \in Nat
      BY <1>1, <1>4, <1>7 DEF ListTypes
    <3> QED
      BY <1>5, <3>1, <3>2 DEF ListTypes
  <2>3. \A x \in Obj : x # o =>
           /\ number'[x] = number[x] /\ next_seg_num'[x] = next_seg_num[x]
           /\ prev_seg_num'[x] = prev_seg_num[x] /\ is_invalid'[x] = is_invalid[x]
           /\ procs_tracking'[x] = procs_tracking[x]
    BY <1>1, <1>7 DEF ListTypes, TrackInv
  <2>4. names'[k] = o /\ \A j \in SegNum : j # k => names'[j] = names[j]
    BY <1>3, <1>7 DEF TrackInv
  <2>5. (\A q \in Proc : q # p => handles'[q] = handles[q]) /\ handles'[p] \subseteq handles[p] \cup {o}
        /\ handles[p] \subseteq handles'[p]
    BY <1>1, <1>7 DEF LocalTypes
  <2>6. \A x \in Obj : x # o => (Tracked(x)' <=> Tracked(x))
    BY <2>5 DEF Tracked
  <2>7. \A x \in Obj : x # o => (Named(x)' <=> Named(x))
    BY <1>7, <2>1, <2>4 DEF Named
  <2>8. \A x \in Obj : x # o /\ names[number[x]] = x => names'[number[x]] = x
    BY <1>7, <2>1, <2>4 DEF TrackInv
  <2>9. o \notin Listed /\ o \notin Listed'
    <3>1. o \notin Listed
      BY DEF Listed
    <3>2. is_invalid'[o] = b
      BY <1>1, <1>7, <2>1 DEF ListTypes
    <3> QED
      BY <1>7, <3>1, <3>2 DEF Listed
  <2>10. \A x : x # o => (x \in orphans' <=> x \in orphans)
    BY <1>7
  <2>11. PICK S : S = {o}
    OBVIOUS
  <2>12. Steady(S)
    BY <1>4, <2>3, <2>6, <2>7, <2>8, <2>9, <2>10, <2>11 DEF Steady
  <2>13. HandlesFrame(p)
    BY <1>5, <2>1, <2>5 DEF HandlesFrame
  <2>14. \A q \in Proc, x \in Obj : q # p /\ x \in handles[q] /\ is_invalid[x] =>
            is_invalid'[x] /\ next_seg_num'[x] = next_seg_num[x]
    BY <2>1, <2>3 DEF Tracked
  <2> QED
    BY <1>7, <2>2, <2>12, <2>13, <2>14, SteadyList
<1>8. CASE CreateSegment(p) /\ UNCHANGED orphans
  <2>1. CASE UNCHANGED <<names, number, next_seg_num, prev_seg_num, is_invalid, procs_tracking,
                         handles, pc>>
    <3>1. UNCHANGED links
      BY <1>4, <2>1 DEF links
    <3> QED
      BY <1>1, <1>6, <1>8, <2>1, <3>1
  <2>2. ASSUME NEW o \in FreeObj, names[k] = NoObj, names' = [names EXCEPT ![k] = o],
               number' = [number EXCEPT ![o] = k],
               is_invalid' = [is_invalid EXCEPT ![o] = TRUE],
               next_seg_num' = [next_seg_num EXCEPT ![o] = NoSeg],
               prev_seg_num' = [prev_seg_num EXCEPT ![o] = 0],
               NEW c, procs_tracking' = [procs_tracking EXCEPT ![o] = c],
               handles' = [handles EXCEPT ![p] = @ \cup {o}],
               cur' = [cur EXCEPT ![p] = o], Goto(p, "add")
        PROVE  ListInv'
    <3>1. o \in Obj /\ \A q \in Proc : o \notin handles[q]
      BY DEF FreeObj
    <3>2. cur'[p] = o /\ pc'[p] = "add" /\ is_invalid'[o] /\ next_seg_num'[o] = NoSeg
      BY <1>1, <2>2, <3>1 DEF LocalTypes, ListTypes, Goto
    <3>3. Trackers(o)' = {p}
      BY <1>1, <2>2, <3>1 DEF Trackers, LocalTypes
    <3>4. Trackers(cur[p])' = {p}
      BY <3>2, <3>3 DEF Trackers
    <3>5. ListOf(p)'
      BY <3>2, <3>4 DEF ListOf
    <3> QED
      BY <1>7, <1>8, <2>2, <3>5
  <2> QED
    BY <1>2, <1>8, <2>1, <2>2 DEF CreateSegment
<1>9. CASE CreateFails(p)
  <2>1. pc'[p] = "error" /\ UNCHANGED <<handles, next_seg_num, prev_seg_num>>
    BY <1>1, <1>9 DEF CreateFails, Goto
  <2>2. CASE UNCHANGED <<names, number, procs_tracking, is_invalid, orphans>>
    <3>1. UNCHANGED links
      BY <1>4, <2>1, <2>2 DEF links
    <3> QED
      BY <1>6, <2>1, <2>2, <3>1
  <2>3. ASSUME NEW o \in FreeObj, names[k] = NoObj, names' = [names EXCEPT ![k] = o],
               number' = [number EXCEPT ![o] = k],
               procs_tracking' = [procs_tracking EXCEPT ![o] = ZeroCounter],
               is_invalid' = [is_invalid EXCEPT ![o] = FALSE], orphans' = orphans \cup {o}
        PROVE  ListInv'
    <3>1. ListOf(p)'
      BY <2>1 DEF ListOf
    <3>2. orphans' \ {o} = orphans \ {o} /\ o \in orphans'
      BY <2>3
    <3> QED
      BY <1>7, <2>1, <2>3, <3>1, <3>2
  <2> QED
    BY <1>2, <1>9, <2>2, <2>3 DEF CreateFails
<1> QED
  BY <1>8, <1>9

------------------------------------------------------------------------------
(* The steps that change the links.                                        *)

(* Who changes the list holds the lock, or could take it.                  *)
LEMMA OthersOut ==
    ASSUME LockInv, NEW p \in Proc, CanAcquire(p)
    PROVE  \A q \in Proc : q # p => pc[q] # "walk"
<1> SUFFICES ASSUME NEW q \in Proc, q # p, pc[q] = "walk" PROVE FALSE
  OBVIOUS
<1>1. At(q) = "walk"
  BY DEF At, DetachPC
<1>2. lock_level[q] > 0
  BY <1>1 DEF LockInv
<1>3. lock = q /\ lock # NoProc
  BY <1>2, SegmentsAssumption DEF LockInv
<1> QED
  BY <1>3 DEF CanAcquire, LockInv

(* Segment x becomes the last of the list.                                 *)
LEMMA AppendLinked ==
    ASSUME TrackInv, num_shared_segments \in Nat, NEW w, Linked(w),
           NEW x \in Obj, \A i \in 1 .. num_shared_segments : w[i] # x,
           UNCHANGED <<names, number>>, num_shared_segments' = num_shared_segments + 1,
           first_seg_num' = IF first_seg_num = NoSeg THEN number[x] ELSE first_seg_num,
           last_seg_num' = number[x], next_seg_num'[x] = NoSeg, prev_seg_num'[x] = last_seg_num,
           \A i \in 1 .. num_shared_segments :
              /\ next_seg_num'[w[i]] = IF i = num_shared_segments THEN number[x] ELSE next_seg_num[w[i]]
              /\ prev_seg_num'[w[i]] = prev_seg_num[w[i]]
              /\ ~procs_tracking'[w[i]].flag,
           names[number[x]] = x, ~procs_tracking'[x].flag,
           \A o \in Obj : o \in Listed' <=> o \in Listed \/ o = x
    PROVE  \E v : /\ Linked(v)' /\ v[num_shared_segments + 1] = x
                  /\ \A i \in 1 .. num_shared_segments : v[i] = w[i]
<1> DEFINE v == [j \in 1 .. (num_shared_segments + 1) |->
                    IF j = num_shared_segments + 1 THEN x ELSE w[j]]
<1>1. /\ w \in [1 .. num_shared_segments -> Obj]
      /\ \A i, j \in 1 .. num_shared_segments : w[i] = w[j] => i = j
  BY DEF Linked, IsInjective
<1>2. PICK u : u = v
  OBVIOUS
<1>3. /\ u \in [1 .. (num_shared_segments + 1) -> Obj]
      /\ u[num_shared_segments + 1] = x
      /\ \A j \in 1 .. num_shared_segments : u[j] = w[j]
  BY <1>1, <1>2
<1> HIDE DEF v
<1>4. \A i \in 1 .. (num_shared_segments + 1) :
         i = num_shared_segments + 1 \/ i \in 1 .. num_shared_segments
  OBVIOUS
<1>5. IsInjective(u)
  <2>1. \A i, j \in 1 .. (num_shared_segments + 1) : u[i] = u[j] => i = j
    BY <1>1, <1>3, <1>4
  <2> QED
    BY <1>3, <2>1 DEF IsInjective
<1>6. /\ first_seg_num = NoSeg <=> num_shared_segments = 0
      /\ num_shared_segments # 0 => /\ first_seg_num = number[w[1]]
                                    /\ last_seg_num = number[w[num_shared_segments]]
      /\ num_shared_segments = 0 => last_seg_num = NoSeg
  <2>1. CASE num_shared_segments = 0
    BY <2>1 DEF Linked
  <2>2. CASE num_shared_segments # 0
    <3>1. 1 \in 1 .. num_shared_segments
      BY <2>2
    <3>2. number[w[1]] # NoSeg
      BY <3>1, LinkedFact
    <3> QED
      BY <2>2, <3>2 DEF Linked
  <2> QED
    BY <2>1, <2>2
<1>7. ASSUME NEW i \in 1 .. (num_shared_segments + 1)
      PROVE  /\ next_seg_num'[u[i]] = IF i = num_shared_segments + 1 THEN NoSeg ELSE number[u[i + 1]]
             /\ prev_seg_num'[u[i]] = IF i = 1 THEN NoSeg ELSE number[u[i - 1]]
             /\ names[number[u[i]]] = u[i] /\ ~procs_tracking'[u[i]].flag
  <2>1. CASE i = num_shared_segments + 1
    <3>1. u[i] = x /\ prev_seg_num'[u[i]] = last_seg_num
      BY <1>3, <2>1
    <3>2. CASE num_shared_segments = 0
      BY <1>6, <2>1, <3>1, <3>2
    <3>3. CASE num_shared_segments # 0
      <4>1. i # 1 /\ i - 1 = num_shared_segments /\ i - 1 \in 1 .. num_shared_segments
        BY <2>1, <3>3
      <4>2. last_seg_num = number[u[i - 1]]
        BY <1>3, <1>6, <3>3, <4>1
      <4> QED
        BY <2>1, <3>1, <4>1, <4>2
    <3> QED
      BY <3>2, <3>3
  <2>2. CASE i \in 1 .. num_shared_segments
    <3>1. u[i] = w[i] /\ names[number[w[i]]] = w[i]
      BY <1>3, <2>2 DEF Linked
    <3>2. prev_seg_num[w[i]] = IF i = 1 THEN NoSeg ELSE number[u[i - 1]]
      <4>1. i # 1 => i - 1 \in 1 .. num_shared_segments
        BY <2>2
      <4> QED
        BY <1>3, <2>2, <4>1 DEF Linked
    <3>3. next_seg_num'[w[i]] = number[u[i + 1]]
      <4>1. CASE i = num_shared_segments
        BY <1>3, <2>2, <4>1
      <4>2. CASE i # num_shared_segments
        <5>1. i + 1 \in 1 .. num_shared_segments
          BY <2>2, <4>2
        <5> QED
          BY <1>3, <2>2, <4>2, <5>1 DEF Linked
      <4> QED
        BY <4>1, <4>2
    <3>4. i # num_shared_segments + 1
      BY <2>2
    <3> QED
      BY <2>2, <3>1, <3>2, <3>3, <3>4
  <2> QED
    BY <1>4, <2>1, <2>2
<1>8. /\ first_seg_num' = number[u[1]] /\ last_seg_num' = number[u[num_shared_segments + 1]]
      /\ num_shared_segments + 1 # 0
  <2>1. CASE num_shared_segments = 0
    BY <1>3, <1>6, <2>1
  <2>2. CASE num_shared_segments # 0
    <3>1. 1 \in 1 .. num_shared_segments
      BY <2>2
    <3> QED
      BY <1>3, <1>6, <2>2, <3>1
  <2> QED
    BY <2>1, <2>2
<1>9. \A o \in Obj : (\E i \in 1 .. (num_shared_segments + 1) : u[i] = o) <=>
         (Named(o) \/ Tracked(o))' /\ o \notin orphans' /\ ~is_invalid'[o]
  <2>1. \A o \in Obj : o \in Listed' <=> (Named(o) \/ Tracked(o))' /\ o \notin orphans' /\ ~is_invalid'[o]
    BY DEF Listed, FreeObj, Named, Tracked
  <2>2. \A o \in Obj : (\E i \in 1 .. num_shared_segments : w[i] = o) <=> o \in Listed
    BY ListedFact DEF Linked
  <2>3. \A o \in Obj : (\E i \in 1 .. (num_shared_segments + 1) : u[i] = o) <=> o \in Listed \/ o = x
    <3>1. num_shared_segments + 1 \in 1 .. (num_shared_segments + 1)
          /\ \A i \in 1 .. num_shared_segments : i \in 1 .. (num_shared_segments + 1)
      OBVIOUS
    <3> QED
      BY <1>3, <1>4, <2>2, <3>1
  <2> QED
    BY <2>1, <2>3
<1>10. Linked(u)'
  BY <1>3, <1>5, <1>7, <1>8, <1>9 DEF Linked
<1> QED
  BY <1>3, <1>10

(* Segment w[k] leaves the list, and its neighbours close the gap.         *)
LEMMA RemoveLinked ==
    ASSUME TrackInv, num_shared_segments \in Nat, NEW w, Linked(w), NEW k \in 1 .. num_shared_segments,
           UNCHANGED <<names, number>>, num_shared_segments' = num_shared_segments - 1,
           first_seg_num' = IF k = 1 THEN next_seg_num[w[k]] ELSE first_seg_num,
           last_seg_num' = IF k = num_shared_segments THEN prev_seg_num[w[k]] ELSE last_seg_num,
           \A j \in 1 .. num_shared_segments : j # k =>
              /\ next_seg_num'[w[j]] = IF j = k - 1 THEN next_seg_num[w[k]] ELSE next_seg_num[w[j]]
              /\ prev_seg_num'[w[j]] = IF j = k + 1 THEN prev_seg_num[w[k]] ELSE prev_seg_num[w[j]]
              /\ ~procs_tracking'[w[j]].flag,
           \A o \in Obj : o \in Listed' <=> o \in Listed /\ o # w[k]
    PROVE  \E v : /\ Linked(v)'
                  /\ \A i \in 1 .. (num_shared_segments - 1) : v[i] = IF i < k THEN w[i] ELSE w[i + 1]
<1> DEFINE v == [j \in 1 .. (num_shared_segments - 1) |-> IF j < k THEN w[j] ELSE w[j + 1]]
<1>1. /\ w \in [1 .. num_shared_segments -> Obj]
      /\ \A i, j \in 1 .. num_shared_segments : w[i] = w[j] => i = j
      /\ \A i \in 1 .. num_shared_segments :
            /\ next_seg_num[w[i]] = IF i = num_shared_segments THEN NoSeg ELSE number[w[i + 1]]
            /\ prev_seg_num[w[i]] = IF i = 1 THEN NoSeg ELSE number[w[i - 1]]
            /\ names[number[w[i]]] = w[i]
      /\ first_seg_num = number[w[1]] /\ last_seg_num = number[w[num_shared_segments]]
  <2>1. /\ w \in [1 .. num_shared_segments -> Obj]
        /\ \A i, j \in 1 .. num_shared_segments : w[i] = w[j] => i = j
    BY DEF Linked, IsInjective
  <2>2. num_shared_segments # 0
    OBVIOUS
  <2> QED
    BY <2>1, <2>2 DEF Linked
<1>2. PICK u : u = v
  OBVIOUS
<1>3. \A m \in 1 .. (num_shared_segments - 1) : m \in 1 .. num_shared_segments /\ m + 1 \in 1 .. num_shared_segments
  OBVIOUS
<1>4. /\ u \in [1 .. (num_shared_segments - 1) -> Obj]
      /\ \A m \in 1 .. (num_shared_segments - 1) : u[m] = IF m < k THEN w[m] ELSE w[m + 1]
  BY <1>1, <1>2, <1>3
<1> HIDE DEF v
<1>5. IsInjective(u)
  <2> SUFFICES ASSUME NEW i \in 1 .. (num_shared_segments - 1), NEW j \in 1 .. (num_shared_segments - 1),
                      u[i] = u[j]
               PROVE  i = j
    BY <1>4 DEF IsInjective
  <2>1. CASE i < k /\ j < k
    BY <1>1, <1>3, <1>4, <2>1
  <2>2. CASE ~(i < k) /\ ~(j < k)
    <3>1. i + 1 = j + 1
      BY <1>1, <1>3, <1>4, <2>2
    <3> QED
      BY <3>1
  <2>3. CASE i < k /\ ~(j < k)
    <3>1. i = j + 1
      BY <1>1, <1>3, <1>4, <2>3
    <3> QED
      BY <2>3, <3>1
  <2>4. CASE ~(i < k) /\ j < k
    <3>1. i + 1 = j
      BY <1>1, <1>3, <1>4, <2>4
    <3> QED
      BY <2>4, <3>1
  <2> QED
    BY <2>1, <2>2, <2>3, <2>4
<1>6. ASSUME NEW i \in 1 .. (num_shared_segments - 1)
      PROVE  /\ next_seg_num'[u[i]] = IF i = num_shared_segments - 1 THEN NoSeg ELSE number[u[i + 1]]
             /\ prev_seg_num'[u[i]] = IF i = 1 THEN NoSeg ELSE number[u[i - 1]]
  <2>1. CASE i < k
    <3>1. u[i] = w[i] /\ i \in 1 .. num_shared_segments /\ i # k
      BY <1>3, <1>4, <2>1
    <3>2. next_seg_num'[u[i]] = IF i = num_shared_segments - 1 THEN NoSeg ELSE number[u[i + 1]]
      <4>1. CASE i = k - 1
        <5>1. next_seg_num'[u[i]] = IF k = num_shared_segments THEN NoSeg ELSE number[w[k + 1]]
          BY <1>1, <3>1, <4>1
        <5>2. k # num_shared_segments =>
                 /\ i + 1 \in 1 .. (num_shared_segments - 1) /\ ~(i + 1 < k) /\ (i + 1) + 1 = k + 1
          BY <4>1
        <5>3. k # num_shared_segments => u[i + 1] = w[k + 1]
          BY <1>4, <5>2
        <5> QED
          BY <4>1, <5>1, <5>3
      <4>2. CASE i # k - 1
        <5>1. i + 1 \in 1 .. (num_shared_segments - 1) /\ i + 1 < k
          BY <2>1, <4>2
        <5>2. u[i + 1] = w[i + 1]
          BY <1>4, <5>1
        <5> QED
          BY <1>1, <3>1, <4>2, <5>1, <5>2
      <4> QED
        BY <4>1, <4>2
    <3>3. prev_seg_num'[u[i]] = IF i = 1 THEN NoSeg ELSE number[u[i - 1]]
      <4>1. i # 1 => i - 1 \in 1 .. (num_shared_segments - 1) /\ i - 1 < k
        BY <2>1
      <4>2. i # 1 => u[i - 1] = w[i - 1]
        BY <1>4, <4>1
      <4>3. i # k + 1
        BY <2>1
      <4> QED
        BY <1>1, <3>1, <4>2, <4>3
    <3> QED
      BY <3>2, <3>3
  <2>2. CASE ~(i < k)
    <3>1. u[i] = w[i + 1] /\ i + 1 \in 1 .. num_shared_segments /\ i + 1 # k /\ i + 1 # k - 1
      BY <1>3, <1>4, <2>2
    <3>2. next_seg_num'[u[i]] = IF i = num_shared_segments - 1 THEN NoSeg ELSE number[u[i + 1]]
      <4>1. i # num_shared_segments - 1 => i + 1 \in 1 .. (num_shared_segments - 1) /\ ~(i + 1 < k)
        BY <2>2
      <4>2. i # num_shared_segments - 1 => u[i + 1] = w[(i + 1) + 1]
        BY <1>4, <4>1
      <4>3. next_seg_num'[u[i]] = IF i + 1 = num_shared_segments THEN NoSeg ELSE number[w[(i + 1) + 1]]
        BY <1>1, <3>1
      <4>4. i + 1 = num_shared_segments <=> i = num_shared_segments - 1
        OBVIOUS
      <4> QED
        BY <4>2, <4>3, <4>4
    <3>3. prev_seg_num'[u[i]] = IF i = 1 THEN NoSeg ELSE number[u[i - 1]]
      <4>1. CASE i = k
        <5>1. prev_seg_num'[u[i]] = IF i = 1 THEN NoSeg ELSE number[w[i - 1]]
          BY <1>1, <3>1, <4>1
        <5>2. i # 1 => i - 1 \in 1 .. (num_shared_segments - 1) /\ i - 1 < k
          BY <4>1
        <5>3. i # 1 => u[i - 1] = w[i - 1]
          BY <1>4, <5>2
        <5> QED
          BY <5>1, <5>3
      <4>2. CASE i # k
        <5>1. i # 1 /\ i - 1 \in 1 .. (num_shared_segments - 1) /\ ~(i - 1 < k) /\ (i - 1) + 1 = i
              /\ (i + 1) - 1 = i /\ i + 1 # 1 /\ i + 1 # k + 1
          BY <2>2, <4>2
        <5>2. u[i - 1] = w[i]
          BY <1>4, <5>1
        <5>3. prev_seg_num'[u[i]] = number[w[(i + 1) - 1]]
          BY <1>1, <3>1, <5>1
        <5> QED
          BY <5>1, <5>2, <5>3
      <4> QED
        BY <4>1, <4>2
    <3> QED
      BY <3>2, <3>3
  <2> QED
    BY <2>1, <2>2
<1>7. ASSUME NEW i \in 1 .. (num_shared_segments - 1)
      PROVE  names[number[u[i]]] = u[i] /\ ~procs_tracking'[u[i]].flag
  <2>1. PICK j \in 1 .. num_shared_segments : u[i] = w[j] /\ j # k
    <3>1. CASE i < k
      BY <1>3, <1>4, <3>1
    <3>2. CASE ~(i < k)
      <4>1. i + 1 # k
        BY <3>2
      <4> QED
        BY <1>3, <1>4, <3>2, <4>1
    <3> QED
      BY <3>1, <3>2
  <2> QED
    BY <1>1, <2>1
<1>8. /\ first_seg_num' = IF num_shared_segments - 1 = 0 THEN NoSeg ELSE number[u[1]]
      /\ last_seg_num' = IF num_shared_segments - 1 = 0 THEN NoSeg ELSE number[u[num_shared_segments - 1]]
  <2>1. CASE num_shared_segments = 1
    <3>1. k = 1 /\ num_shared_segments - 1 = 0
      BY <2>1
    <3> QED
      BY <1>1, <2>1, <3>1
  <2>2. CASE num_shared_segments # 1
    <3>1. /\ num_shared_segments - 1 # 0 /\ 1 \in 1 .. (num_shared_segments - 1)
          /\ num_shared_segments - 1 \in 1 .. (num_shared_segments - 1)
          /\ (num_shared_segments - 1) + 1 = num_shared_segments
      BY <2>2
    <3>2. first_seg_num' = number[u[1]]
      <4>1. CASE k = 1
        <5>1. u[1] = w[2] /\ 1 + 1 = 2
          BY <1>4, <3>1, <4>1
        <5> QED
          BY <1>1, <2>2, <4>1, <5>1
      <4>2. CASE k # 1
        <5>1. u[1] = w[1]
          BY <1>4, <3>1, <4>2
        <5> QED
          BY <1>1, <4>2, <5>1
      <4> QED
        BY <4>1, <4>2
    <3>3. last_seg_num' = number[u[num_shared_segments - 1]]
      <4>1. CASE k = num_shared_segments
        <5>1. u[num_shared_segments - 1] = w[num_shared_segments - 1]
          BY <1>4, <3>1, <4>1
        <5> QED
          BY <1>1, <2>2, <4>1, <5>1
      <4>2. CASE k # num_shared_segments
        <5>1. ~(num_shared_segments - 1 < k)
          BY <4>2
        <5>2. u[num_shared_segments - 1] = w[num_shared_segments]
          BY <1>4, <3>1, <5>1
        <5> QED
          BY <1>1, <4>2, <5>2
      <4> QED
        BY <4>1, <4>2
    <3> QED
      BY <3>1, <3>2, <3>3
  <2> QED
    BY <2>1, <2>2
<1>9. \A o \in Obj : (\E i \in 1 .. (num_shared_segments - 1) : u[i] = o) <=>
         (Named(o) \/ Tracked(o))' /\ o \notin orphans' /\ ~is_invalid'[o]
  <2>1. \A o \in Obj : o \in Listed' <=> (Named(o) \/ Tracked(o))' /\ o \notin orphans' /\ ~is_invalid'[o]
    BY DEF Listed, FreeObj, Named, Tracked
  <2>2. \A o \in Obj : (\E i \in 1 .. num_shared_segments : w[i] = o) <=> o \in Listed
    BY ListedFact DEF Linked
  <2>3. ASSUME NEW i \in 1 .. (num_shared_segments - 1) PROVE \E j \in 1 .. num_shared_segments : u[i] = w[j] /\ j # k
    <3>1. CASE i < k
      BY <1>3, <1>4, <3>1
    <3>2. CASE ~(i < k)
      <4>1. i + 1 # k
        BY <3>2
      <4> QED
        BY <1>3, <1>4, <3>2, <4>1
    <3> QED
      BY <3>1, <3>2
  <2>4. ASSUME NEW j \in 1 .. num_shared_segments, j # k PROVE \E i \in 1 .. (num_shared_segments - 1) : u[i] = w[j]
    <3>1. CASE j < k
      <4>1. j \in 1 .. (num_shared_segments - 1)
        BY <3>1
      <4> QED
        BY <1>4, <3>1, <4>1
    <3>2. CASE ~(j < k)
      <4>1. j - 1 \in 1 .. (num_shared_segments - 1) /\ ~(j - 1 < k) /\ (j - 1) + 1 = j
        BY <2>4, <3>2
      <4>2. u[j - 1] = w[j]
        BY <1>4, <4>1
      <4> QED
        BY <4>1, <4>2
    <3> QED
      BY <3>1, <3>2
  <2>5. \A o \in Obj : (\E i \in 1 .. (num_shared_segments - 1) : u[i] = o) <=> o \in Listed /\ o # w[k]
    <3> TAKE o \in Obj
    <3>1. ASSUME NEW i \in 1 .. (num_shared_segments - 1), u[i] = o PROVE o \in Listed /\ o # w[k]
      <4>1. PICK j \in 1 .. num_shared_segments : u[i] = w[j] /\ j # k
        BY <2>3
      <4> QED
        BY <1>1, <2>2, <3>1, <4>1
    <3>2. ASSUME o \in Listed, o # w[k] PROVE \E i \in 1 .. (num_shared_segments - 1) : u[i] = o
      <4>1. PICK j \in 1 .. num_shared_segments : w[j] = o
        BY <2>2, <3>2
      <4> QED
        BY <2>4, <3>2, <4>1
    <3> QED
      BY <3>1, <3>2
  <2> QED
    BY <2>1, <2>5
<1>10. Linked(u)'
  BY <1>4, <1>5, <1>6, <1>7, <1>8, <1>9 DEF Linked
<1> QED
  BY <1>4, <1>10

(* The shared list after a step: x has been put at its end, or its k-th    *)
(* segment has gone, and nobody is up to date.                             *)
ListLonger(x) ==
    /\ up_to_date' = {} /\ num_shared_segments' = num_shared_segments + 1
    /\ SharedList'[num_shared_segments + 1] = x
    /\ \A i \in 1 .. num_shared_segments : SharedList'[i] = SharedList[i]

ListShorter(k) ==
    /\ up_to_date' = {} /\ num_shared_segments' = num_shared_segments - 1
    /\ \A i \in 1 .. (num_shared_segments - 1) :
          SharedList'[i] = IF i < k THEN SharedList[i] ELSE SharedList[i + 1]

(* Taking a segment out of the shared list (msh_RemoveSegmentFromSharedList). *)
LEMMA ListRemove ==
    ASSUME LockInv, LocalInv, TrackInv, ListInv, NEW p \in Proc, TrackFrame(p), Opening(p), TrackInv',
           NEW o \in handles[p], NEW l, pc[p] \in DetachPC => cur[p] = o,
           RemoveSegmentFromSharedList(p, o, l), scan' = scan,
           pc'[p] \notin {"unlink", "post", "add", "walk"}, pc'[p] = "cas" => cur'[p] = o
    PROVE  /\ ListInv'
           /\ \/ UNCHANGED <<links, up_to_date>>
              \/ \E k \in 1 .. num_shared_segments : ListShorter(k)
<1>1. ListTypes /\ LocalTypes /\ o \in Obj /\ Tracked(o) /\ o \notin orphans
  BY ListParts, LocalParts DEF LocalInv, TrackInv, Tracked
<1>2. is_invalid'[o]
  BY <1>1 DEF RemoveSegmentFromSharedList, ListTypes, list
<1>3. ListOf(p)'
  BY <1>2 DEF ListOf
<1>4. CASE is_invalid[o]
  <2>1. UNCHANGED links /\ UNCHANGED up_to_date
    BY <1>4 DEF RemoveSegmentFromSharedList, list, links
  <2> QED
    BY <1>1, <1>3, <2>1, ListOpening DEF ListTypes
<1>5. CASE ~is_invalid[o]
  <2>1. PICK w : w = SharedList
    OBVIOUS
  <2>2. num_shared_segments \in Nat /\ Linked(w)
    BY <2>1 DEF ListInv
  <2>3. PICK k \in 1 .. num_shared_segments : w[k] = o
    BY <1>1, <1>5, <2>2 DEF Linked
  <2>4. /\ CanAcquire(p)
        /\ is_invalid' = [is_invalid EXCEPT ![o] = TRUE]
        /\ first_seg_num' = IF number[o] = first_seg_num THEN next_seg_num[o] ELSE first_seg_num
        /\ last_seg_num' = IF number[o] = last_seg_num THEN prev_seg_num[o] ELSE last_seg_num
        /\ next_seg_num' = [x \in Obj |-> IF x = o THEN NoSeg
                                ELSE IF number[o] # first_seg_num /\ x = NodeOf(p, prev_seg_num[o])
                                THEN next_seg_num[o] ELSE next_seg_num[x]]
        /\ prev_seg_num' = [x \in Obj |-> IF x = o THEN NoSeg
                                ELSE IF number[o] # last_seg_num /\ x = NodeOf(p, next_seg_num[o])
                                THEN prev_seg_num[o] ELSE prev_seg_num[x]]
        /\ num_shared_segments' = num_shared_segments - 1 /\ up_to_date' = {}
    BY <1>5 DEF RemoveSegmentFromSharedList, IncrementRevisionNumber
  <2>5. /\ number[o] # first_seg_num => NodeOf(p, prev_seg_num[o]) = names[prev_seg_num[o]]
        /\ number[o] # last_seg_num => NodeOf(p, next_seg_num[o]) = names[next_seg_num[o]]
    BY <1>5, RemoveOpens
  <2>6. /\ number[o] = first_seg_num <=> k = 1
        /\ number[o] = last_seg_num <=> k = num_shared_segments
        /\ k # 1 => k - 1 \in 1 .. num_shared_segments /\ prev_seg_num[o] = number[w[k - 1]]
        /\ k # num_shared_segments =>
              k + 1 \in 1 .. num_shared_segments /\ next_seg_num[o] = number[w[k + 1]]
    BY <2>2, <2>3, LinkedFact
  <2>7. \A j \in 1 .. num_shared_segments :
           w[j] \in Obj /\ names[number[w[j]]] = w[j] /\ ~is_invalid[w[j]] /\ ~procs_tracking[w[j]].flag
    BY <2>2, LinkedFact DEF Linked
  <2>8. \A i, j \in 1 .. num_shared_segments : w[i] = w[j] => i = j
    BY <2>2 DEF Linked, IsInjective
  <2>9. /\ k # 1 => NodeOf(p, prev_seg_num[o]) = w[k - 1]
        /\ k # num_shared_segments => NodeOf(p, next_seg_num[o]) = w[k + 1]
    BY <2>5, <2>6, <2>7
  <2>10. \A x \in Obj : /\ next_seg_num'[x] = IF x = o THEN NoSeg
                              ELSE IF k # 1 /\ x = w[k - 1] THEN next_seg_num[o] ELSE next_seg_num[x]
                        /\ prev_seg_num'[x] = IF x = o THEN NoSeg
                              ELSE IF k # num_shared_segments /\ x = w[k + 1] THEN prev_seg_num[o]
                              ELSE prev_seg_num[x]
    BY <2>4, <2>6, <2>9
  <2>11. /\ names' = names /\ number' = number /\ orphans' = orphans
         /\ \A x \in Obj : /\ (Named(x) \/ Tracked(x))' <=> (Named(x) \/ Tracked(x))
                           /\ procs_tracking'[x].flag = procs_tracking[x].flag
    BY OpeningKeeps
  <2>12. \A x \in Obj : is_invalid'[x] = (IF x = o THEN TRUE ELSE is_invalid[x])
    BY <1>1, <2>4 DEF ListTypes
  <2>13. \A x \in Obj : x \in Listed' <=> x \in Listed /\ x # w[k]
    <3>1. \A x \in Obj : x \in Listed' <=> (Named(x) \/ Tracked(x))' /\ x \notin orphans' /\ ~is_invalid'[x]
      BY DEF Listed, FreeObj, Named, Tracked
    <3> QED
      BY <2>3, <2>11, <2>12, <3>1, ListedFact
  <2>14. ASSUME NEW j \in 1 .. num_shared_segments, j # k
         PROVE  /\ next_seg_num'[w[j]] = IF j = k - 1 THEN next_seg_num[w[k]] ELSE next_seg_num[w[j]]
                /\ prev_seg_num'[w[j]] = IF j = k + 1 THEN prev_seg_num[w[k]] ELSE prev_seg_num[w[j]]
                /\ ~procs_tracking'[w[j]].flag
    <3>1. w[j] # o /\ w[j] \in Obj /\ ~procs_tracking'[w[j]].flag
      BY <2>3, <2>7, <2>8, <2>11, <2>14
    <3>2. (k # 1 /\ w[j] = w[k - 1]) <=> j = k - 1
      BY <2>6, <2>8
    <3>3. (k # num_shared_segments /\ w[j] = w[k + 1]) <=> j = k + 1
      BY <2>6, <2>8
    <3> QED
      BY <2>3, <2>10, <3>1, <3>2, <3>3
  <2>15. /\ first_seg_num' = IF k = 1 THEN next_seg_num[w[k]] ELSE first_seg_num
         /\ last_seg_num' = IF k = num_shared_segments THEN prev_seg_num[w[k]] ELSE last_seg_num
    BY <2>3, <2>4, <2>6
  <2>16. PICK v :
            /\ Linked(v)'
            /\ \A i \in 1 .. (num_shared_segments - 1) : v[i] = IF i < k THEN w[i] ELSE w[i + 1]
    BY <2>2, <2>4, <2>11, <2>13, <2>14, <2>15, RemoveLinked
  <2>17. ListTypes'
    <3>1. num_shared_segments' \in Nat
      BY <2>2, <2>3, <2>4
    <3>2. is_invalid' \in [Obj -> BOOLEAN]
      BY <1>1, <2>4 DEF ListTypes
    <3>3. next_seg_num[o] \in SegNum \cup {NoSeg} /\ prev_seg_num[o] \in SegNum \cup {NoSeg}
      BY <1>1 DEF ListTypes
    <3>4. next_seg_num' \in [Obj -> SegNum \cup {NoSeg}] /\ prev_seg_num' \in [Obj -> SegNum \cup {NoSeg}]
      BY <1>1, <2>4, <3>3 DEF ListTypes
    <3> QED
      BY <1>1, <3>1, <3>2, <3>4 DEF ListTypes
  <2>18. HandlesFrame(p)
    BY OpeningKeeps DEF HandlesFrame
  <2>19. \A q \in Proc, x \in Obj : q # p /\ x \in handles[q] /\ is_invalid[x] =>
            (is_invalid'[x] \/ Trackers(x) = {p}) /\ next_seg_num'[x] = next_seg_num[x]
    BY <1>5, <2>6, <2>7, <2>10, <2>12
  <2>20. \A q \in Proc : q # p /\ pc[q] = "walk" /\ scan[q] # NoSeg =>
            /\ names'[scan[q]] = names[scan[q]] /\ names[scan[q]] \in Listed'
            /\ number'[names[scan[q]]] = scan[q]
    BY <2>4, OthersOut
  <2>21. \A q \in Proc : q # p => ListOf(q)'
    BY <2>18, <2>19, <2>20, OthersList
  <2>22. \A q \in Proc : ListOf(q)'
    BY <1>3, <2>21
  <2>23. SharedList' = v
    BY <2>16, <2>17, NextSharedList DEF ListTypes
  <2>24. ListShorter(k)
    BY <2>1, <2>4, <2>16, <2>23 DEF ListShorter
  <2> QED
    BY <2>16, <2>17, <2>22, <2>24, ListSame
<1> QED
  BY <1>4, <1>5

(* Adding one (msh_AddSegmentToSharedList).                                *)
LEMMA ListAdd ==
    ASSUME LockInv, LocalInv, TrackInv, ListInv, NEW p \in Proc, TrackFrame(p), Opening(p), TrackInv',
           AddSegmentToSharedList(p)
    PROVE  /\ ListInv'
           /\ \/ UNCHANGED <<links, up_to_date>>
              \/ ListLonger(cur[p]) /\ num_shared_segments < max_shared_segments
                 /\ cur[p] \in Obj \ Listed
<1>1. /\ ListTypes /\ LocalTypes /\ LocalOf(p) /\ ListOf(p) /\ pc \in [Proc -> PC]
      /\ pc[p] = "add" /\ scan' = scan
  BY ListParts, LocalParts DEF LockInv, AddSegmentToSharedList
<1>2. PICK x : x = cur[p]
  OBVIOUS
<1>3. /\ x \in handles[p] /\ x \in Obj /\ is_invalid[x] /\ Trackers(x) = {p} /\ next_seg_num[x] = NoSeg
      /\ Tracked(x)
  BY <1>1, <1>2 DEF LocalOf, LocalTypes, ListOf, Tracked
<1>4. names[number[x]] = x /\ number[x] \in SegNum /\ x \notin orphans
  BY <1>1, <1>3 DEF TrackInv, TrackedIsPinned
<1>5. ~procs_tracking[x].flag
  <2> SUFFICES ASSUME procs_tracking[x].flag PROVE FALSE
    OBVIOUS
  <2>1. PICK q \in Proc : pc[q] \in {"unlink", "post"} /\ cur[q] = x
    BY <1>3 DEF TrackInv
  <2>2. Trackers(x) = {q}
    BY <2>1 DEF TrackInv
  <2> QED
    BY <1>1, <1>3, <2>1, <2>2
<1>6. CASE num_shared_segments >= max_shared_segments /\ CallDetach(p, x, "error") /\ UNCHANGED list
  <2>1. UNCHANGED <<links, up_to_date, scan>>
    BY <1>1, <1>6 DEF list, links
  <2>2. pc'[p] \notin {"cas", "unlink", "post", "add", "walk"}
    BY <1>1, <1>6 DEF CallDetach, Goto, DetachEntry
  <2> QED
    BY <2>1, <2>2, ListQuiet
<1>7. CASE /\ CanAcquire(p)
           /\ num_shared_segments' = num_shared_segments + 1
           /\ first_seg_num' = IF first_seg_num = NoSeg THEN number[x] ELSE first_seg_num
           /\ next_seg_num' =
                 IF first_seg_num = NoSeg THEN next_seg_num
                 ELSE [next_seg_num EXCEPT ![NodeOf(p, last_seg_num)] = number[x]]
           /\ prev_seg_num' = [prev_seg_num EXCEPT ![x] = last_seg_num]
           /\ is_invalid' = [is_invalid EXCEPT ![x] = FALSE]
           /\ last_seg_num' = number[x]
           /\ up_to_date' = {} /\ num_shared_segments < max_shared_segments
           /\ Goto(p, "return")
  <2>1. PICK w : w = SharedList
    OBVIOUS
  <2>2. num_shared_segments \in Nat /\ Linked(w)
    BY <2>1 DEF ListInv
  <2>3. \A j \in 1 .. num_shared_segments :
           w[j] \in Obj /\ names[number[w[j]]] = w[j] /\ ~is_invalid[w[j]] /\ ~procs_tracking[w[j]].flag
    BY <2>2, LinkedFact DEF Linked
  <2>4. \A i, j \in 1 .. num_shared_segments : w[i] = w[j] => i = j
    BY <2>2 DEF Linked, IsInjective
  <2>5. \A j \in 1 .. num_shared_segments : w[j] # x
    BY <1>3, <2>3
  <2>6. /\ first_seg_num = NoSeg <=> num_shared_segments = 0
        /\ last_seg_num \in SegNum \cup {NoSeg}
    BY EndsFact
  <2>7. num_shared_segments # 0 =>
           /\ last_seg_num = number[w[num_shared_segments]]
           /\ num_shared_segments \in 1 .. num_shared_segments
           /\ NodeOf(p, last_seg_num) = w[num_shared_segments]
    <3> SUFFICES ASSUME num_shared_segments # 0
                 PROVE  /\ last_seg_num = number[w[num_shared_segments]]
                        /\ num_shared_segments \in 1 .. num_shared_segments
                        /\ NodeOf(p, last_seg_num) = w[num_shared_segments]
      OBVIOUS
    <3>1. num_shared_segments \in 1 .. num_shared_segments
      BY <2>2
    <3>2. last_seg_num = number[w[num_shared_segments]]
      BY <2>2 DEF Linked
    <3>3. last_seg_num # NoSeg /\ pc[p] \notin DetachPC
      BY <1>1, EndsFact DEF DetachPC
    <3>4. NodeOf(p, last_seg_num) = names[last_seg_num]
      BY <3>3, LastOpens
    <3> QED
      BY <2>3, <3>1, <3>2, <3>4
  <2>8. \A o \in Obj : next_seg_num'[o] = IF num_shared_segments # 0 /\ o = w[num_shared_segments]
                                          THEN number[x] ELSE next_seg_num[o]
    BY <1>1, <1>7, <2>6, <2>7 DEF ListTypes
  <2>9. /\ names' = names /\ number' = number /\ orphans' = orphans
        /\ \A o \in Obj : /\ (Named(o) \/ Tracked(o))' <=> (Named(o) \/ Tracked(o))
                          /\ procs_tracking'[o].flag = procs_tracking[o].flag
    BY OpeningKeeps
  <2>10. \A o \in Obj : is_invalid'[o] = (IF o = x THEN FALSE ELSE is_invalid[o])
    BY <1>1, <1>3, <1>7 DEF ListTypes
  <2>11. \A o \in Obj : o \in Listed' <=> o \in Listed \/ o = x
    <3>1. \A o \in Obj : o \in Listed' <=> (Named(o) \/ Tracked(o))' /\ o \notin orphans' /\ ~is_invalid'[o]
      BY DEF Listed, FreeObj, Named, Tracked
    <3> QED
      BY <1>3, <1>4, <2>9, <2>10, <3>1, ListedFact
  <2>12. prev_seg_num'[x] = last_seg_num /\ \A o \in Obj : o # x => prev_seg_num'[o] = prev_seg_num[o]
    BY <1>1, <1>3, <1>7 DEF ListTypes
  <2>13. \A i \in 1 .. num_shared_segments :
            /\ next_seg_num'[w[i]] = IF i = num_shared_segments THEN number[x] ELSE next_seg_num[w[i]]
            /\ prev_seg_num'[w[i]] = prev_seg_num[w[i]]
            /\ ~procs_tracking'[w[i]].flag
    <3> TAKE i \in 1 .. num_shared_segments
    <3>1. w[i] \in Obj /\ w[i] # x /\ ~procs_tracking[w[i]].flag
      BY <2>3, <2>5
    <3>2. (num_shared_segments # 0 /\ w[i] = w[num_shared_segments]) <=> i = num_shared_segments
      BY <2>4, <2>7
    <3> QED
      BY <2>8, <2>9, <2>12, <3>1, <3>2
  <2>14. next_seg_num'[x] = NoSeg /\ ~procs_tracking'[x].flag
    BY <1>3, <1>5, <2>5, <2>7, <2>8, <2>9
  <2>15. PICK v : /\ Linked(v)' /\ v[num_shared_segments + 1] = x
                 /\ \A i \in 1 .. num_shared_segments : v[i] = w[i]
    BY <1>3, <1>4, <1>7, <2>2, <2>5, <2>9, <2>11, <2>12, <2>13, <2>14, AppendLinked
  <2>16. ListTypes'
    <3>1. next_seg_num' \in [Obj -> SegNum \cup {NoSeg}]
      BY <1>1, <1>4, <1>7 DEF ListTypes
    <3>2. prev_seg_num' \in [Obj -> SegNum \cup {NoSeg}]
      BY <1>1, <1>7, <2>6 DEF ListTypes
    <3>3. is_invalid' \in [Obj -> BOOLEAN] /\ num_shared_segments' \in Nat
      <4>1. is_invalid \in [Obj -> BOOLEAN] /\ is_invalid' = [is_invalid EXCEPT ![x] = FALSE]
        BY <1>1, <1>7 DEF ListTypes
      <4>2. is_invalid' \in [Obj -> BOOLEAN]
        BY <4>1
      <4> QED
        BY <1>7, <2>2, <4>2
    <3> QED
      BY <1>1, <3>1, <3>2, <3>3 DEF ListTypes
  <2>17. HandlesFrame(p)
    BY <1>1, OpeningKeeps DEF HandlesFrame
  <2>18. \A q \in Proc, o \in Obj : q # p /\ o \in handles[q] /\ is_invalid[o] =>
            (is_invalid'[o] \/ Trackers(o) = {p}) /\ next_seg_num'[o] = next_seg_num[o]
    BY <1>3, <2>3, <2>7, <2>8, <2>10
  <2>19. \A q \in Proc : q # p /\ pc[q] = "walk" /\ scan[q] # NoSeg =>
            /\ names'[scan[q]] = names[scan[q]] /\ names[scan[q]] \in Listed'
            /\ number'[names[scan[q]]] = scan[q]
    BY <1>7, OthersOut
  <2>20. \A q \in Proc : q # p => ListOf(q)'
    BY <2>17, <2>18, <2>19, OthersList
  <2>21. ListOf(p)'
    <3>1. pc'[p] = "return"
      BY <1>1, <1>7 DEF Goto
    <3> QED
      BY <3>1 DEF ListOf
  <2>22. \A q \in Proc : ListOf(q)'
    BY <2>20, <2>21
  <2>23. SharedList' = v
    BY <2>15, <2>16, NextSharedList DEF ListTypes
  <2>24. ListLonger(x) /\ x \in Obj \ Listed
    BY <1>3, <1>7, <2>1, <2>15, <2>23 DEF ListLonger, Listed
  <2> QED
    BY <1>2, <1>7, <2>15, <2>16, <2>22, <2>24, ListSame
<1> QED
  BY <1>2, <1>6, <1>7 DEF AddSegmentToSharedList, IncrementRevisionNumber

(* One step of the walk along the list, and the look at its end.           *)
LEMMA ListWalk ==
    ASSUME LockInv, LocalInv, TrackInv, ListInv, NEW p \in Proc, TrackFrame(p), Opening(p), TrackInv',
           WalkSharedList(p) \/ OpenLatest(p)
    PROVE  ListInv'
<1>1. /\ ListTypes /\ LocalTypes /\ ListOf(p) /\ pc \in [Proc -> PC]
  BY ListParts, LocalParts DEF LockInv
<1>2. UNCHANGED links
  BY DEF WalkSharedList, OpenLatest, list, links
<1>3. CASE OpenLatest(p)
  <2>1. scan' = scan /\ pc'[p] = "output"
    BY <1>1, <1>3 DEF OpenLatest, Goto
  <2> QED
    BY <1>2, <2>1, ListQuiet
<1>4. CASE WalkSharedList(p)
  <2>1. CASE scan[p] = NoSeg
    <3>1. scan' = scan /\ pc'[p] = "stale"
      BY <1>1, <1>4, <2>1 DEF WalkSharedList, Goto
    <3> QED
      BY <1>2, <3>1, ListQuiet
  <2>2. CASE scan[p] # NoSeg
    <3>1. PICK o : o = NodeOf(p, scan[p])
      OBVIOUS
    <3>2. pc[p] = "walk" /\ pc' = pc /\ scan' = [scan EXCEPT ![p] = next_seg_num[o]]
      BY <1>4, <2>2, <3>1 DEF WalkSharedList
    <3>3. scan[p] \in SegNum /\ names[scan[p]] \in Listed
      BY <1>1, <2>2, <3>2 DEF ListTypes, ListOf
    <3>4. names[scan[p]] \in Obj \ orphans /\ ~is_invalid[names[scan[p]]] /\ pc[p] \notin DetachPC
      BY <3>2, <3>3 DEF Listed, DetachPC
    <3>5. o = names[scan[p]]
      BY <3>1, <3>3, <3>4, UnopenedFact
    <3>6. PICK w : w = SharedList
      OBVIOUS
    <3>7. num_shared_segments \in Nat /\ Linked(w)
      BY <3>6 DEF ListInv
    <3>8. \A x \in Obj : (\E i \in 1 .. num_shared_segments : w[i] = x) <=> x \in Listed
      BY <3>7, ListedFact DEF Linked
    <3>9. PICK i \in 1 .. num_shared_segments : w[i] = o
      BY <3>3, <3>4, <3>5, <3>8
    <3>10. next_seg_num[o] # NoSeg =>
              \E x \in Listed : number[x] = next_seg_num[o] /\ names[number[x]] = x
      <4>1. CASE i = num_shared_segments
        BY <3>7, <3>9, <4>1 DEF Linked
      <4>2. CASE i # num_shared_segments
        <5>1. i + 1 \in 1 .. num_shared_segments /\ next_seg_num[o] = number[w[i + 1]]
          BY <3>7, <3>9, <4>2, LinkedFact
        <5>2. w[i + 1] \in Obj /\ names[number[w[i + 1]]] = w[i + 1]
          BY <3>7, <5>1, LinkedFact
        <5> QED
          BY <3>8, <5>1, <5>2
      <4> QED
        BY <4>1, <4>2
    <3>11. next_seg_num[o] \in SegNum \cup {NoSeg}
      BY <1>1, <3>4, <3>5 DEF ListTypes
    <3>12. /\ scan' \in [Proc -> SegNum \cup {NoSeg}] /\ scan'[p] = next_seg_num[o]
           /\ \A q \in Proc : q # p => scan'[q] = scan[q]
      BY <1>1, <3>2, <3>11 DEF ListTypes
    <3>13. names' = names /\ number' = number /\ \A x \in Obj : x \in Listed => x \in Listed'
      <4>1. \A x \in Obj : x \in Listed' <=> (Named(x) \/ Tracked(x))' /\ x \notin orphans' /\ ~is_invalid'[x]
        BY DEF Listed, FreeObj, Named, Tracked
      <4> QED
        BY <1>2, <4>1, ListedFact, OpeningKeeps DEF links
    <3>14. scan'[p] # NoSeg => names'[scan'[p]] \in Listed' /\ number'[names'[scan'[p]]] = scan'[p]
      <4> SUFFICES ASSUME next_seg_num[o] # NoSeg
                   PROVE  /\ names[next_seg_num[o]] \in Listed'
                          /\ number[names[next_seg_num[o]]] = next_seg_num[o]
        BY <3>12, <3>13
      <4>1. PICK x \in Listed : number[x] = next_seg_num[o] /\ names[number[x]] = x
        BY <3>10
      <4>2. x \in Obj
        BY DEF Listed
      <4> QED
        BY <3>13, <4>1, <4>2
    <3>15. ListOf(p)'
      BY <3>2, <3>14 DEF ListOf
    <3> QED
      BY <1>2, <3>12, <3>15, ListOpening
  <2> QED
    BY <2>1, <2>2
<1> QED
  BY <1>3, <1>4

(* Taking garbage, or what is to be cleared, out of the list.              *)
LEMMA ListTake ==
    ASSUME LockInv, LocalInv, TrackInv, ListInv, NEW p \in Proc, TrackFrame(p), Opening(p), TrackInv',
           Collect(p) \/ RemoveLast(p) \/ ClearFirst(p) \/ \E o \in Obj : ClearOne(p, o)
    PROVE  /\ ListInv'
           /\ \/ UNCHANGED <<links, up_to_date>>
              \/ \E k \in 1 .. num_shared_segments : ListShorter(k)
<1>1. LocalTypes /\ LocalOf(p) /\ pc \in [Proc -> PC]
  BY LocalParts DEF LockInv
<1>2. ASSUME NEW o, NEW l, CallDetach(p, o, l)
      PROVE  pc'[p] \notin {"unlink", "post", "add", "walk", "cas"}
  BY <1>1, <1>2 DEF CallDetach, Goto, DetachEntry
<1>3. CASE Collect(p) \/ RemoveLast(p)
  <2>1. /\ pc[p] \in DetachPC /\ pc'[p] \notin {"unlink", "post", "add", "walk"}
        /\ cur' = cur /\ scan' = scan
    BY <1>1, <1>3 DEF Collect, RemoveLast, Goto, DetachEntry, DetachPC
  <2>2. cur[p] \in handles[p]
    BY <1>1, <2>1 DEF LocalOf
  <2>3. \E l : RemoveSegmentFromSharedList(p, cur[p], l)
    BY <1>3 DEF Collect, RemoveLast
  <2> QED
    BY <2>1, <2>2, <2>3, ListRemove
<1>4. ASSUME NEW o \in ToSet(local[p]), NEW l, RemoveSegmentFromSharedList(p, o, l),
             \E k : CallDetach(p, o, k), pc[p] \notin DetachPC, scan' = scan
      PROVE  /\ ListInv'
             /\ \/ UNCHANGED <<links, up_to_date>>
                \/ \E k \in 1 .. num_shared_segments : ListShorter(k)
  <2>1. o \in handles[p]
    BY <1>1 DEF LocalOf
  <2>2. pc'[p] \notin {"unlink", "post", "add", "walk"} /\ pc'[p] # "cas"
    BY <1>2, <1>4
  <2> QED
    BY <1>4, <2>1, <2>2, ListRemove
<1>5. CASE \E o \in Obj : ClearOne(p, o)
  <2>1. PICK o \in Obj : ClearOne(p, o)
    BY <1>5
  <2>2. /\ o \in ToSet(local[p]) /\ pc[p] \notin DetachPC /\ scan' = scan
        /\ RemoveSegmentFromSharedList(p, o, RemoveNode(local[p], o)) /\ CallDetach(p, o, "clear")
    BY <2>1 DEF ClearOne, DetachPC
  <2> QED
    BY <1>4, <2>2
<1>6. CASE ClearFirst(p)
  <2>1. PICK o, objs : o = NodeOf(p, first_seg_num) /\ objs = Unopened(p, first_seg_num)
    OBVIOUS
  <2>2. /\ first_seg_num # NoSeg /\ pc[p] = "clear_all" /\ pc[p] \notin DetachPC /\ scan' = scan
    BY <1>6 DEF ClearFirst, DetachPC
  <2>3. /\ o = names[first_seg_num] /\ objs = (IF o \in ToSet(local[p]) THEN <<>> ELSE <<o>>)
    BY <2>1, <2>2, LastOpens
  <2>4. CASE objs # <<>>
    <3>1. UNCHANGED <<links, up_to_date, scan>> /\ pc' = pc
      BY <1>6, <2>1, <2>2, <2>4 DEF ClearFirst, list, links
    <3>2. pc'[p] \notin {"cas", "unlink", "post", "add", "walk"}
      BY <2>2, <3>1
    <3> QED
      BY <3>1, <3>2, ListQuiet
  <2>5. CASE objs = <<>>
    <3>1. o \in ToSet(local[p])
      BY <2>3, <2>5
    <3>2. RemoveSegmentFromSharedList(p, o, RemoveNode(local[p], o)) /\ CallDetach(p, o, "clear_all")
      BY <1>6, <2>1, <2>5 DEF ClearFirst
    <3> QED
      BY <1>4, <2>2, <3>1, <3>2
  <2> QED
    BY <2>4, <2>5
<1> QED
  BY <1>3, <1>5, <1>6

(* Every step keeps the shared list in order.                              *)
LEMMA ListNext ==
    ASSUME LockInv, LocalInv, TrackInv, ListInv, TrackInv', [Next]_vars
    PROVE  ListInv'
<1>1. ASSUME NEW p \in Proc, Step(p) \/ User(p), UNCHANGED orphans PROVE ListInv'
  <2>1. TrackFrame(p)
    BY <1>1, ControlFrame
  <2>2. CASE Untrack(p) \/ CompareSwap(p) \/ UnlinkSegment(p) \/ PostAndSubtract(p)
    BY <1>1, <2>1, <2>2, ListDetach
  <2>3. CASE CreateSegment(p)
    BY <1>1, <2>1, <2>3, ListCreate
  <2>4. CASE \/ Collect(p) \/ RemoveLast(p) \/ AddSegmentToSharedList(p) \/ WalkSharedList(p)
             \/ OpenLatest(p) \/ ClearFirst(p) \/ \E o \in Obj : ClearOne(p, o)
    <3>1. Opening(p)
      BY <1>1, <2>4, ListSteps
    <3> QED
      BY <2>1, <2>4, <3>1, ListTake, ListAdd, ListWalk
  <2>5. CASE ~(\/ Untrack(p) \/ CompareSwap(p) \/ UnlinkSegment(p) \/ PostAndSubtract(p)
               \/ CreateSegment(p) \/ Collect(p) \/ RemoveLast(p) \/ AddSegmentToSharedList(p)
               \/ WalkSharedList(p) \/ OpenLatest(p) \/ ClearFirst(p)
               \/ \E o \in Obj : ClearOne(p, o))
    BY <1>1, <2>1, <2>5, ListQuietSteps DEF Step, Detach
  <2> QED
    BY <2>2, <2>3, <2>4, <2>5
<1>2. ASSUME NEW p \in Proc, CreateFails(p) PROVE ListInv'
  BY <1>2, ControlFrame, ListCreate
<1>3. ASSUME NEW p \in Proc, OnExit(p) PROVE ListInv'
  <2>1. UNCHANGED orphans
    BY <1>3 DEF OnExit
  <2> QED
    BY <1>3, <2>1, ControlFrame, ListQuietSteps
<1>4. CASE UNCHANGED vars
  <2>1. UNCHANGED <<links, scan, names, number, orphans, procs_tracking, handles, pc, cur>>
    BY <1>4 DEF vars, list, links, memory, faults
  <2>2. PICK w : w = SharedList
    OBVIOUS
  <2>3. ListTypes /\ Linked(w) /\ \A p \in Proc : ListOf(p)
    BY <2>2, ListParts
  <2>4. ListTypes' /\ Linked(w)' /\ \A p \in Proc : ListOf(p)'
    BY <2>1, <2>3 DEF ListTypes, Linked, ListOf, links, Named, Tracked, Listed, FreeObj, Trackers
  <2> QED
    BY <2>4, ListSame
<1>5. Next => \E p \in Proc : \/ (Step(p) \/ User(p)) /\ UNCHANGED orphans
                              \/ CreateFails(p) \/ OnExit(p)
  BY DEF Next, faults
<1> QED
  BY <1>1, <1>2, <1>3, <1>4, <1>5

(* The list begins empty.                                                  *)
LEMMA ListInit == Init => ListInv
<1> SUFFICES ASSUME Init PROVE ListInv
  OBVIOUS
<1>1. PICK w : w = [i \in 1 .. 0 |-> NoObj]
  OBVIOUS
<1>2. /\ num_shared_segments = 0 /\ first_seg_num = NoSeg /\ last_seg_num = NoSeg
      /\ \A o \in Obj : ~Named(o) /\ ~Tracked(o)
  BY SegmentsAssumption DEF Init, Named, Tracked
<1>3. ListTypes
  BY <1>2 DEF Init, ListTypes
<1>4. 1 .. 0 = {}
  OBVIOUS
<1>5. Linked(w)
  <2>1. w \in [1 .. 0 -> Obj] /\ IsInjective(w)
    BY <1>1, <1>4 DEF IsInjective
  <2> QED
    BY <1>2, <1>4, <2>1 DEF Linked
<1>6. SharedList = w
  BY <1>2, <1>5, TrackInit, SharedListUnique DEF OneList
<1>7. \A p \in Proc : pc[p] = "out"
  BY DEF Init
<1> QED
  BY <1>3, <1>5, <1>6, <1>7 DEF ListInv, ListTypes

------------------------------------------------------------------------------
(* The theorems.                                                           *)

(* The inductive invariant of shared variables and their segments.         *)
SegmentsInv == LockInv /\ LocalInv /\ TrackInv /\ ListInv

(* Its parts are preserved together.                                       *)
THEOREM SegmentsInvariant == Spec => []SegmentsInv
<1>1. Init => SegmentsInv
  BY LockInit, LocalInit, TrackInit, ListInit DEF SegmentsInv
<1>2. SegmentsInv /\ [Next]_vars => SegmentsInv'
  <2> SUFFICES ASSUME SegmentsInv, [Next]_vars PROVE SegmentsInv'
    OBVIOUS
  <2>1. LockInv /\ LocalInv /\ TrackInv /\ ListInv
    BY DEF SegmentsInv
  <2>2. LockInv' /\ LocalInv' /\ TrackInv'
    BY <2>1, LockNext, LocalNext, TrackNext
  <2>3. ListInv'
    BY <2>1, <2>2, ListNext
  <2> QED
    BY <2>2, <2>3 DEF SegmentsInv
<1> QED
  BY <1>1, <1>2, PTL DEF Spec

(* The shm_unlink of msh_DetachSegment, which goes by number, never takes  *)
(* the name of a segment that is open somewhere.                           *)
THEOREM TrackedIsPinnedHolds == Spec => []TrackedIsPinned
<1>1. SegmentsInv => TrackedIsPinned
  BY DEF SegmentsInv, TrackInv
<1> QED
  BY <1>1, SegmentsInvariant, PTL

(* Until a segment is being unlinked procs_tracking counts the processes   *)
(* that have it open, for every number of processes.                       *)
THEOREM TrackingExactHolds == Spec => []TrackingExact
<1>1. SegmentsInv => TrackingExact
  <2> SUFFICES ASSUME SegmentsInv, NEW o \in Obj \ FreeObj, ~procs_tracking[o].flag
               PROVE  procs_tracking[o].count = Cardinality(Trackers(o))
    BY DEF TrackingExact
  <2>1. Named(o) \/ Tracked(o)
    BY DEF FreeObj, Named, Tracked
  <2> QED
    BY <2>1 DEF SegmentsInv, TrackInv
<1> QED
  BY <1>1, SegmentsInvariant, PTL

(* Variables and their copies lie in mapped segments.                      *)
THEOREM CopiesAreMappedHolds == Spec => []CopiesAreMapped
<1>1. SegmentsInv => CopiesAreMapped
  BY DEF SegmentsInv, LocalInv, CopiesAreMapped
<1> QED
  BY <1>1, SegmentsInvariant, PTL

(* The links and numbers form one list of the valid segments, the same in  *)
(* both directions, however many segments and processes there are.         *)
THEOREM SharedListIntactHolds == Spec => []SharedListIntact
<1>1. SegmentsInv => SharedListIntact
  <2> SUFFICES ASSUME SegmentsInv PROVE SharedListIntact
    OBVIOUS
  <2>1. PICK w : w = SharedList
    OBVIOUS
  <2>2. TrackInv /\ num_shared_segments \in Nat /\ Linked(w)
    BY <2>1 DEF SegmentsInv, ListInv
  <2>3. PICK n \in Nat : n = num_shared_segments
    BY <2>2
  <2>4. Listed = {w[i] : i \in 1 .. n} /\ Cardinality(Listed) = n
    BY <2>2, <2>3, ListedCount
  <2>5. \A i \in 1 .. n : names[number[w[i]]] = w[i] /\ ~procs_tracking[w[i]].flag
    BY <2>2, <2>3 DEF Linked
  <2>6. \A o \in Listed : names[number[o]] = o /\ ~procs_tracking[o].flag
    BY <2>4, <2>5
  <2>7. \A i \in 0 .. n :
           /\ Follow(first_seg_num, next_seg_num, i) = IF i < n THEN number[w[i + 1]] ELSE NoSeg
           /\ Follow(last_seg_num, prev_seg_num, i) = IF i < n THEN number[w[n - i]] ELSE NoSeg
    BY <2>2, <2>3, FollowLinked
  <2>8. \A i \in 0 .. (n - 1) :
           /\ Follow(first_seg_num, next_seg_num, i) = number[w[i + 1]] /\ i + 1 \in 1 .. n
           /\ Follow(last_seg_num, prev_seg_num, i) = number[w[n - i]]
    BY <2>7
  <2>9. {Follow(first_seg_num, next_seg_num, i) : i \in 0 .. (n - 1)} = {number[o] : o \in Listed}
    <3>1. ASSUME NEW i \in 0 .. (n - 1) PROVE \E o \in Listed : Follow(first_seg_num, next_seg_num, i) = number[o]
      BY <2>4, <2>8
    <3>2. ASSUME NEW o \in Listed PROVE \E i \in 0 .. (n - 1) : Follow(first_seg_num, next_seg_num, i) = number[o]
      <4>1. PICK j \in 1 .. n : o = w[j]
        BY <2>4
      <4>2. j - 1 \in 0 .. (n - 1) /\ (j - 1) + 1 = j
        OBVIOUS
      <4> QED
        BY <2>8, <4>1, <4>2
    <3> QED
      BY <3>1, <3>2
  <2>10. \A i \in 0 .. (n - 1) : Follow(last_seg_num, prev_seg_num, i)
                                 = Follow(first_seg_num, next_seg_num, n - 1 - i)
    <3> TAKE i \in 0 .. (n - 1)
    <3>1. n - 1 - i \in 0 .. (n - 1) /\ (n - 1 - i) + 1 = n - i
      OBVIOUS
    <3> QED
      BY <2>8, <3>1
  <2>11. Follow(first_seg_num, next_seg_num, n) = NoSeg /\ Follow(last_seg_num, prev_seg_num, n) = NoSeg
    <3>1. n \in 0 .. n /\ ~(n < n)
      OBVIOUS
    <3> QED
      BY <2>7, <3>1
  <2>12. num_shared_segments = Cardinality(Listed)
    BY <2>3, <2>4
  <2> QED
    BY <2>4, <2>6, <2>9, <2>10, <2>11, <2>12 DEF SharedListIntact
<1> QED
  BY <1>1, SegmentsInvariant, PTL

(* Nothing is open where every process is out.                             *)
LEMMA AllOut ==
    ASSUME SegmentsInv, \A p \in Proc : pc[p] = "out"
    PROVE  /\ \A p \in Proc : handles[p] = {}
           /\ \A k \in SegNum : names[k] \in orphans \cup {NoObj}
           /\ Listed = {}
<1>1. \A p \in Proc : handles[p] = {}
  <2> TAKE p \in Proc
  <2>1. LocalOf(p) /\ pc[p] = "out" /\ pc[p] \notin DetachPC
    BY LocalParts DEF SegmentsInv, DetachPC
  <2>2. local[p] = <<>> /\ handles[p] = ToSet(local[p])
    BY <2>1 DEF LocalOf
  <2> QED
    BY <2>2, ShortFact
<1>2. \A o \in Obj : ~Tracked(o)
  BY <1>1 DEF Tracked
<1>3. \A k \in SegNum : names[k] \in orphans \cup {NoObj}
  BY <1>2 DEF SegmentsInv, TrackInv
<1>4. \A o \in Listed : FALSE
  <2> SUFFICES ASSUME NEW o \in Listed PROVE FALSE
    OBVIOUS
  <2>1. o \in Obj
    BY DEF Listed
  <2>2. (Named(o) \/ Tracked(o)) /\ o \notin orphans
    BY <2>1, ListedFact
  <2>3. PICK k \in SegNum : names[k] = o
    BY <1>2, <2>1, <2>2 DEF Named
  <2> QED
    BY <1>3, <2>1, <2>2, <2>3, SegmentsAssumption
<1> QED
  BY <1>1, <1>3, <1>4

(* The shared list of processes that are all out.                          *)
LEMMA SegmentsInvEmpty == SegmentsInv => NoSegmentLeft
<1> SUFFICES ASSUME SegmentsInv, \A p \in Proc : pc[p] = "out"
             PROVE  /\ \A k \in SegNum : names[k] \in orphans \cup {NoObj}
                    /\ first_seg_num = NoSeg /\ last_seg_num = NoSeg
                    /\ num_shared_segments = 0
  BY DEF NoSegmentLeft
<1>1. Listed = {} /\ \A k \in SegNum : names[k] \in orphans \cup {NoObj}
  BY AllOut
<1>2. Cardinality(Listed) = num_shared_segments
  BY ListedCount DEF SegmentsInv, ListInv
<1>3. num_shared_segments = 0
  BY <1>1, <1>2, FS_EmptySet
<1> QED
  BY <1>1, <1>3, EndsFact DEF SegmentsInv

(* ... and after a step.                                                   *)
LEMMA SegmentsInvEmptyNext == SegmentsInv' => NoSegmentLeft'
BY SegmentsInvEmpty, PTL

(* When the last process has left nothing of the shared list survives.     *)
THEOREM NoSegmentLeftHolds == Spec => []NoSegmentLeft
BY SegmentsInvEmpty, SegmentsInvariant, PTL

------------------------------------------------------------------------------
(* The processes that use a segment.                                       *)

UsingInv == procs_using \in [Obj -> Nat] /\ UsingExact

(* Nothing is put into circulation but by msh_CreateSegmentWorker.         *)
LEMMA NothingNew ==
    ASSUME LockInv, LocalInv, TrackInv, ListInv, NEW p \in Proc,
           ((Step(p) \/ User(p)) /\ UNCHANGED orphans /\ ~CreateSegment(p)) \/ OnExit(p)
    PROVE  \A o \in Obj : (Named(o) \/ Tracked(o))' => Named(o) \/ Tracked(o)
<1>1. LocalTypes /\ names \in [SegNum -> Obj \cup {NoObj}] /\ NoObj \notin Obj
  BY LocalParts, SegmentsAssumption DEF TrackInv
<1>2. CASE Opening(p)
  BY <1>2, OpeningKeeps
<1>3. CASE Untrack(p) \/ CompareSwap(p) \/ UnlinkSegment(p) \/ PostAndSubtract(p)
  <2>1. \A q \in Proc : handles'[q] \subseteq handles[q]
    <3>1. handles' = handles \/ handles' = [handles EXCEPT ![p] = @ \ {cur[p]}]
      BY <1>3 DEF Untrack, CompareSwap, UnlinkSegment, PostAndSubtract, Detached
    <3> QED
      BY <1>1, <3>1 DEF LocalTypes
  <2>2. \A k \in SegNum : names'[k] = names[k] \/ names'[k] = NoObj
    <3>1. names' = names \/ names' = [names EXCEPT ![number[cur[p]]] = NoObj]
      BY <1>3 DEF Untrack, CompareSwap, UnlinkSegment, PostAndSubtract, memory
    <3> QED
      BY <1>1, <3>1
  <2> QED
    BY <1>1, <2>1, <2>2 DEF Named, Tracked
<1>4. CASE ~(Untrack(p) \/ CompareSwap(p) \/ UnlinkSegment(p) \/ PostAndSubtract(p)) /\ ~Opening(p)
  <2>1. OnExit(p) => UNCHANGED orphans
    BY DEF OnExit
  <2> QED
    BY <1>4, <2>1, QuietSteps, ListSteps DEF Step, Detach
<1> QED
  BY <1>2, <1>3, <1>4

(* Whether a count is looked at.                                           *)
LEMMA UsedFact ==
    ASSUME UsingInv, NEW o \in Obj, Named(o) \/ Tracked(o)
    PROVE  procs_using[o] = Cardinality(Users(o))
BY DEF UsingInv, UsingExact, FreeObj, Named, Tracked

(* Only segments in circulation matter to UsingInv.                        *)
LEMMA UsedSame ==
    ASSUME procs_using' \in [Obj -> Nat],
           \A o \in Obj : (Named(o) \/ Tracked(o))' => procs_using'[o] = Cardinality(Users(o)')
    PROVE  UsingInv'
BY DEF UsingInv, UsingExact, FreeObj, Named, Tracked

(* A step that counts no use, and one that counts a use less or more.      *)
LEMMA UsedQuiet ==
    ASSUME UsingInv, UNCHANGED <<used, procs_using>>,
           \A o \in Obj : (Named(o) \/ Tracked(o))' => Named(o) \/ Tracked(o)
    PROVE  UsingInv'
<1>1. \A o : Users(o)' = Users(o)
  BY DEF Users
<1>2. procs_using' \in [Obj -> Nat]
  BY DEF UsingInv
<1> QED
  BY <1>1, <1>2, UsedFact, UsedSame

(* A process counts a use less ...                                         *)
LEMMA UsedLess ==
    ASSUME LocalInv, UsingInv, NEW p \in Proc, NEW o \in used[p], UNCHANGED <<names, handles>>,
           used' = [used EXCEPT ![p] = @ \ {o}], procs_using' = [procs_using EXCEPT ![o] = @ - 1]
    PROVE  UsingInv'
<1>1. o \in Obj /\ o \in handles[p] /\ used \in [Proc -> SUBSET Obj] /\ Tracked(o)
  BY DEF LocalInv, Tracked
<1>2. \A x \in Obj : Users(x)' = IF x = o THEN Users(x) \ {p} ELSE Users(x)
  BY <1>1 DEF Users
<1>3. p \in Users(o) /\ Users(o) \in SUBSET Proc
  BY DEF Users
<1>4. procs_using[o] = Cardinality(Users(o)) /\ procs_using \in [Obj -> Nat]
  BY <1>1, UsedFact DEF UsingInv
<1>5. Cardinality(Users(o) \ {p}) = Cardinality(Users(o)) - 1 /\ Cardinality(Users(o)) >= 1
      /\ Cardinality(Users(o)) \in Nat
  BY <1>3, TrackersFinite
<1>6. procs_using' \in [Obj -> Nat] /\ procs_using'[o] = Cardinality(Users(o) \ {p})
      /\ \A x \in Obj : x # o => procs_using'[x] = procs_using[x]
  BY <1>1, <1>4, <1>5
<1>7. \A x \in Obj : (Named(x) \/ Tracked(x))' <=> Named(x) \/ Tracked(x)
  BY DEF Named, Tracked
<1>8. \A x \in Obj : (Named(x) \/ Tracked(x))' => procs_using'[x] = Cardinality(Users(x)')
  <2> SUFFICES ASSUME NEW x \in Obj, Named(x) \/ Tracked(x)
               PROVE  procs_using'[x] = Cardinality(Users(x)')
    BY <1>7
  <2>1. procs_using[x] = Cardinality(Users(x))
    BY UsedFact
  <2> QED
    BY <1>2, <1>6, <2>1
<1> QED
  BY <1>6, <1>8, UsedSame

(* ... or a use more.                                                      *)
LEMMA UsedMore ==
    ASSUME LocalInv, UsingInv, NEW p \in Proc, NEW o \in handles[p], UNCHANGED <<names, handles>>,
           CopyAndUse(p, o)
    PROVE  UsingInv'
<1>1. o \in Obj /\ used \in [Proc -> SUBSET Obj] /\ Tracked(o)
  BY DEF LocalInv, Tracked
<1>2. used' = [used EXCEPT ![p] = @ \cup {o}]
  BY DEF CopyAndUse
<1>3. \A x \in Obj : (Named(x) \/ Tracked(x))' <=> Named(x) \/ Tracked(x)
  BY DEF Named, Tracked
<1>4. procs_using[o] = Cardinality(Users(o)) /\ procs_using \in [Obj -> Nat]
  BY <1>1, UsedFact DEF UsingInv
<1>5. CASE o \in used[p]
  <2>1. used' = used /\ procs_using' = procs_using
    BY <1>1, <1>2, <1>5 DEF CopyAndUse
  <2> QED
    BY <1>3, <2>1, UsedQuiet
<1>6. CASE o \notin used[p]
  <2>1. procs_using' = [procs_using EXCEPT ![o] = @ + 1]
    BY <1>6 DEF CopyAndUse
  <2>2. \A x \in Obj : Users(x)' = IF x = o THEN Users(x) \cup {p} ELSE Users(x)
    BY <1>1, <1>2 DEF Users
  <2>3. p \notin Users(o) /\ Users(o) \in SUBSET Proc
    BY <1>6 DEF Users
  <2>4. Cardinality(Users(o) \cup {p}) = Cardinality(Users(o)) + 1 /\ Cardinality(Users(o)) \in Nat
    BY <2>3, TrackersFinite
  <2>5. procs_using' \in [Obj -> Nat] /\ procs_using'[o] = Cardinality(Users(o) \cup {p})
        /\ \A x \in Obj : x # o => procs_using'[x] = procs_using[x]
    BY <1>1, <1>4, <2>1, <2>4
  <2>6. \A x \in Obj : (Named(x) \/ Tracked(x))' => procs_using'[x] = Cardinality(Users(x)')
    <3> SUFFICES ASSUME NEW x \in Obj, Named(x) \/ Tracked(x)
                 PROVE  procs_using'[x] = Cardinality(Users(x)')
      BY <1>3
    <3>1. procs_using[x] = Cardinality(Users(x))
      BY UsedFact
    <3> QED
      BY <2>2, <2>5, <3>1
  <2> QED
    BY <2>5, <2>6, UsedSame
<1> QED
  BY <1>5, <1>6

(* A new segment has no users.                                             *)
LEMMA UsedNew ==
    ASSUME LocalInv, TrackInv, UsingInv, NEW p \in Proc, NEW o \in FreeObj, NEW k \in SegNum,
           names' = [names EXCEPT ![k] = o],
           handles' = handles \/ handles' = [handles EXCEPT ![p] = @ \cup {o}],
           procs_using' = [procs_using EXCEPT ![o] = 0], UNCHANGED used
    PROVE  UsingInv'
<1>1. o \in Obj /\ \A q \in Proc : o \notin used[q]
  BY DEF FreeObj, LocalInv
<1>2. procs_using' \in [Obj -> Nat] /\ procs_using'[o] = 0
      /\ \A x \in Obj : x # o => procs_using'[x] = procs_using[x]
  BY <1>1 DEF UsingInv
<1>3. \A x : Users(x)' = Users(x)
  BY DEF Users
<1>4. Cardinality(Users(o)) = 0
  <2>1. Users(o) = {}
    BY <1>1 DEF Users
  <2> QED
    BY <2>1, FS_EmptySet
<1>5. \A x \in Obj : x # o /\ (Named(x) \/ Tracked(x))' => Named(x) \/ Tracked(x)
  <2>1. \A j \in SegNum : names'[j] = names[j] \/ names'[j] = o
    BY DEF TrackInv
  <2>2. \A q \in Proc : handles'[q] \subseteq handles[q] \cup {o}
    <3>1. handles \in [Proc -> SUBSET Obj]
      BY DEF LocalInv
    <3>2. CASE handles' = handles
      BY <3>2
    <3>3. CASE handles' = [handles EXCEPT ![p] = @ \cup {o}]
      BY <3>1, <3>3
    <3> QED
      BY <3>2, <3>3
  <2> QED
    BY <2>1, <2>2 DEF Named, Tracked
<1>6. \A x \in Obj : (Named(x) \/ Tracked(x))' => procs_using'[x] = Cardinality(Users(x)')
  <2> SUFFICES ASSUME NEW x \in Obj, (Named(x) \/ Tracked(x))'
               PROVE  procs_using'[x] = Cardinality(Users(x)')
    OBVIOUS
  <2>1. CASE x = o
    BY <1>2, <1>3, <1>4, <2>1
  <2>2. CASE x # o
    <3>1. procs_using[x] = Cardinality(Users(x))
      BY <1>5, <2>2, UsedFact
    <3> QED
      BY <1>2, <1>3, <2>2, <3>1
  <2> QED
    BY <2>1, <2>2
<1> QED
  BY <1>2, <1>6, UsedSame

(* Every step counts the users right.                                      *)
LEMMA UsingNext ==
    ASSUME LockInv, LocalInv, TrackInv, ListInv, UsingInv, [Next]_vars
    PROVE  UsingInv'
<1>1. ASSUME NEW p \in Proc, ((Step(p) \/ User(p)) /\ UNCHANGED orphans) \/ OnExit(p) PROVE UsingInv'
  <2>1. LocalTypes /\ LocalOf(p)
    BY LocalParts
  <2>2. ~CreateSegment(p) => \A o \in Obj : (Named(o) \/ Tracked(o))' => Named(o) \/ Tracked(o)
    BY <1>1, NothingNew
  <2>3. CASE DestroyVariable(p)
    <3>1. PICK o : o = cur[p]
      OBVIOUS
    <3>2. UNCHANGED <<names, handles>> /\ used' = [used EXCEPT ![p] = @ \ {o}]
          /\ ~CreateSegment(p)
      BY <2>3, <3>1 DEF DestroyVariable, CreateSegment, memory
    <3>3. CASE o \in used[p]
      <4>1. procs_using' = [procs_using EXCEPT ![o] = @ - 1]
        BY <2>3, <3>1, <3>3 DEF DestroyVariable
      <4> QED
        BY <3>2, <3>3, <4>1, UsedLess
    <3>4. CASE o \notin used[p]
      <4>1. procs_using' = procs_using
        BY <2>3, <3>1, <3>4 DEF DestroyVariable
      <4>2. used' = used
        BY <2>1, <3>2, <3>4 DEF LocalTypes
      <4> QED
        BY <2>2, <3>2, <4>1, <4>2, UsedQuiet
    <3> QED
      BY <3>3, <3>4
  <2>4. CASE CleanVariableList(p)
    <3>1. UNCHANGED <<names, handles>> /\ ~CreateSegment(p)
      BY <2>4 DEF CleanVariableList, CreateSegment, memory
    <3>2. CASE UNCHANGED <<used, procs_using>>
      BY <2>2, <3>1, <3>2, UsedQuiet
    <3>3. CASE \E o \in used[p] : /\ used' = [used EXCEPT ![p] = @ \ {o}]
                                  /\ procs_using' = [procs_using EXCEPT ![o] = @ - 1]
      BY <3>1, <3>3, UsedLess
    <3> QED
      BY <2>4, <3>2, <3>3 DEF CleanVariableList
  <2>5. CASE ReturnShared(p)
    <3>1. UNCHANGED <<names, handles>> /\ ~CreateSegment(p) /\ pc[p] = "return"
      BY <2>5 DEF ReturnShared, CreateSegment, memory
    <3>2. cur[p] \in handles[p]
      BY <2>1, <3>1 DEF LocalOf
    <3>3. UNCHANGED <<used, procs_using>> \/ CopyAndUse(p, cur[p])
      BY <2>5 DEF ReturnShared
    <3> QED
      BY <2>2, <3>1, <3>2, <3>3, UsedQuiet, UsedMore
  <2>6. CASE UseOutput(p)
    <3>1. UNCHANGED <<names, handles>> /\ ~CreateSegment(p) /\ pc[p] = "use"
      BY <2>6 DEF UseOutput, CreateSegment, memory
    <3>2. UNCHANGED <<used, procs_using>> \/ (rest[p] # <<>> /\ CopyAndUse(p, Head(rest[p])))
      BY <2>6 DEF UseOutput
    <3>3. rest[p] # <<>> => Head(rest[p]) \in handles[p]
      <4>1. rest[p] \in Seq(Obj) /\ ToSet(rest[p]) \subseteq handles[p]
        BY <2>1, <3>1 DEF LocalTypes, LocalOf
      <4>2. rest[p] # <<>> => Head(rest[p]) \in ToSet(rest[p])
        BY <4>1, TailSubset
      <4> QED
        BY <4>1, <4>2
    <3> QED
      BY <2>2, <3>1, <3>2, <3>3, UsedQuiet, UsedMore
  <2>7. CASE CreateSegment(p)
    <3>1. PICK k : k = NextSegNum(scan[p])
      OBVIOUS
    <3>2. k \in SegNum
      BY <3>1, NextSegNumType DEF ListInv
    <3>3. UNCHANGED used
      BY <2>7 DEF CreateSegment
    <3>4. CASE UNCHANGED <<names, handles, procs_using>>
      <4>1. \A o \in Obj : (Named(o) \/ Tracked(o))' => Named(o) \/ Tracked(o)
        BY <3>4 DEF Named, Tracked
      <4> QED
        BY <3>3, <3>4, <4>1, UsedQuiet
    <3>5. CASE \E o \in FreeObj :
                  /\ names' = [names EXCEPT ![k] = o]
                  /\ procs_using' = [procs_using EXCEPT ![o] = 0]
                  /\ handles' = [handles EXCEPT ![p] = @ \cup {o}]
      BY <3>2, <3>3, <3>5, UsedNew
    <3> QED
      BY <2>7, <3>1, <3>4, <3>5 DEF CreateSegment
  <2>8. CASE ~(DestroyVariable(p) \/ CleanVariableList(p) \/ ReturnShared(p) \/ UseOutput(p)
               \/ CreateSegment(p))
    <3>1. UNCHANGED <<used, procs_using>>
      <4>1. CASE OnExit(p)
        BY <4>1 DEF OnExit
      <4>2. CASE User(p)
        BY <4>2 DEF User, Call, DropCopy, proc
      <4>3. CASE Detach(p)
        BY <2>8, <4>3 DEF Detach, Collect, Untrack, RemoveLast, CompareSwap, UnlinkSegment,
                          PostAndSubtract, proc
      <4>4. CASE CleanSegmentList(p) \/ OnError(p) \/ Config(p) \/ ReserveSize(p)
                 \/ AddSegmentToSharedList(p) \/ WalkSharedList(p)
        BY <4>4 DEF CleanSegmentList, OnError, Config, ReserveSize, AddSegmentToSharedList,
                    WalkSharedList, proc
      <4>5. CASE DetachStale(p) \/ UpdateLatestSegment(p) \/ OpenLatest(p) \/ FetchUpdate(p)
                 \/ CreateOutputs(p) \/ ClearUpdate(p)
        BY <4>5 DEF DetachStale, UpdateLatestSegment, OpenLatest, FetchUpdate, CreateOutputs,
                    ClearUpdate, UpdateAllSegments, proc
      <4>6. CASE AcquireForClear(p) \/ ReleaseAfterClear(p) \/ ClearFirst(p)
                 \/ \E o \in Obj : ClearOne(p, o)
        BY <4>6 DEF AcquireForClear, ReleaseAfterClear, ClearFirst, ClearOne, proc
      <4> QED
        BY <1>1, <2>8, <4>1, <4>2, <4>3, <4>4, <4>5, <4>6 DEF Step
    <3> QED
      BY <2>2, <2>8, <3>1, UsedQuiet
  <2> QED
    BY <2>3, <2>4, <2>5, <2>6, <2>7, <2>8
<1>2. ASSUME NEW p \in Proc, CreateFails(p) PROVE UsingInv'
  <2>1. PICK k : k = NextSegNum(scan[p])
    OBVIOUS
  <2>2. k \in SegNum
    BY <2>1, NextSegNumType DEF ListInv
  <2>3. UNCHANGED <<used, handles>>
    BY <1>2 DEF CreateFails, proc
  <2>4. CASE UNCHANGED <<names, procs_using>>
    <3>1. \A o \in Obj : (Named(o) \/ Tracked(o))' => Named(o) \/ Tracked(o)
      BY <2>3, <2>4 DEF Named, Tracked
    <3> QED
      BY <2>3, <2>4, <3>1, UsedQuiet
  <2>5. CASE \E o \in FreeObj : /\ names' = [names EXCEPT ![k] = o]
                                /\ procs_using' = [procs_using EXCEPT ![o] = 0]
    BY <2>2, <2>3, <2>5, UsedNew
  <2> QED
    BY <1>2, <2>1, <2>4, <2>5 DEF CreateFails
<1>3. CASE UNCHANGED vars
  <2>1. UNCHANGED <<used, procs_using, names, handles>>
    BY <1>3 DEF vars, memory, proc
  <2>2. \A o \in Obj : (Named(o) \/ Tracked(o))' => Named(o) \/ Tracked(o)
    BY <2>1 DEF Named, Tracked
  <2> QED
    BY <2>1, <2>2, UsedQuiet
<1>4. Next => \E p \in Proc : \/ (Step(p) \/ User(p)) /\ UNCHANGED orphans
                              \/ CreateFails(p) \/ OnExit(p)
  BY DEF Next, faults
<1> QED
  BY <1>1, <1>2, <1>3, <1>4

(* Together with SegmentsInv, it holds in every state.                     *)
LEMMA UsingInvariant == Spec => []UsingInv
<1>1. Init => UsingInv
  <2> SUFFICES ASSUME Init PROVE UsingInv
    OBVIOUS
  <2>1. \A o \in Obj : o \in FreeObj
    BY SegmentsAssumption DEF Init, FreeObj
  <2>2. procs_using \in [Obj -> Nat]
    BY DEF Init
  <2> QED
    BY <2>1, <2>2 DEF UsingInv, UsingExact
<1>2. SegmentsInv /\ UsingInv /\ [Next]_vars => UsingInv'
  BY UsingNext DEF SegmentsInv
<1> QED
  BY <1>1, <1>2, SegmentsInvariant, PTL DEF Spec

(* procs_using counts the processes that use a segment, once each: the     *)
(* lazy decrement of msh_CleanVariableList and the one of                  *)
(* msh_DestroyVariable never both count the same use.                      *)
THEOREM UsingExactHolds == Spec => []UsingExact
<1>1. UsingInv => UsingExact
  BY DEF UsingInv
<1> QED
  BY <1>1, UsingInvariant, PTL

------------------------------------------------------------------------------
(* What total_shared_size accounts for.                                    *)

SizedNames == {k \in SegNum : names[k] \notin orphans \cup {NoObj}}
SizedProcs == {p \in Proc : pc[p] \in {"create", "post"}}

SizeInv ==
    /\ lost \in Nat
    /\ total_shared_size = Cardinality(SizedNames) + Cardinality(SizedProcs) + lost

(* Adding to or taking from the names and the processes that count.        *)
LEMMA SizedFinite ==
    ASSUME NEW S, S \subseteq SegNum \/ S \subseteq Proc
    PROVE  /\ Cardinality(S) \in Nat
           /\ \A x : x \notin S => Cardinality(S \cup {x}) = Cardinality(S) + 1
           /\ \A x \in S : Cardinality(S \ {x}) = Cardinality(S) - 1
<1>1. IsFiniteSet(SegNum)
  BY FS_Interval, SegmentsAssumption DEF SegNum
<1>2. IsFiniteSet(Proc)
  BY SegmentsAssumption
<1>3. IsFiniteSet(S)
  BY <1>1, <1>2, FS_Subset
<1> QED
  BY <1>3, FS_CardinalityType, FS_AddElement, FS_RemoveElement

(* Only the control point of p moves, and not to or from one that counts.  *)
SizeFrame(p) ==
    \/ UNCHANGED pc
    \/ /\ pc[p] \notin {"create", "post"}
       /\ \E l \in PC \ {"create", "post"} : pc' = [pc EXCEPT ![p] = l]

(* A step that reserves nothing and gives nothing back.                    *)
LEMMA SizeQuiet ==
    ASSUME LockInv, SizeInv, NEW p \in Proc, SizeFrame(p),
           UNCHANGED <<total_shared_size, lost, orphans, names>>
    PROVE  SizeInv'
<1>1. \A q \in Proc : pc'[q] \in {"create", "post"} <=> pc[q] \in {"create", "post"}
  BY DEF SizeFrame, LockInv
<1>2. SizedProcs' = SizedProcs
  BY <1>1 DEF SizedProcs
<1>3. SizedNames' = SizedNames
  BY DEF SizedNames
<1> QED
  BY <1>2, <1>3 DEF SizeInv

(* The processes that count, after p has moved to control point l.         *)
LEMMA SizedMove ==
    ASSUME LockInv, NEW p \in Proc, NEW l, pc' = [pc EXCEPT ![p] = l]
    PROVE  SizedProcs' = IF l \in {"create", "post"} THEN SizedProcs \cup {p}
                         ELSE SizedProcs \ {p}
<1>1. pc'[p] = l /\ \A q \in Proc : q # p => pc'[q] = pc[q]
  BY DEF LockInv
<1> QED
  BY <1>1 DEF SizedProcs

(* The new segment a number stands for, and an orphan's.                   *)
LEMMA SizedNew ==
    ASSUME LocalInv, TrackInv, NEW o \in FreeObj, NEW k \in SegNum, names[k] = NoObj,
           names' = [names EXCEPT ![k] = o]
    PROVE  /\ orphans' = orphans => SizedNames' = SizedNames \cup {k}
           /\ k \notin SizedNames
           /\ orphans' = orphans \cup {o} => SizedNames' = SizedNames
<1>1. names'[k] = o /\ o \in Obj /\ \A j \in SegNum : j # k => names'[j] = names[j]
  BY DEF TrackInv, FreeObj
<1>2. o \notin orphans /\ o # NoObj /\ \A j \in SegNum : names[j] # o
  <2>1. \A x \in orphans : number[x] \in SegNum /\ names[number[x]] = x
    BY DEF TrackInv
  <2> QED
    BY <1>1, <2>1, SegmentsAssumption DEF FreeObj
<1> QED
  BY <1>1, <1>2 DEF SizedNames

(* msh_DetachSegment gives back the size of the segment it unlinks.        *)
LEMMA SizeUnlink ==
    ASSUME LockInv, LocalInv, TrackInv, SizeInv, NEW p \in Proc,
           UNCHANGED <<lost, orphans>>, UnlinkSegment(p) \/ PostAndSubtract(p)
    PROVE  SizeInv'
<1>1. SizedNames \subseteq SegNum /\ SizedProcs \subseteq Proc
  BY DEF SizedNames, SizedProcs
<1>2. Cardinality(SizedNames) \in Nat /\ Cardinality(SizedProcs) \in Nat
  BY <1>1, SizedFinite
<1>3. CASE UnlinkSegment(p)
  <2>1. pc[p] = "unlink" /\ pc[p] \in DetachPC
    BY <1>3 DEF UnlinkSegment, DetachPC
  <2>2. cur[p] \in handles[p] /\ handles[p] \subseteq Obj
    BY <2>1 DEF LocalInv
  <2>3. PICK k : k = number[cur[p]]
    OBVIOUS
  <2>4. k \in SegNum /\ names[k] = cur[p] /\ cur[p] \notin orphans /\ cur[p] \in Obj
    <3>1. names[k] = cur[p]
      BY <2>1, <2>2, <2>3 DEF TrackInv, TrackedIsPinned
    <3>2. Tracked(cur[p])
      BY <2>2 DEF Tracked
    <3> QED
      BY <2>2, <2>3, <3>1, <3>2 DEF TrackInv
  <2>5. k \in SizedNames
    BY <2>4, SegmentsAssumption DEF SizedNames
  <2>6. SizedNames' = SizedNames \ {k}
    <3>1. names' = [names EXCEPT ![k] = NoObj]
      BY <1>3, <2>3 DEF UnlinkSegment
    <3>2. names'[k] = NoObj /\ \A j \in SegNum : j # k => names'[j] = names[j]
      BY <2>4, <3>1 DEF TrackInv
    <3> QED
      BY <3>2 DEF SizedNames
  <2>7. SizedProcs' = SizedProcs \cup {p} /\ p \notin SizedProcs
    <3>1. pc' = [pc EXCEPT ![p] = "post"]
      BY <1>3 DEF UnlinkSegment, Goto
    <3>2. p \notin SizedProcs
      BY <2>1 DEF SizedProcs
    <3> QED
      BY <3>1, <3>2, SizedMove
  <2>8. Cardinality(SizedNames') = Cardinality(SizedNames) - 1
    BY <1>1, <2>5, <2>6, SizedFinite
  <2>9. Cardinality(SizedProcs') = Cardinality(SizedProcs) + 1
    BY <1>1, <2>7, SizedFinite
  <2>10. UNCHANGED total_shared_size
    BY <1>3 DEF UnlinkSegment
  <2> QED
    BY <1>2, <2>8, <2>9, <2>10 DEF SizeInv
<1>4. CASE PostAndSubtract(p)
  <2>1. pc[p] = "post" /\ pc[p] \in DetachPC
    BY <1>4 DEF PostAndSubtract, DetachPC
  <2>2. ret[p] \notin {"create", "post"}
    BY <2>1 DEF LockInv, ReturnPC
  <2>3. SizedProcs' = SizedProcs \ {p} /\ p \in SizedProcs
    <3>1. pc' = [pc EXCEPT ![p] = ret[p]]
      BY <1>4 DEF PostAndSubtract, Detached, Goto
    <3>2. p \in SizedProcs
      BY <2>1 DEF SizedProcs
    <3> QED
      BY <2>2, <3>1, <3>2, SizedMove
  <2>4. Cardinality(SizedProcs') = Cardinality(SizedProcs) - 1
    BY <1>1, <2>3, SizedFinite
  <2>5. SizedNames' = SizedNames
    <3>1. UNCHANGED names
      BY <1>4 DEF PostAndSubtract, memory
    <3> QED
      BY <3>1 DEF SizedNames
  <2>6. total_shared_size' = total_shared_size - 1
    BY <1>4 DEF PostAndSubtract
  <2> QED
    BY <1>2, <2>4, <2>5, <2>6 DEF SizeInv
<1> QED
  BY <1>3, <1>4

(* msh_CreateSegmentWorker: the reservation becomes a segment, or is lost. *)
LEMMA SizeCreate ==
    ASSUME LockInv, LocalInv, TrackInv, ListInv, SizeInv, NEW p \in Proc,
           \/ (ReserveSize(p) \/ CreateSegment(p)) /\ UNCHANGED <<lost, orphans>>
           \/ CreateFails(p)
    PROVE  SizeInv'
<1>1. SizedNames \subseteq SegNum /\ SizedProcs \subseteq Proc
  BY DEF SizedNames, SizedProcs
<1>2. Cardinality(SizedNames) \in Nat /\ Cardinality(SizedProcs) \in Nat /\ lost \in Nat
  BY <1>1, SizedFinite DEF SizeInv
<1>3. PICK k : k = NextSegNum(scan[p])
  OBVIOUS
<1>4. k \in SegNum
  BY <1>3, NextSegNumType DEF ListInv
<1>5. CASE ReserveSize(p) /\ UNCHANGED <<lost, orphans>>
  <2>1. UNCHANGED names /\ pc[p] = "command"
    BY <1>5 DEF ReserveSize, memory
  <2>2. CASE Goto(p, "error") /\ UNCHANGED total_shared_size
    <3>1. "error" \in PC \ {"create", "post"}
      BY DEF PC
    <3>2. SizeFrame(p)
      BY <2>1, <2>2, <3>1 DEF SizeFrame, Goto
    <3> QED
      BY <1>5, <2>1, <2>2, <3>2, SizeQuiet
  <2>3. CASE Goto(p, "create") /\ total_shared_size' = total_shared_size + 1
    <3>1. SizedProcs' = SizedProcs \cup {p} /\ p \notin SizedProcs
      BY <2>1, <2>3, SizedMove DEF Goto, SizedProcs
    <3>2. Cardinality(SizedProcs') = Cardinality(SizedProcs) + 1
      BY <1>1, <3>1, SizedFinite
    <3>3. SizedNames' = SizedNames
      BY <1>5, <2>1 DEF SizedNames
    <3> QED
      BY <1>2, <1>5, <2>3, <3>2, <3>3 DEF SizeInv
  <2> QED
    BY <1>5, <2>2, <2>3 DEF ReserveSize
<1>6. CASE CreateSegment(p) /\ UNCHANGED <<lost, orphans>>
  <2>1. pc[p] = "create" /\ UNCHANGED total_shared_size
    BY <1>6 DEF CreateSegment
  <2>2. CASE UNCHANGED <<names, pc>>
    BY <1>6, <2>1, <2>2, SizeQuiet DEF SizeFrame
  <2>3. CASE names[k] = NoObj /\ (\E o \in FreeObj : names' = [names EXCEPT ![k] = o])
             /\ Goto(p, "add")
    <3>1. SizedProcs' = SizedProcs \ {p} /\ p \in SizedProcs
      BY <2>1, <2>3, SizedMove DEF Goto, SizedProcs
    <3>2. Cardinality(SizedProcs') = Cardinality(SizedProcs) - 1
      BY <1>1, <3>1, SizedFinite
    <3>3. SizedNames' = SizedNames \cup {k} /\ k \notin SizedNames
      BY <1>4, <1>6, <2>3, SizedNew
    <3>4. Cardinality(SizedNames') = Cardinality(SizedNames) + 1
      BY <1>1, <3>3, SizedFinite
    <3> QED
      BY <1>2, <1>6, <2>1, <3>2, <3>4 DEF SizeInv
  <2> QED
    BY <1>3, <1>6, <2>2, <2>3 DEF CreateSegment
<1>7. CASE CreateFails(p)
  <2>1. /\ pc[p] = "create" /\ UNCHANGED total_shared_size /\ lost' = lost + 1
        /\ pc' = [pc EXCEPT ![p] = "error"]
    BY <1>7 DEF CreateFails, Goto
  <2>2. SizedProcs' = SizedProcs \ {p} /\ p \in SizedProcs
    BY <2>1, SizedMove DEF SizedProcs
  <2>3. Cardinality(SizedProcs') = Cardinality(SizedProcs) - 1
    BY <1>1, <2>2, SizedFinite
  <2>4. SizedNames' = SizedNames
    <3>1. CASE UNCHANGED <<names, orphans>>
      BY <3>1 DEF SizedNames
    <3>2. CASE names[k] = NoObj /\ \E o \in FreeObj : /\ names' = [names EXCEPT ![k] = o]
                                                      /\ orphans' = orphans \cup {o}
      BY <1>4, <3>2, SizedNew
    <3> QED
      BY <1>3, <1>7, <3>1, <3>2 DEF CreateFails
  <2> QED
    BY <1>2, <2>1, <2>3, <2>4 DEF SizeInv
<1> QED
  BY <1>5, <1>6, <1>7

(* msh_OnExit: the shared info segment starts again from nothing.          *)
LEMMA SizeOnExit ==
    ASSUME SegmentsInv, SegmentsInv', SizeInv, NEW p \in Proc, OnExit(p)
    PROVE  SizeInv'
<1>1. LockInv /\ UNCHANGED <<names, orphans>> /\ pc[p] \notin {"create", "post"}
  BY DEF OnExit, memory, SegmentsInv
<1>2. CASE CallDetach(p, Head(local[p]), "exit") /\ UNCHANGED <<total_shared_size, lost>>
  <2>1. DetachEntry(p, Head(local[p])) \in PC \ {"create", "post"}
    BY DEF DetachEntry, PC
  <2>2. SizeFrame(p)
    BY <1>1, <1>2, <2>1 DEF SizeFrame, CallDetach, Goto
  <2> QED
    BY <1>1, <1>2, <2>2, SizeQuiet
<1>3. CASE Goto(p, "out") /\ ~\A q \in Proc \ {p} : pc[q] = "out"
  <2>1. UNCHANGED <<total_shared_size, lost>>
    BY <1>2, <1>3 DEF OnExit
  <2>2. "out" \in PC \ {"create", "post"}
    BY DEF PC
  <2>3. SizeFrame(p)
    BY <1>1, <1>3, <2>2 DEF SizeFrame, Goto
  <2> QED
    BY <1>1, <2>1, <2>3, SizeQuiet
<1>4. CASE Goto(p, "out") /\ (\A q \in Proc \ {p} : pc[q] = "out")
           /\ total_shared_size' = 0 /\ lost' = 0
  <2>1. \A q \in Proc : pc'[q] = "out"
    BY <1>1, <1>4 DEF Goto, LockInv
  <2>2. \A k \in SegNum : names'[k] \in orphans' \cup {NoObj}
    <3>1. NoSegmentLeft'
      BY SegmentsInvEmptyNext
    <3> QED
      BY <2>1, <3>1 DEF NoSegmentLeft
  <2>3. SizedNames' = {}
    BY <2>2 DEF SizedNames
  <2>4. SizedProcs' = {}
    BY <2>1 DEF SizedProcs
  <2>5. Cardinality(SizedNames') = 0 /\ Cardinality(SizedProcs') = 0
    BY <2>3, <2>4, FS_EmptySet
  <2> QED
    BY <1>4, <2>5 DEF SizeInv
<1> QED
  BY <1>2, <1>3, <1>4 DEF OnExit

(* Every step accounts for the size.                                       *)
LEMMA SizeNext ==
    ASSUME SegmentsInv, SegmentsInv', SizeInv, [Next]_vars
    PROVE  SizeInv'
<1>1. LockInv /\ LocalInv /\ TrackInv /\ ListInv
  BY DEF SegmentsInv
<1>2. ASSUME NEW p \in Proc, (Step(p) \/ User(p)) /\ UNCHANGED faults PROVE SizeInv'
  <2>1. UNCHANGED <<lost, orphans>>
    BY <1>2 DEF faults
  <2>2. CASE UnlinkSegment(p) \/ PostAndSubtract(p)
    BY <1>1, <2>1, <2>2, SizeUnlink
  <2>3. CASE ReserveSize(p) \/ CreateSegment(p)
    BY <1>1, <2>1, <2>3, SizeCreate
  <2>4. ASSUME SizeFrame(p), UNCHANGED <<total_shared_size, names>> PROVE SizeInv'
    BY <1>1, <2>1, <2>4, SizeQuiet
  <2>5. {"idle", "clean", "command", "untrack", "remove", "cas", "detach", "collect", "unlink",
         "add", "return", "walk", "stale", "open_latest", "output", "use", "clear_all", "clear",
         "error", "gc", "exit"} \subseteq PC \ {"create", "post"}
    BY DEF PC
  <2>6. \A o : DetachEntry(p, o) \in {"detach", "untrack"}
    BY DEF DetachEntry
  <2>7. AfterUpdate(p) \in {"clear", "output"}
    BY DEF AfterUpdate
  <2>8. CASE User(p)
    BY <2>4, <2>5, <2>8 DEF User, Call, DropCopy, SizeFrame, Goto, memory
  <2>9. CASE DestroyVariable(p) \/ RemoveLast(p) \/ CompareSwap(p)
    BY <2>4, <2>5, <2>9 DEF DestroyVariable, RemoveLast, CompareSwap, SizeFrame, Goto, memory
  <2>10. CASE Collect(p)
    BY <2>4, <2>5, <2>6, <2>10 DEF Collect, SizeFrame, Goto, memory
  <2>11. CASE Untrack(p)
    <3>1. pc[p] = "untrack" /\ pc[p] \in DetachPC /\ UNCHANGED <<total_shared_size, names>>
      BY <2>11 DEF Untrack, DetachPC, memory
    <3>2. ret[p] \in PC \ {"create", "post"}
      BY <1>1, <3>1 DEF LockInv, ReturnPC
    <3>3. pc' = [pc EXCEPT ![p] = "remove"] \/ pc' = [pc EXCEPT ![p] = ret[p]]
      BY <2>11 DEF Untrack, Detached, Goto
    <3> QED
      BY <2>4, <2>5, <3>1, <3>2, <3>3 DEF SizeFrame
  <2>12. CASE CleanSegmentList(p)
    BY <2>4, <2>5, <2>6, <2>12 DEF CleanSegmentList, CallDetach, SizeFrame, Goto, memory
  <2>13. CASE CleanVariableList(p) \/ OnError(p) \/ Config(p)
    BY <2>4, <2>5, <2>13 DEF CleanVariableList, OnError, Config, SizeFrame, Goto, memory
  <2>14. CASE AddSegmentToSharedList(p)
    BY <2>4, <2>5, <2>6, <2>14 DEF AddSegmentToSharedList, CallDetach, SizeFrame, Goto, memory
  <2>15. CASE ReturnShared(p) \/ WalkSharedList(p) \/ UpdateLatestSegment(p) \/ OpenLatest(p)
    BY <2>4, <2>5, <2>15 DEF ReturnShared, WalkSharedList, UpdateLatestSegment, OpenLatest,
                             SizeFrame, Goto, memory
  <2>16. CASE DetachStale(p)
    BY <2>4, <2>5, <2>6, <2>7, <2>16 DEF DetachStale, CallDetach, SizeFrame, Goto, memory
  <2>17. CASE FetchUpdate(p) \/ ClearUpdate(p)
    BY <2>4, <2>5, <2>7, <2>17 DEF FetchUpdate, ClearUpdate, UpdateAllSegments, SizeFrame, Goto,
                                   memory
  <2>18. CASE CreateOutputs(p) \/ UseOutput(p)
    BY <2>4, <2>5, <2>18 DEF CreateOutputs, UseOutput, SizeFrame, Goto, memory
  <2>19. CASE AcquireForClear(p) \/ ReleaseAfterClear(p)
    BY <2>4, <2>5, <2>19 DEF AcquireForClear, ReleaseAfterClear, SizeFrame, Goto, memory
  <2>20. CASE ClearFirst(p) \/ \E o \in Obj : ClearOne(p, o)
    BY <2>4, <2>5, <2>6, <2>20 DEF ClearFirst, ClearOne, CallDetach, SizeFrame, Goto, memory
  <2> QED
    BY <1>2, <2>2, <2>3, <2>8, <2>9, <2>10, <2>11, <2>12, <2>13, <2>14, <2>15, <2>16, <2>17,
       <2>18, <2>19, <2>20 DEF Step, Detach
<1>3. ASSUME NEW p \in Proc, CreateFails(p) PROVE SizeInv'
  BY <1>1, <1>3, SizeCreate
<1>4. ASSUME NEW p \in Proc, OnExit(p) PROVE SizeInv'
  BY <1>4, SizeOnExit
<1>5. CASE UNCHANGED vars
  <2>1. UNCHANGED <<total_shared_size, lost, orphans, names, pc>>
    BY <1>5 DEF vars, memory, faults
  <2>2. SizedNames' = SizedNames /\ SizedProcs' = SizedProcs
    BY <2>1 DEF SizedNames, SizedProcs
  <2> QED
    BY <2>1, <2>2 DEF SizeInv
<1> QED
  BY <1>2, <1>3, <1>4, <1>5 DEF Next

(* Together with SegmentsInv, it holds in every state.                     *)
LEMMA SizeInvariant == Spec => []SizeInv
<1>1. Init => SizeInv
  <2> SUFFICES ASSUME Init PROVE SizeInv
    OBVIOUS
  <2>1. SizedNames = {} /\ SizedProcs = {}
    BY DEF Init, SizedNames, SizedProcs
  <2>2. Cardinality(SizedNames) = 0 /\ Cardinality(SizedProcs) = 0
    BY <2>1, FS_EmptySet
  <2>3. total_shared_size = 0 /\ lost = 0
    BY DEF Init
  <2> QED
    BY <2>2, <2>3 DEF SizeInv
<1>2. SegmentsInv /\ SegmentsInv' /\ SizeInv /\ [Next]_vars => SizeInv'
  BY SizeNext
<1> QED
  BY <1>1, <1>2, SegmentsInvariant, PTL DEF Spec

(* total_shared_size accounts for every segment from its reservation to    *)
(* the subtraction after its unlink, and besides only for what a failing   *)
(* msh_CreateSegmentWorker has left reserved: it never drifts, and it      *)
(* never runs below zero.                                                  *)
THEOREM SizeAccountedHolds == Spec => []SizeAccounted
<1>1. SizeInv => SizeAccounted
  BY DEF SizeInv, SizeAccounted, SizedNames, SizedProcs
<1> QED
  BY <1>1, SizeInvariant, PTL

------------------------------------------------------------------------------
(* Processes that are up to date.                                          *)

(* The shared list as a sequence.                                          *)
LEMMA SharedListSeq ==
    ASSUME ListInv
    PROVE  /\ SharedList \in Seq(Obj) /\ Len(SharedList) = num_shared_segments
           /\ num_shared_segments \in Nat /\ IsInjective(SharedList)
           /\ \A o : o \in ToSet(SharedList) <=> o \in Listed
<1>1. PICK w : w = SharedList
  OBVIOUS
<1>2. PICK n \in Nat : n = num_shared_segments
  BY DEF ListInv
<1>3. w \in [1 .. n -> Obj] /\ IsInjective(w) /\ Linked(w)
  BY <1>1, <1>2 DEF ListInv, Linked
<1>4. w \in Seq(Obj)
  <2>1. [1 .. n -> Obj] \subseteq UNION {[1 .. m -> Obj] : m \in Nat}
    <3>1. [1 .. n -> Obj] \in {[1 .. m -> Obj] : m \in Nat}
      BY SMTT(30)
    <3> QED
      BY <3>1, Zenon
  <2> QED
    BY <1>3, <2>1, SeqDef
<1>5. Len(w) = n
  <2>1. Len(w) \in Nat /\ DOMAIN w = 1 .. Len(w) /\ DOMAIN w = 1 .. n
    BY <1>3, <1>4, LenProperties
  <2>2. \A m, k \in Nat : 1 .. m = 1 .. k => m = k
    <3> SUFFICES ASSUME NEW m \in Nat, NEW k \in Nat, 1 .. m = 1 .. k PROVE m = k
      OBVIOUS
    <3>1. m >= 1 => m \in 1 .. k
      OBVIOUS
    <3>2. k >= 1 => k \in 1 .. m
      OBVIOUS
    <3> QED
      BY <3>1, <3>2
  <2> QED
    BY <2>1, <2>2
<1>6. \A o : o \in ToSet(w) <=> o \in Listed
  <2>1. Listed = {w[i] : i \in 1 .. n}
    BY <1>2, <1>3, ListedCount
  <2>2. DOMAIN w = 1 .. n
    BY <1>3
  <2> QED
    BY <2>1, <2>2 DEF ToSet
<1> QED
  BY <1>1, <1>2, <1>3, <1>4, <1>5, <1>6

(* ... also after a step.                                                  *)
LEMMA NextListSeq ==
    ListInv' => (SharedList \in Seq(Obj) /\ Len(SharedList) = num_shared_segments)'
<1>1. ListInv => SharedList \in Seq(Obj) /\ Len(SharedList) = num_shared_segments
  BY SharedListSeq
<1> QED
  BY <1>1, PTL

(* What is read on the way along the list is as it was.                    *)
Settled ==
    /\ UNCHANGED <<first_seg_num, num_shared_segments>>
    /\ \A o \in Listed : /\ number'[o] = number[o] /\ names'[number[o]] = names[number[o]]
                         /\ next_seg_num'[o] = next_seg_num[o]

(* Then so is the list.                                                    *)
LEMMA SettledList ==
    ASSUME TrackInv, ListInv, TrackInv', ListInv', Settled
    PROVE  SharedList' = SharedList
<1>1. PICK n \in Nat : n = num_shared_segments
  BY DEF ListInv
<1>2. PICK w, v : w = SharedList /\ v = SharedList'
  OBVIOUS
<1>3. n' = n /\ num_shared_segments' = n
  BY <1>1 DEF Settled
<1>4. /\ w \in [1 .. n -> Obj] /\ v \in [1 .. n -> Obj]
      /\ first_seg_num = IF n = 0 THEN NoSeg ELSE number[w[1]]
      /\ first_seg_num' = IF n = 0 THEN NoSeg ELSE number'[v[1]]
      /\ \A i \in 1 .. n :
            /\ names[number[w[i]]] = w[i] /\ names'[number'[v[i]]] = v[i]
            /\ next_seg_num[w[i]] = IF i = n THEN NoSeg ELSE number[w[i + 1]]
            /\ next_seg_num'[v[i]] = IF i = n THEN NoSeg ELSE number'[v[i + 1]]
  <2>1. Linked(w) /\ Linked(v)'
    BY <1>2 DEF ListInv
  <2>2. /\ w \in [1 .. n -> Obj]
        /\ first_seg_num = IF n = 0 THEN NoSeg ELSE number[w[1]]
        /\ \A i \in 1 .. n :
              /\ names[number[w[i]]] = w[i]
              /\ next_seg_num[w[i]] = IF i = n THEN NoSeg ELSE number[w[i + 1]]
    BY <1>1, <2>1 DEF Linked
  <2>3. /\ v \in [1 .. n -> Obj]
        /\ first_seg_num' = IF n = 0 THEN NoSeg ELSE number'[v[1]]
        /\ \A i \in 1 .. n :
              /\ names'[number'[v[i]]] = v[i]
              /\ next_seg_num'[v[i]] = IF i = n THEN NoSeg ELSE number'[v[i + 1]]
    BY <1>3, <2>1 DEF Linked
  <2> QED
    BY <2>2, <2>3
<1>5. \A i \in 1 .. n : w[i] \in Listed
  BY <1>1, <1>2, ListedCount DEF ListInv
<1>6. \A i \in 1 .. n : number'[v[i]] = number[w[i]] => v[i] = w[i]
  BY <1>4, <1>5 DEF Settled
<1>7. n # 0 => v[1] = w[1]
  BY <1>4, <1>6 DEF Settled
<1>8. ASSUME NEW i \in 1 .. n, i # n, v[i] = w[i] PROVE v[i + 1] = w[i + 1]
  <2>1. i + 1 \in 1 .. n
    BY <1>8
  <2>2. next_seg_num'[v[i]] = next_seg_num[w[i]]
    BY <1>5, <1>8 DEF Settled
  <2>3. number'[v[i + 1]] = number[w[i + 1]]
    BY <1>4, <1>8, <2>2
  <2> QED
    BY <1>6, <2>1, <2>3
<1>9. PICK D : D = {i \in 1 .. n : v[i] # w[i]}
  OBVIOUS
<1>10. D = {}
  <2> SUFFICES ASSUME D # {} PROVE FALSE
    OBVIOUS
  <2>1. D \in SUBSET Nat
    BY <1>9
  <2>2. PICK m \in D : \A k \in D : m =< k
    BY <2>1, LeastNumber
  <2>3. m \in 1 .. n /\ v[m] # w[m] /\ m # 1
    BY <1>7, <1>9, <2>2
  <2>4. m - 1 \in 1 .. n /\ m - 1 # n /\ (m - 1) + 1 = m
    BY <2>3
  <2>5. m - 1 \notin D
    BY <2>1, <2>2, <2>4
  <2>6. v[m - 1] = w[m - 1]
    BY <1>9, <2>4, <2>5
  <2>7. v[m - 1 + 1] = w[m - 1 + 1]
    BY <1>8, <2>4, <2>6
  <2> QED
    BY <2>3, <2>4, <2>7
<1>11. v = w
  BY <1>4, <1>9, <1>10
<1> QED
  BY <1>2, <1>11

(* CurrentInv of one process.                                              *)
CurrentOf(p) ==
    /\ pc[p] \in {"return", "open_latest", "walk"} => p \notin up_to_date
    /\ p \in up_to_date /\ At(p) \notin {"stale", "add", "exit"} => local[p] = SharedList
    /\ p \in up_to_date /\ At(p) = "stale" => local[p] = rest[p] \o SharedList
    /\ p \in up_to_date /\ At(p) = "add" => local[p] = Append(SharedList, cur[p])
    /\ pc[p] = "walk" => Walked(p)

(* A step of p leaves the lists of the others and their places alone.      *)
CurrentFrame(p) ==
    \A q \in Proc : q # p =>
        /\ local'[q] = local[q] /\ rest'[q] = rest[q] /\ pc'[q] = pc[q] /\ cur'[q] = cur[q]
        /\ ret'[q] = ret[q] /\ scan'[q] = scan[q]

(* The others do not notice a step that leaves the list as it is.          *)
LEMMA CurrentOthers ==
    ASSUME TrackInv, ListInv, TrackInv', ListInv', Settled, NEW p \in Proc, NEW q \in Proc, q # p,
           CurrentFrame(p), q \in up_to_date' => q \in up_to_date, CurrentOf(q)
    PROVE  CurrentOf(q)'
<1>1. SharedList' = SharedList
  BY SettledList
<1>2. /\ local'[q] = local[q] /\ rest'[q] = rest[q] /\ pc'[q] = pc[q] /\ cur'[q] = cur[q]
      /\ ret'[q] = ret[q] /\ scan'[q] = scan[q]
  BY DEF CurrentFrame
<1>3. At(q)' = At(q)
  BY <1>2 DEF At
<1>4. Walked(q) => Walked(q)'
  <2> SUFFICES ASSUME Walked(q) PROVE Walked(q)'
    OBVIOUS
  <2>1. PICK w : w = SharedList
    OBVIOUS
  <2>2. PICK i \in 0 .. num_shared_segments :
           /\ local[q] = rest[q] \o SubSeq(w, 1, i)
           /\ scan[q] = IF i = num_shared_segments THEN NoSeg ELSE number[w[i + 1]]
    BY <2>1 DEF Walked
  <2>3. num_shared_segments' = num_shared_segments /\ num_shared_segments \in Nat
    BY DEF Settled, ListInv
  <2>4. i # num_shared_segments => number'[w[i + 1]] = number[w[i + 1]]
    <3> SUFFICES ASSUME i # num_shared_segments PROVE number'[w[i + 1]] = number[w[i + 1]]
      OBVIOUS
    <3>1. i + 1 \in 1 .. num_shared_segments
      BY <2>3
    <3>2. w[i + 1] \in Listed
      BY <2>1, <2>3, <3>1, ListedCount DEF ListInv
    <3> QED
      BY <3>2 DEF Settled
  <2>5. /\ local'[q] = rest'[q] \o SubSeq(w, 1, i)
        /\ scan'[q] = IF i = num_shared_segments' THEN NoSeg ELSE number'[w[i + 1]]
        /\ i \in 0 .. num_shared_segments' /\ SharedList' = w
    BY <1>1, <1>2, <2>1, <2>2, <2>3, <2>4
  <2> QED
    BY <2>5 DEF Walked
<1> QED
  BY <1>1, <1>2, <1>3, <1>4 DEF CurrentOf

(* Every step of p is such a step.                                         *)
LEMMA CurrentFrames ==
    ASSUME SegmentsInv, NEW p \in Proc, Step(p) \/ User(p) \/ CreateFails(p) \/ OnExit(p)
    PROVE  CurrentFrame(p)
<1>1. TrackFrame(p)
  BY ControlFrame DEF SegmentsInv
<1>2. /\ local \in [Proc -> Seq(Obj)] /\ rest \in [Proc -> Seq(Obj)] /\ ret \in [Proc -> PC]
      /\ scan \in [Proc -> SegNum \cup {NoSeg}]
  BY DEF SegmentsInv, LockInv, LocalInv, ListInv
<1> SUFFICES ASSUME NEW q \in Proc, q # p
             PROVE  /\ local'[q] = local[q] /\ rest'[q] = rest[q] /\ ret'[q] = ret[q]
                    /\ scan'[q] = scan[q]
  BY <1>1 DEF CurrentFrame, TrackFrame
<1>3. ASSUME NEW o, NEW l, RemoveSegmentFromSharedList(p, o, l) PROVE local'[q] = local[q]
  BY <1>2, <1>3 DEF RemoveSegmentFromSharedList
<1>4. ASSUME NEW o, NEW l, CallDetach(p, o, l) PROVE ret'[q] = ret[q]
  BY <1>2, <1>4 DEF CallDetach
<1>5. CASE Detach(p)
  <2>1. CASE Collect(p) \/ RemoveLast(p)
    BY <1>3, <2>1 DEF Collect, RemoveLast
  <2>2. CASE ~(Collect(p) \/ RemoveLast(p))
    BY <1>2, <1>5, <2>2 DEF Detach, DestroyVariable, Untrack, CompareSwap, UnlinkSegment,
                            PostAndSubtract, Detached, proc
  <2> QED
    BY <2>1, <2>2
<1>6. CASE CleanSegmentList(p) \/ CleanVariableList(p) \/ OnError(p) \/ Config(p) \/ OnExit(p)
  BY <1>2, <1>4, <1>6 DEF CleanSegmentList, CleanVariableList, OnError, Config, OnExit, proc
<1>7. CASE ReserveSize(p) \/ CreateSegment(p) \/ CreateFails(p) \/ ReturnShared(p)
  BY <1>2, <1>7 DEF ReserveSize, CreateSegment, CreateFails, ReturnShared, proc
<1>8. CASE AddSegmentToSharedList(p)
  BY <1>2, <1>4, <1>8 DEF AddSegmentToSharedList
<1>9. CASE WalkSharedList(p) \/ UpdateLatestSegment(p) \/ OpenLatest(p)
  BY <1>2, <1>9 DEF WalkSharedList, UpdateLatestSegment, OpenLatest, PlaceAtEnd, proc
<1>10. CASE DetachStale(p)
  BY <1>2, <1>4, <1>10 DEF DetachStale
<1>11. CASE FetchUpdate(p) \/ ClearUpdate(p)
  BY <1>2, <1>11 DEF FetchUpdate, ClearUpdate, UpdateAllSegments, proc
<1>12. CASE CreateOutputs(p) \/ UseOutput(p) \/ AcquireForClear(p) \/ ReleaseAfterClear(p)
  BY <1>2, <1>12 DEF CreateOutputs, UseOutput, AcquireForClear, ReleaseAfterClear, proc
<1>13. CASE ClearFirst(p)
  BY <1>2, <1>3, <1>4, <1>13 DEF ClearFirst
<1>14. CASE \E o \in Obj : ClearOne(p, o)
  BY <1>2, <1>3, <1>4, <1>14 DEF ClearOne
<1>15. CASE User(p)
  BY <1>2, <1>15 DEF User, Call, DropCopy, proc
<1> QED
  BY <1>5, <1>6, <1>7, <1>8, <1>9, <1>10, <1>11, <1>12, <1>13, <1>14, <1>15 DEF Step

(* A step that leaves the list as it is.                                   *)
LEMMA CurrentStep ==
    ASSUME SegmentsInv, SegmentsInv', CurrentInv, NEW p \in Proc, CurrentFrame(p), Settled,
           up_to_date' \in {up_to_date, up_to_date \cup {p}},
           UNCHANGED rev_is_initial, CurrentOf(p)'
    PROVE  CurrentInv'
<1>1. ASSUME NEW q \in Proc, q # p PROVE CurrentOf(q)'
  <2>1. CurrentOf(q)
    BY DEF CurrentInv, CurrentOf
  <2>2. q \in up_to_date' => q \in up_to_date
    BY <1>1
  <2> QED
    BY <1>1, <2>1, <2>2, CurrentOthers DEF SegmentsInv
<1>2. \A q \in Proc : CurrentOf(q)'
  BY <1>1
<1>3. up_to_date' \subseteq Proc
  BY DEF CurrentInv
<1>4. rev_is_initial' => num_shared_segments' = 0
  BY DEF CurrentInv, Settled
<1> QED
  BY <1>2, <1>3, <1>4 DEF CurrentInv, CurrentOf

(* A step that changes the list: nobody is up to date any more, and nobody *)
(* is on the way along the list.                                           *)
LEMMA CurrentEmptied ==
    ASSUME SegmentsInv, NEW p \in Proc, CurrentFrame(p), CanAcquire(p), IncrementRevisionNumber,
           pc'[p] # "walk"
    PROVE  CurrentInv'
<1>1. \A q \in Proc : q # p => pc[q] # "walk"
  BY OthersOut DEF SegmentsInv
<1>2. \A q \in Proc : pc'[q] # "walk"
  BY <1>1 DEF CurrentFrame
<1>3. up_to_date' = {} /\ rev_is_initial' = FALSE
  BY DEF IncrementRevisionNumber
<1> QED
  BY <1>2, <1>3 DEF CurrentInv

(* CurrentOf(p) where p is not up to date, ...                             *)
LEMMA CurrentAway ==
    ASSUME NEW p \in Proc, p \notin up_to_date', pc'[p] # "walk"
    PROVE  CurrentOf(p)'
BY DEF CurrentOf

(* ... where it keeps its list, ...                                        *)
LEMMA CurrentKept ==
    ASSUME SegmentsInv, SegmentsInv', Settled, NEW p \in Proc, CurrentInv, UNCHANGED up_to_date,
           local'[p] = local[p], At(p) \notin {"stale", "add", "exit"},
           pc'[p] \notin {"return", "open_latest", "walk"}, At(p)' \notin {"stale", "add"}
    PROVE  CurrentOf(p)'
<1>1. SharedList' = SharedList
  BY SettledList DEF SegmentsInv
<1> QED
  BY <1>1 DEF CurrentInv, CurrentOf

(* ... and where it stays within one call of msh_DetachSegment.            *)
LEMMA CurrentSame ==
    ASSUME SegmentsInv, SegmentsInv', Settled, NEW p \in Proc, CurrentInv, UNCHANGED up_to_date,
           local'[p] = local[p], rest'[p] = rest[p], At(p)' = At(p), At(p) # "add",
           pc'[p] \notin {"return", "open_latest", "walk"}
    PROVE  CurrentOf(p)'
<1>1. SharedList' = SharedList
  BY SettledList DEF SegmentsInv
<1> QED
  BY <1>1 DEF CurrentInv, CurrentOf

(* Where the links and the names stay as they are.                         *)
LEMMA SettledSame ==
    ASSUME UNCHANGED <<first_seg_num, num_shared_segments, number, names, next_seg_num>>
    PROVE  Settled
BY DEF Settled

(* Who can be current: what msh_RemoveSegmentFromSharedList does with      *)
(* revision and local list.                                                *)
LEMMA RemoveCurrent ==
    ASSUME NEW p \in Proc, NEW o, NEW l, RemoveSegmentFromSharedList(p, o, l),
           UNCHANGED <<names, number>>
    PROVE  \/ /\ is_invalid[o] /\ Settled /\ UNCHANGED <<up_to_date, rev_is_initial>>
              /\ local' = [local EXCEPT ![p] = l]
           \/ CanAcquire(p) /\ IncrementRevisionNumber
<1>1. CASE is_invalid[o]
  BY <1>1, SettledSame DEF RemoveSegmentFromSharedList, list
<1>2. CASE ~is_invalid[o]
  BY <1>2 DEF RemoveSegmentFromSharedList
<1> QED
  BY <1>1, <1>2

(* A process that is up to date has no invalid segment in its local list.  *)
LEMMA CurrentValid ==
    ASSUME ListInv, CurrentInv, NEW p \in Proc, NEW o \in ToSet(local[p]), is_invalid[o],
           At(p) \notin {"stale", "add", "exit"}
    PROVE  p \notin up_to_date
<1>1. p \in up_to_date => local[p] = SharedList
  BY DEF CurrentInv
<1>2. \A x : x \in ToSet(SharedList) <=> x \in Listed
  BY SharedListSeq
<1> QED
  BY <1>1, <1>2 DEF Listed

(* A segment of the list has its name.                                     *)
LEMMA ListedNamed ==
    ASSUME TrackInv, ListInv, NEW o \in Listed
    PROVE  o \in Obj /\ names[number[o]] = o /\ number[o] \in SegNum
<1>1. PICK w : w = SharedList
  OBVIOUS
<1>2. num_shared_segments \in Nat /\ Linked(w)
  BY <1>1 DEF ListInv
<1>3. PICK i \in 1 .. num_shared_segments : o = w[i]
  BY <1>2, ListedCount
<1> QED
  BY <1>2, <1>3, LinkedFact

(* The name that msh_DetachSegment unlinks is that of no segment in it.    *)
LEMMA SettledUnlink ==
    ASSUME SegmentsInv, NEW p \in Proc, UnlinkSegment(p)
    PROVE  Settled
<1>1. LocalOf(p)
  BY LocalParts DEF SegmentsInv
<1>2. /\ UNCHANGED <<first_seg_num, num_shared_segments, number, next_seg_num>>
      /\ names' = [names EXCEPT ![number[cur[p]]] = NoObj] /\ pc[p] = "unlink"
  BY DEF UnlinkSegment, list
<1>3. is_invalid[cur[p]] /\ cur[p] \in handles[p] /\ names[number[cur[p]]] = cur[p]
  <2>1. is_invalid[cur[p]]
    BY <1>2 DEF SegmentsInv, ListInv
  <2>2. cur[p] \in handles[p]
    BY <1>1, <1>2 DEF LocalOf, DetachPC
  <2> QED
    BY <1>2, <2>1, <2>2 DEF SegmentsInv, TrackInv, TrackedIsPinned
<1>4. \A o \in Listed : names'[number[o]] = names[number[o]]
  <2> SUFFICES ASSUME NEW o \in Listed PROVE names'[number[o]] = names[number[o]]
    OBVIOUS
  <2>1. o \in Obj /\ ~is_invalid[o] /\ o # cur[p]
    BY <1>3 DEF Listed
  <2>2. names[number[o]] = o /\ number[o] \in SegNum
    BY <2>1, ListedNamed DEF SegmentsInv
  <2>3. number[o] # number[cur[p]]
    BY <1>3, <2>1, <2>2
  <2> QED
    BY <1>2, <2>2, <2>3 DEF SegmentsInv, TrackInv
<1> QED
  BY <1>2, <1>4 DEF Settled

(* The name given to a new segment is that of no segment in it either.     *)
LEMMA SettledCreate ==
    ASSUME SegmentsInv, NEW p \in Proc, CreateSegment(p) \/ CreateFails(p)
    PROVE  Settled
<1>1. /\ names \in [SegNum -> Obj \cup {NoObj}] /\ number \in [Obj -> SegNum]
      /\ next_seg_num \in [Obj -> SegNum \cup {NoSeg}]
      /\ UNCHANGED <<first_seg_num, num_shared_segments>>
  BY DEF SegmentsInv, TrackInv, ListInv, CreateSegment, CreateFails
<1>2. PICK k : k = NextSegNum(scan[p])
  OBVIOUS
<1>3. ASSUME names[k] = NoObj, NEW o \in FreeObj, names' = [names EXCEPT ![k] = o],
             number' = [number EXCEPT ![o] = k], \A x \in Obj : x # o => next_seg_num'[x] = next_seg_num[x]
      PROVE  Settled
  <2>1. o \notin Listed
    BY DEF Listed
  <2>2. \A x \in Listed : x \in Obj /\ x # o /\ names[number[x]] = x /\ number[x] \in SegNum
    BY <2>1, ListedNamed DEF SegmentsInv
  <2>3. \A x \in Listed : number[x] # k
    BY <1>3, <2>2, SegmentsAssumption
  <2>4. \A x \in Listed : /\ number'[x] = number[x] /\ next_seg_num'[x] = next_seg_num[x]
                          /\ names'[number[x]] = names[number[x]]
    BY <1>1, <1>3, <2>2, <2>3
  <2> QED
    BY <1>1, <2>4 DEF Settled
<1>4. CASE UNCHANGED <<names, number, next_seg_num>>
  BY <1>1, <1>4, SettledSame
<1>5. CASE CreateFails(p)
  <2>1. next_seg_num' = next_seg_num
    BY <1>5 DEF CreateFails
  <2>2. \/ UNCHANGED <<names, number>>
        \/ /\ names[k] = NoObj
           /\ \E o \in FreeObj : /\ names' = [names EXCEPT ![k] = o]
                                 /\ number' = [number EXCEPT ![o] = k]
    BY <1>2, <1>5 DEF CreateFails
  <2> QED
    BY <1>3, <1>4, <2>1, <2>2
<1>6. CASE CreateSegment(p) /\ ~UNCHANGED <<names, number, next_seg_num>>
  <2>1. PICK o \in FreeObj : /\ names[k] = NoObj
                             /\ names' = [names EXCEPT ![k] = o] /\ number' = [number EXCEPT ![o] = k]
                             /\ next_seg_num' = [next_seg_num EXCEPT ![o] = NoSeg]
    BY <1>2, <1>6 DEF CreateSegment
  <2>2. \A x \in Obj : x # o => next_seg_num'[x] = next_seg_num[x]
    BY <1>1, <2>1
  <2> QED
    BY <1>3, <2>1, <2>2
<1> QED
  BY <1>4, <1>5, <1>6

(* Within msh_DetachSegment the local list stays as it is, or the shared   *)
(* list changes.                                                           *)
LEMMA CurrentDetach ==
    ASSUME SegmentsInv, SegmentsInv', CurrentInv, NEW p \in Proc, CurrentFrame(p), Detach(p)
    PROVE  CurrentInv'
<1>1. /\ LocalOf(p) /\ pc \in [Proc -> PC] /\ local \in [Proc -> Seq(Obj)] /\ ret[p] \in PC
      /\ pc[p] \in DetachPC => ret[p] \in ReturnPC
  BY LocalParts DEF SegmentsInv, LockInv, LocalTypes
<1>2. pc[p] \in DetachPC
  BY DEF Detach, DestroyVariable, Collect, Untrack, RemoveLast, CompareSwap, UnlinkSegment,
         PostAndSubtract, DetachPC
<1>3. At(p) = ret[p] /\ ret[p] \in ReturnPC
  BY <1>1, <1>2 DEF At
<1>4. /\ \A l \in DetachPC : l \notin {"return", "open_latest", "walk"}
      /\ \A l \in ReturnPC : l \notin {"return", "open_latest", "walk", "add"} /\ l \notin DetachPC
  BY DEF DetachPC, ReturnPC
<1>5. ASSUME NEW l \in DetachPC, pc' = [pc EXCEPT ![p] = l], UNCHANGED <<ret, local, rest>>,
             UNCHANGED <<up_to_date, rev_is_initial>>, Settled
      PROVE  CurrentInv'
  <2>1. pc'[p] = l /\ At(p)' = At(p)
    BY <1>1, <1>2, <1>5 DEF At
  <2>2. CurrentOf(p)'
    BY <1>3, <1>4, <1>5, <2>1, CurrentSame
  <2> QED
    BY <1>5, <2>2, CurrentStep
<1>6. ASSUME Detached(p), UNCHANGED <<local, rest>>,
             UNCHANGED <<up_to_date, rev_is_initial>>, Settled
      PROVE  CurrentInv'
  <2>1. pc'[p] = ret[p]
    BY <1>1, <1>6 DEF Detached, Goto
  <2>2. At(p)' = At(p)
    BY <1>3, <1>4, <2>1 DEF At
  <2>3. CurrentOf(p)'
    BY <1>3, <1>4, <1>6, <2>1, <2>2, CurrentSame
  <2> QED
    BY <1>6, <2>3, CurrentStep
<1>7. CASE DestroyVariable(p)
  <2>1. \E l \in DetachPC : pc' = [pc EXCEPT ![p] = l]
    BY <1>7 DEF DestroyVariable, Goto, DetachPC
  <2>2. /\ UNCHANGED <<ret, local, rest, up_to_date, rev_is_initial>>
        /\ UNCHANGED <<first_seg_num, num_shared_segments, number, names, next_seg_num>>
    BY <1>7 DEF DestroyVariable, list, memory
  <2> QED
    BY <1>5, <2>1, <2>2, SettledSame
<1>8. CASE Collect(p)
  <2>1. /\ RemoveSegmentFromSharedList(p, cur[p], RemoveNode(local[p], cur[p]))
        /\ UNCHANGED <<names, number, ret, rest>> /\ pc[p] = "collect"
        /\ pc' = [pc EXCEPT ![p] = DetachEntry(p, cur[p])]
    BY <1>8 DEF Collect, Goto, memory
  <2>2. DetachEntry(p, cur[p]) \in DetachPC
    BY DEF DetachEntry, DetachPC
  <2>3. pc'[p] = DetachEntry(p, cur[p]) /\ At(p)' = At(p)
    BY <1>1, <1>2, <2>1, <2>2 DEF At
  <2>4. CASE CanAcquire(p) /\ IncrementRevisionNumber
    BY <1>4, <2>2, <2>3, <2>4, CurrentEmptied
  <2>5. CASE /\ is_invalid[cur[p]] /\ Settled /\ UNCHANGED <<up_to_date, rev_is_initial>>
             /\ local' = [local EXCEPT ![p] = RemoveNode(local[p], cur[p])]
    <3>1. CASE cur[p] \in ToSet(local[p])
      <4>1. ret[p] = "gc"
        BY <1>1, <1>2, <3>1 DEF LocalOf
      <4>2. p \notin up_to_date
        BY <1>3, <2>5, <3>1, <4>1, CurrentValid DEF SegmentsInv
      <4>3. CurrentOf(p)'
        BY <1>4, <2>2, <2>3, <2>5, <4>2, CurrentAway
      <4> QED
        BY <2>5, <4>3, CurrentStep
    <3>2. CASE cur[p] \notin ToSet(local[p])
      <4>1. local' = local
        BY <1>1, <2>5, <3>2 DEF RemoveNode
      <4> QED
        BY <1>5, <2>1, <2>2, <2>5, <4>1
    <3> QED
      BY <3>1, <3>2
  <2> QED
    BY <2>1, <2>4, <2>5, RemoveCurrent
<1>9. CASE RemoveLast(p)
  <2>1. /\ RemoveSegmentFromSharedList(p, cur[p], local[p])
        /\ UNCHANGED <<names, number, ret, rest>> /\ pc' = [pc EXCEPT ![p] = "cas"]
    BY <1>9 DEF RemoveLast, Goto, memory
  <2>2. pc'[p] = "cas" /\ "cas" \in DetachPC
    BY <1>1, <2>1 DEF DetachPC
  <2>3. CASE CanAcquire(p) /\ IncrementRevisionNumber
    BY <2>2, <2>3, CurrentEmptied
  <2>4. CASE /\ is_invalid[cur[p]] /\ Settled /\ UNCHANGED <<up_to_date, rev_is_initial>>
             /\ local' = [local EXCEPT ![p] = local[p]]
    <3>1. local' = local
      BY <1>1, <2>4
    <3> QED
      BY <1>5, <2>1, <2>2, <2>4, <3>1
  <2> QED
    BY <2>1, <2>3, <2>4, RemoveCurrent
<1>10. CASE Untrack(p)
  <2>1. /\ UNCHANGED <<local, rest, up_to_date, rev_is_initial>>
        /\ UNCHANGED <<first_seg_num, num_shared_segments, number, names, next_seg_num>>
    BY <1>10 DEF Untrack, list, memory, proc
  <2>2. CASE Detached(p)
    BY <1>6, <2>1, <2>2, SettledSame
  <2>3. CASE Goto(p, "remove") /\ UNCHANGED ret
    <3>1. "remove" \in DetachPC
      BY DEF DetachPC
    <3> QED
      BY <1>5, <2>1, <2>3, <3>1, SettledSame DEF Goto
  <2> QED
    BY <1>10, <2>2, <2>3 DEF Untrack
<1>11. CASE CompareSwap(p)
  <2>1. \E l \in DetachPC : pc' = [pc EXCEPT ![p] = l]
    BY <1>11 DEF CompareSwap, Goto, DetachPC
  <2>2. /\ UNCHANGED <<ret, local, rest, up_to_date, rev_is_initial>>
        /\ UNCHANGED <<first_seg_num, num_shared_segments, number, names, next_seg_num>>
    BY <1>11 DEF CompareSwap, list, memory, proc
  <2> QED
    BY <1>5, <2>1, <2>2, SettledSame
<1>12. CASE UnlinkSegment(p)
  <2>1. /\ UNCHANGED <<ret, local, rest, up_to_date, rev_is_initial>>
        /\ pc' = [pc EXCEPT ![p] = "post"] /\ "post" \in DetachPC
    BY <1>12 DEF UnlinkSegment, list, proc, Goto, DetachPC
  <2>2. Settled
    BY <1>12, SettledUnlink
  <2> QED
    BY <1>5, <2>1, <2>2
<1>13. CASE PostAndSubtract(p)
  <2>1. /\ UNCHANGED <<local, rest, up_to_date, rev_is_initial>> /\ Detached(p)
        /\ UNCHANGED <<first_seg_num, num_shared_segments, number, names, next_seg_num>>
    BY <1>13 DEF PostAndSubtract, list, memory, proc
  <2> QED
    BY <1>6, <2>1, SettledSame
<1> QED
  BY <1>7, <1>8, <1>9, <1>10, <1>11, <1>12, <1>13 DEF Detach

(* The steps that keep local list and shared list.                         *)
LEMMA CurrentQuiet ==
    ASSUME SegmentsInv, SegmentsInv', CurrentInv, NEW p \in Proc, CurrentFrame(p),
           UNCHANGED <<list, names, number>>, local'[p] = local[p],
           pc[p] \notin DetachPC \cup {"stale", "add", "exit"},
           pc'[p] \notin DetachPC \cup {"return", "open_latest", "walk", "stale", "add"}
    PROVE  CurrentInv'
<1>1. Settled /\ UNCHANGED <<up_to_date, rev_is_initial>>
  BY SettledSame DEF list
<1>2. At(p) \notin {"stale", "add", "exit"} /\ At(p)' \notin {"stale", "add"}
  BY DEF At
<1>3. CurrentOf(p)'
  BY <1>1, <1>2, CurrentKept
<1> QED
  BY <1>1, <1>3, CurrentStep

(* Those after which p is not up to date.                                  *)
LEMMA CurrentOutdated ==
    ASSUME SegmentsInv, SegmentsInv', CurrentInv, NEW p \in Proc, CurrentFrame(p), Settled,
           UNCHANGED <<up_to_date, rev_is_initial>>, p \notin up_to_date, pc'[p] # "walk"
    PROVE  CurrentInv'
<1>1. CurrentOf(p)'
  BY CurrentAway
<1> QED
  BY <1>1, CurrentStep

(* msh_CleanSegmentList detaches nothing a process that is up to date has. *)
LEMMA CurrentClean ==
    ASSUME SegmentsInv, SegmentsInv', CurrentInv, NEW p \in Proc, CurrentFrame(p),
           CleanSegmentList(p)
    PROVE  CurrentInv'
<1>1. /\ pc \in [Proc -> PC] /\ local \in [Proc -> Seq(Obj)] /\ rest \in [Proc -> Seq(Obj)]
      /\ LocalOf(p)
  BY LocalParts DEF SegmentsInv, LockInv, LocalInv
<1>2. pc[p] = "clean" /\ UNCHANGED <<list, names, number>>
  BY DEF CleanSegmentList, memory
<1>3. pc[p] \notin DetachPC \cup {"stale", "add", "exit"} /\ At(p) = "clean"
  BY <1>2 DEF DetachPC, At
<1>4. CASE rest[p] = <<>>
  <2>1. local' = local /\ pc'[p] \in {"gc", "command"}
    BY <1>1, <1>4 DEF CleanSegmentList, Goto
  <2>2. pc'[p] \notin DetachPC \cup {"return", "open_latest", "walk", "stale", "add"}
    BY <2>1 DEF DetachPC
  <2> QED
    BY <1>2, <1>3, <2>1, <2>2, CurrentQuiet
<1>5. CASE rest[p] # <<>> /\ ~is_invalid[Head(rest[p])]
  <2>1. local' = local /\ pc' = pc
    BY <1>5 DEF CleanSegmentList
  <2>2. pc'[p] \notin DetachPC \cup {"return", "open_latest", "walk", "stale", "add"}
    BY <1>2, <2>1 DEF DetachPC
  <2> QED
    BY <1>2, <1>3, <2>1, <2>2, CurrentQuiet
<1>6. CASE rest[p] # <<>> /\ is_invalid[Head(rest[p])]
  <2>1. PICK o : o = Head(rest[p])
    OBVIOUS
  <2>2. CallDetach(p, o, "clean")
    BY <1>6, <2>1 DEF CleanSegmentList
  <2>3. o \in ToSet(local[p])
    <3>1. ToSet(rest[p]) \subseteq ToSet(local[p])
      BY <1>1, <1>3 DEF LocalOf
    <3>2. rest[p] \in Seq(Obj)
      BY <1>1
    <3>3. Head(rest[p]) \in ToSet(rest[p])
      BY <1>6, <3>2, TailSubset
    <3> QED
      BY <2>1, <3>1, <3>3
  <2>4. p \notin up_to_date
    BY <1>3, <1>6, <2>1, <2>3, CurrentValid DEF SegmentsInv
  <2>5. pc'[p] # "walk"
    BY <1>1, <2>2 DEF CallDetach, Goto, DetachEntry
  <2>6. Settled /\ UNCHANGED <<up_to_date, rev_is_initial>>
    BY <1>2, SettledSame DEF list
  <2> QED
    BY <2>4, <2>5, <2>6, CurrentOutdated
<1> QED
  BY <1>4, <1>5, <1>6

(* A new segment is at the end of its creator's local list.                *)
LEMMA CurrentCreate ==
    ASSUME SegmentsInv, SegmentsInv', CurrentInv, NEW p \in Proc, CurrentFrame(p),
           CreateSegment(p) \/ CreateFails(p)
    PROVE  CurrentInv'
<1>1. /\ pc \in [Proc -> PC] /\ local \in [Proc -> Seq(Obj)] /\ cur \in [Proc -> Obj \cup {NoObj}]
  BY DEF SegmentsInv, LockInv, LocalInv
<1>2. /\ pc[p] = "create" /\ UNCHANGED <<first_seg_num, num_shared_segments, up_to_date, rev_is_initial>>
  BY DEF CreateSegment, CreateFails
<1>3. At(p) = "create"
  BY <1>2 DEF At, DetachPC
<1>4. Settled
  BY SettledCreate
<1>5. CASE CreateFails(p)
  <2>1. pc'[p] = "error" /\ UNCHANGED local
    BY <1>1, <1>5 DEF CreateFails, Goto, proc
  <2>2. At(p)' = "error"
    BY <2>1 DEF At, DetachPC
  <2>3. CurrentOf(p)'
    BY <1>2, <1>3, <1>4, <2>1, <2>2, CurrentKept
  <2> QED
    BY <1>2, <1>4, <2>3, CurrentStep
<1>6. CASE CreateSegment(p)
  <2>1. CASE UNCHANGED <<local, pc>>
    <3>1. At(p)' = "create"
      BY <1>2, <2>1 DEF At, DetachPC
    <3>2. CurrentOf(p)'
      BY <1>2, <1>3, <1>4, <2>1, <3>1, CurrentKept
    <3> QED
      BY <1>2, <1>4, <3>2, CurrentStep
  <2>2. CASE /\ \E o \in FreeObj : /\ local' = [local EXCEPT ![p] = Append(@, o)]
                                  /\ cur' = [cur EXCEPT ![p] = o]
             /\ Goto(p, "add")
    <3>1. PICK o \in FreeObj : /\ local' = [local EXCEPT ![p] = Append(@, o)]
                               /\ cur' = [cur EXCEPT ![p] = o]
      BY <2>2
    <3>2. SharedList' = SharedList
      BY <1>4, SettledList DEF SegmentsInv
    <3>3. pc'[p] = "add" /\ local'[p] = Append(local[p], o) /\ cur'[p] = o
      BY <1>1, <2>2, <3>1 DEF Goto
    <3>4. At(p)' = "add"
      BY <3>3 DEF At, DetachPC
    <3>5. p \in up_to_date => local[p] = SharedList
      BY <1>3 DEF CurrentInv
    <3>6. CurrentOf(p)'
      BY <1>2, <3>2, <3>3, <3>4, <3>5 DEF CurrentOf
    <3> QED
      BY <1>2, <1>4, <3>6, CurrentStep
  <2> QED
    BY <1>6, <2>1, <2>2 DEF CreateSegment
<1> QED
  BY <1>5, <1>6

(* A segment that is one too many leaves the local list again.             *)
LEMMA CurrentAdd ==
    ASSUME SegmentsInv, SegmentsInv', CurrentInv, NEW p \in Proc, CurrentFrame(p),
           AddSegmentToSharedList(p)
    PROVE  CurrentInv'
<1>1. pc \in [Proc -> PC] /\ local \in [Proc -> Seq(Obj)] /\ LocalOf(p) /\ cur[p] \in Obj \cup {NoObj}
      /\ ret \in [Proc -> PC]
  BY LocalParts DEF SegmentsInv, LockInv, LocalInv
<1>2. pc[p] = "add" /\ At(p) = "add" /\ UNCHANGED <<names, number>>
  BY DEF AddSegmentToSharedList, At, DetachPC, memory
<1>3. CASE CanAcquire(p) /\ IncrementRevisionNumber /\ Goto(p, "return")
  <2>1. pc'[p] # "walk"
    BY <1>1, <1>3 DEF Goto
  <2> QED
    BY <1>3, <2>1, CurrentEmptied
<1>4. CASE /\ local' = [local EXCEPT ![p] = RemoveNode(@, cur[p])]
           /\ CallDetach(p, cur[p], "error") /\ UNCHANGED list
  <2>1. Settled /\ UNCHANGED <<up_to_date, rev_is_initial>>
    BY <1>2, <1>4, SettledSame DEF list
  <2>2. SharedList' = SharedList
    BY <2>1, SettledList DEF SegmentsInv
  <2>3. pc'[p] \in {"detach", "untrack"} /\ ret'[p] = "error"
    BY <1>1, <1>4 DEF CallDetach, Goto, DetachEntry
  <2>4. At(p)' = "error"
    BY <2>3 DEF At, DetachPC
  <2>5. p \in up_to_date => local'[p] = SharedList
    <3> SUFFICES ASSUME p \in up_to_date PROVE local'[p] = SharedList
      OBVIOUS
    <3>1. local[p] = Append(SharedList, cur[p])
      BY <1>2 DEF CurrentInv
    <3>2. cur[p] \in Obj /\ IsInjective(Append(SharedList, cur[p]))
      <4>1. cur[p] \in ToSet(local[p]) /\ IsInjective(local[p])
        BY <1>1, <1>2 DEF LocalOf
      <4>2. ToSet(local[p]) \subseteq Obj
        BY <1>1 DEF SegmentsInv, LocalInv
      <4> QED
        BY <3>1, <4>1, <4>2
    <3>3. SharedList \in Seq(Obj)
      BY SharedListSeq DEF SegmentsInv
    <3>4. RemoveNode(Append(SharedList, cur[p]), cur[p]) = SharedList
      BY <3>2, <3>3, RemoveAppended
    <3> QED
      BY <1>1, <1>4, <3>1, <3>4
  <2>6. CurrentOf(p)'
    BY <2>1, <2>2, <2>3, <2>4, <2>5 DEF CurrentOf
  <2> QED
    BY <2>1, <2>6, CurrentStep
<1> QED
  BY <1>3, <1>4 DEF AddSegmentToSharedList

(* msh_UpdateAllSegments starts with nothing of the list passed yet.       *)
LEMMA CurrentUpdate ==
    ASSUME SegmentsInv, SegmentsInv', CurrentInv, NEW p \in Proc, CurrentFrame(p),
           FetchUpdate(p) \/ ClearUpdate(p)
    PROVE  CurrentInv'
<1>1. /\ pc \in [Proc -> PC] /\ local \in [Proc -> Seq(Obj)] /\ rest \in [Proc -> Seq(Obj)]
      /\ scan \in [Proc -> SegNum \cup {NoSeg}]
  BY DEF SegmentsInv, LockInv, LocalInv, ListInv
<1>2. pc[p] = "command" /\ UNCHANGED <<list, names, number, local>>
  BY DEF FetchUpdate, ClearUpdate, UpdateAllSegments, memory, proc
<1>3. pc[p] \notin DetachPC \cup {"stale", "add", "exit"}
  BY <1>2 DEF DetachPC
<1>4. CASE Goto(p, AfterUpdate(p))
  <2>1. pc'[p] \in {"clear", "output"}
    BY <1>1, <1>4 DEF Goto, AfterUpdate
  <2>2. pc'[p] \notin DetachPC \cup {"return", "open_latest", "walk", "stale", "add"}
    BY <2>1 DEF DetachPC
  <2> QED
    BY <1>2, <1>3, <2>2, CurrentQuiet
<1>5. CASE /\ p \notin up_to_date /\ Goto(p, "walk")
           /\ scan' = [scan EXCEPT ![p] = first_seg_num]
           /\ rest' = [rest EXCEPT ![p] = local[p]]
  <2>1. Settled /\ UNCHANGED <<up_to_date, rev_is_initial, num_shared_segments, first_seg_num>>
    BY <1>2, SettledSame DEF list
  <2>2. PICK w : w = SharedList
    OBVIOUS
  <2>3. /\ w \in Seq(Obj) /\ num_shared_segments \in Nat
        /\ first_seg_num = IF num_shared_segments = 0 THEN NoSeg ELSE number[w[1]]
    BY <2>2, SharedListSeq DEF SegmentsInv, ListInv, Linked
  <2>4. SharedList' = w
    BY <2>1, <2>2, SettledList DEF SegmentsInv
  <2>5. pc'[p] = "walk" /\ scan'[p] = first_seg_num /\ rest'[p] = local[p] /\ local'[p] = local[p]
    BY <1>1, <1>2, <1>5 DEF Goto
  <2>6. local'[p] = rest'[p] \o SubSeq(w, 1, 0)
    <3>1. SubSeq(w, 1, 0) = <<>>
      BY <2>3, PrefixFact
    <3>2. local[p] \in Seq(Obj)
      BY <1>1
    <3>3. local[p] \o <<>> = local[p]
      BY <3>2, ConcatEmptySeq
    <3> QED
      BY <2>5, <3>1, <3>3
  <2>7. /\ 0 \in 0 .. num_shared_segments'
        /\ scan'[p] = IF 0 = num_shared_segments' THEN NoSeg ELSE number'[w[0 + 1]]
    BY <1>2, <2>1, <2>3, <2>5
  <2>8. Walked(p)'
    BY <2>4, <2>6, <2>7 DEF Walked
  <2>9. At(p)' = "walk"
    BY <2>5 DEF At, DetachPC
  <2>10. CurrentOf(p)'
    BY <1>5, <2>1, <2>8 DEF CurrentOf
  <2> QED
    BY <2>1, <2>10, CurrentStep
<1> QED
  BY <1>4, <1>5 DEF FetchUpdate, ClearUpdate, UpdateAllSegments

(* A step of the walk moves the next segment of the list to the end of the *)
(* local list; at the end of the walk it has the whole list there.         *)
LEMMA CurrentWalk ==
    ASSUME SegmentsInv, SegmentsInv', CurrentInv, NEW p \in Proc, CurrentFrame(p),
           WalkSharedList(p)
    PROVE  CurrentInv'
<1>1. /\ pc \in [Proc -> PC] /\ local \in [Proc -> Seq(Obj)] /\ rest \in [Proc -> Seq(Obj)]
      /\ scan \in [Proc -> SegNum \cup {NoSeg}] /\ LocalOf(p)
  BY LocalParts DEF SegmentsInv, LockInv, LocalInv, ListInv
<1>2. /\ pc[p] = "walk" /\ UNCHANGED <<names, number, next_seg_num, first_seg_num, rev_is_initial>>
      /\ UNCHANGED num_shared_segments
  BY DEF WalkSharedList, memory
<1>3. At(p) = "walk" /\ pc[p] \notin DetachPC
  BY <1>2 DEF At, DetachPC
<1>4. PICK w : w = SharedList
  OBVIOUS
<1>5. PICK n \in Nat : n = num_shared_segments
  BY DEF SegmentsInv, ListInv
<1>6. w \in Seq(Obj) /\ Len(w) = n /\ IsInjective(w) /\ Linked(w)
  BY <1>4, <1>5, SharedListSeq DEF SegmentsInv, ListInv
<1>7. Settled
  BY <1>2, SettledSame
<1>8. SharedList' = w
  BY <1>4, <1>7, SettledList DEF SegmentsInv
<1>9. p \notin up_to_date /\ Walked(p)
  BY <1>2 DEF CurrentInv
<1>10. PICK i \in 0 .. n : /\ local[p] = rest[p] \o SubSeq(w, 1, i)
                           /\ scan[p] = IF i = n THEN NoSeg ELSE number[w[i + 1]]
  BY <1>4, <1>5, <1>9 DEF Walked
<1>11. i # n => i + 1 \in 1 .. n /\ i \in 0 .. (n - 1)
  OBVIOUS
<1>12. i # n => scan[p] # NoSeg /\ w[i + 1] \in Obj \ orphans /\ names[scan[p]] = w[i + 1]
                /\ scan[p] \in SegNum /\ ~is_invalid[w[i + 1]]
                /\ next_seg_num[w[i + 1]] = IF i + 1 = n THEN NoSeg ELSE number[w[i + 2]]
  <2> SUFFICES ASSUME i # n
               PROVE  scan[p] # NoSeg /\ w[i + 1] \in Obj \ orphans /\ names[scan[p]] = w[i + 1]
                      /\ scan[p] \in SegNum /\ ~is_invalid[w[i + 1]]
                      /\ next_seg_num[w[i + 1]] = IF i + 1 = n THEN NoSeg ELSE number[w[i + 2]]
    OBVIOUS
  <2>1. i + 1 \in 1 .. num_shared_segments /\ (i + 1) + 1 = i + 2
    BY <1>5, <1>11
  <2>2. TrackInv /\ num_shared_segments \in Nat
    BY <1>5 DEF SegmentsInv
  <2>3. /\ w[i + 1] \in Obj \ orphans /\ names[number[w[i + 1]]] = w[i + 1]
        /\ number[w[i + 1]] \in SegNum /\ number[w[i + 1]] # NoSeg /\ ~is_invalid[w[i + 1]]
    BY <1>6, <2>1, <2>2, LinkedFact
  <2>4. next_seg_num[w[i + 1]] = IF i + 1 = n THEN NoSeg ELSE number[w[i + 2]]
    BY <1>5, <1>6, <2>1 DEF Linked
  <2> QED
    BY <1>10, <2>3, <2>4
<1>13. CASE scan[p] = NoSeg
  <2>1. i = n
    BY <1>12, <1>13
  <2>2. local[p] = rest[p] \o w
    <3>1. SubSeq(w, 1, Len(w)) = w
      BY <1>6, PrefixFact
    <3> QED
      BY <1>6, <1>10, <2>1, <3>1
  <2>3. /\ pc'[p] = "stale" /\ local' = local /\ rest' = rest
        /\ up_to_date' = up_to_date \cup {p}
    BY <1>1, <1>13 DEF WalkSharedList, Goto
  <2>4. At(p)' = "stale"
    BY <2>3 DEF At, DetachPC
  <2>5. CurrentOf(p)'
    BY <1>8, <2>2, <2>3, <2>4 DEF CurrentOf
  <2> QED
    BY <1>2, <1>7, <2>3, <2>5, CurrentStep
<1>14. CASE scan[p] # NoSeg
  <2>1. PICK o : o = NodeOf(p, scan[p])
    OBVIOUS
  <2>2. /\ local' = [local EXCEPT ![p] = Append(RemoveNode(@, o), o)]
        /\ rest' = [rest EXCEPT ![p] = RemoveNode(@, o)]
        /\ scan' = [scan EXCEPT ![p] = next_seg_num[o]] /\ pc' = pc /\ up_to_date' = up_to_date
    BY <1>14, <2>1 DEF WalkSharedList
  <2>3. i # n
    BY <1>10, <1>14
  <2>4. o = w[i + 1] /\ o \in Obj
    <3>1. names[scan[p]] = w[i + 1] /\ scan[p] \in SegNum /\ w[i + 1] \in Obj \ orphans
          /\ ~is_invalid[w[i + 1]]
      BY <1>12, <2>3
    <3>2. NodeOf(p, scan[p]) = names[scan[p]]
      BY <1>3, <3>1, UnopenedFact DEF SegmentsInv
    <3> QED
      BY <2>1, <3>1, <3>2
  <2>5. PICK r, t : r = rest[p] /\ t = SubSeq(w, 1, i)
    OBVIOUS
  <2>6. r \in Seq(Obj) /\ IsInjective(r)
    BY <1>1, <1>3, <2>5 DEF LocalOf
  <2>7. t \in Seq(Obj) /\ SubSeq(w, 1, i + 1) = Append(t, w[i + 1])
    <3>1. i \in 0 .. Len(w) /\ i \in 0 .. (Len(w) - 1)
      BY <1>6, <1>11, <2>3
    <3> QED
      BY <1>6, <2>5, <3>1, PrefixFact
  <2>8. IsInjective(r \o t)
    <3>1. IsInjective(local[p])
      BY <1>1 DEF LocalOf
    <3> QED
      BY <1>10, <2>5, <3>1
  <2>9. o \notin ToSet(t)
    <3>1. i =< Len(w) /\ 1 >= 1 /\ i \in Int /\ 1 \in Int
      BY <1>6
    <3>2. \A x : x \in ToSet(t) <=> \E j \in 1 .. i : x = w[j]
      BY <1>6, <2>5, <3>1, SubSeqFact
    <3>3. \A j \in 1 .. i : w[j] # w[i + 1]
      <4>1. DOMAIN w = 1 .. n
        BY <1>6, LenProperties
      <4>2. \A j \in 1 .. i : j \in DOMAIN w /\ i + 1 \in DOMAIN w /\ j # i + 1
        BY <1>11, <2>3, <4>1
      <4> QED
        BY <1>6, <4>2 DEF IsInjective
    <3> QED
      BY <2>4, <3>2, <3>3
  <2>10. Append(RemoveNode(r \o t, o), o) = RemoveNode(r, o) \o Append(t, o)
    BY <2>4, <2>6, <2>7, <2>8, <2>9, PlaceConcat
  <2>11. local'[p] = rest'[p] \o SubSeq(w, 1, i + 1)
    <3>1. local'[p] = Append(RemoveNode(local[p], o), o) /\ rest'[p] = RemoveNode(rest[p], o)
      BY <1>1, <2>2
    <3>2. local[p] = r \o t
      BY <1>10, <2>5
    <3> QED
      BY <2>4, <2>5, <2>7, <2>10, <3>1, <3>2
  <2>12. /\ i + 1 \in 0 .. num_shared_segments'
         /\ scan'[p] = IF i + 1 = num_shared_segments' THEN NoSeg ELSE number'[w[i + 1 + 1]]
    <3>1. scan'[p] = next_seg_num[o]
      BY <1>1, <2>2
    <3>2. i + 1 + 1 = i + 2
      OBVIOUS
    <3> QED
      BY <1>2, <1>5, <1>11, <1>12, <2>3, <2>4, <3>1, <3>2
  <2>13. Walked(p)'
    BY <1>8, <2>11, <2>12 DEF Walked
  <2>14. CurrentOf(p)'
    <3>1. p \notin up_to_date'
      BY <1>9, <2>2
    <3> QED
      BY <2>13, <3>1 DEF CurrentOf
  <2> QED
    BY <1>2, <1>7, <2>2, <2>14, CurrentStep
<1> QED
  BY <1>13, <1>14

(* Once the stale segments before the shared list are gone the local list  *)
(* is the shared list.                                                     *)
LEMMA CurrentStale ==
    ASSUME SegmentsInv, SegmentsInv', CurrentInv, NEW p \in Proc, CurrentFrame(p),
           DetachStale(p)
    PROVE  CurrentInv'
<1>1. /\ pc \in [Proc -> PC] /\ local \in [Proc -> Seq(Obj)] /\ rest \in [Proc -> Seq(Obj)]
      /\ ret \in [Proc -> PC] /\ LocalOf(p)
  BY LocalParts DEF SegmentsInv, LockInv, LocalInv
<1>2. pc[p] = "stale" /\ At(p) = "stale" /\ UNCHANGED <<list, names, number>>
  BY DEF DetachStale, At, DetachPC, memory
<1>3. Settled /\ UNCHANGED <<up_to_date, rev_is_initial>>
  BY <1>2, SettledSame DEF list
<1>4. PICK w : w = SharedList
  OBVIOUS
<1>5. SharedList' = w /\ w \in Seq(Obj)
  BY <1>3, <1>4, SettledList, SharedListSeq DEF SegmentsInv
<1>6. p \in up_to_date => local[p] = rest[p] \o w
  BY <1>2, <1>4 DEF CurrentInv
<1>7. CASE rest[p] = <<>>
  <2>1. local' = local /\ pc'[p] \in {"clear", "output"}
    BY <1>1, <1>7 DEF DetachStale, Goto, AfterUpdate
  <2>2. At(p)' \notin {"stale", "add", "exit"} /\ pc'[p] \notin {"return", "open_latest", "walk"}
    BY <2>1 DEF At, DetachPC
  <2>3. <<>> \o w = w
    BY <1>5, ConcatEmptySeq
  <2>4. CurrentOf(p)'
    BY <1>3, <1>5, <1>6, <1>7, <2>1, <2>2, <2>3 DEF CurrentOf
  <2> QED
    BY <1>3, <2>4, CurrentStep
<1>8. CASE rest[p] # <<>>
  <2>1. /\ rest'[p] = Tail(rest[p]) /\ local'[p] = RemoveNode(local[p], Head(rest[p]))
        /\ CallDetach(p, Head(rest[p]), "stale")
    BY <1>1, <1>8 DEF DetachStale
  <2>2. pc'[p] \in {"detach", "untrack"} /\ ret'[p] = "stale"
    BY <1>1, <2>1 DEF CallDetach, Goto, DetachEntry
  <2>3. At(p)' = "stale"
    BY <2>2 DEF At, DetachPC
  <2>4. p \in up_to_date => local'[p] = rest'[p] \o w
    <3> SUFFICES ASSUME p \in up_to_date PROVE local'[p] = rest'[p] \o w
      OBVIOUS
    <3>1. PICK r : r = rest[p]
      OBVIOUS
    <3>2. r \in Seq(Obj) /\ r # <<>> /\ IsInjective(r \o w)
      BY <1>1, <1>6, <1>8, <3>1 DEF LocalOf
    <3>3. RemoveNode(r \o w, Head(r)) = Tail(r) \o w
      BY <1>5, <3>2, RemoveHead
    <3> QED
      BY <1>6, <2>1, <3>1, <3>3
  <2>5. CurrentOf(p)'
    BY <1>3, <1>5, <2>2, <2>3, <2>4 DEF CurrentOf
  <2> QED
    BY <1>3, <2>5, CurrentStep
<1> QED
  BY <1>7, <1>8

(* Only a process that is not up to date looks for the most recent         *)
(* segment, or has just shared a variable.                                 *)
LEMMA CurrentLatest ==
    ASSUME SegmentsInv, SegmentsInv', CurrentInv, NEW p \in Proc, CurrentFrame(p),
           UpdateLatestSegment(p) \/ OpenLatest(p) \/ ReturnShared(p)
    PROVE  CurrentInv'
<1>1. pc \in [Proc -> PC]
  BY DEF SegmentsInv, LockInv
<1>2. UNCHANGED <<list, names, number>>
  BY DEF UpdateLatestSegment, OpenLatest, ReturnShared, memory
<1>3. Settled /\ UNCHANGED <<up_to_date, rev_is_initial>>
  BY <1>2, SettledSame DEF list
<1>4. pc'[p] \in {"output", "open_latest", "command", "gc"}
  BY <1>1 DEF UpdateLatestSegment, OpenLatest, ReturnShared, Goto
<1>5. CASE p \notin up_to_date
  BY <1>3, <1>4, <1>5, CurrentOutdated
<1>6. CASE p \in up_to_date
  <2>1. pc[p] # "return" /\ pc[p] # "open_latest"
    BY <1>6 DEF CurrentInv
  <2>2. UpdateLatestSegment(p)
    BY <2>1 DEF OpenLatest, ReturnShared
  <2>3. pc[p] = "command" /\ local' = local /\ pc'[p] = "output"
    BY <1>1, <1>6, <2>2 DEF UpdateLatestSegment, Goto
  <2>4. /\ pc[p] \notin DetachPC \cup {"stale", "add", "exit"}
        /\ pc'[p] \notin DetachPC \cup {"return", "open_latest", "walk", "stale", "add"}
    BY <2>3 DEF DetachPC
  <2> QED
    BY <1>2, <2>3, <2>4, CurrentQuiet
<1> QED
  BY <1>5, <1>6

(* Clearing takes a segment out of the list, or it was no longer in it.    *)
LEMMA CurrentClear ==
    ASSUME SegmentsInv, SegmentsInv', CurrentInv, NEW p \in Proc, CurrentFrame(p),
           ClearFirst(p) \/ \E o \in Obj : ClearOne(p, o)
    PROVE  CurrentInv'
<1>1. /\ pc \in [Proc -> PC] /\ local \in [Proc -> Seq(Obj)] /\ ret \in [Proc -> PC]
      /\ first_seg_num \in SegNum \cup {NoSeg}
  BY EndsFact DEF SegmentsInv, LockInv, LocalInv
<1>2. pc[p] \in {"clear_all", "clear"} /\ UNCHANGED <<names, number>>
  BY DEF ClearFirst, ClearOne, memory
<1>3. At(p) \notin {"stale", "add", "exit"} /\ pc[p] \notin DetachPC
  BY <1>2 DEF At, DetachPC
<1>4. ASSUME NEW o, NEW l, NEW k, RemoveSegmentFromSharedList(p, o, l), CallDetach(p, o, k),
             is_invalid[o] => o \in ToSet(local[p])
      PROVE  CurrentInv'
  <2>1. pc'[p] # "walk"
    BY <1>1, <1>4 DEF CallDetach, Goto, DetachEntry
  <2>2. CASE CanAcquire(p) /\ IncrementRevisionNumber
    BY <2>1, <2>2, CurrentEmptied
  <2>3. CASE is_invalid[o] /\ Settled /\ UNCHANGED <<up_to_date, rev_is_initial>>
    <3>1. p \notin up_to_date
      BY <1>3, <1>4, <2>3, CurrentValid DEF SegmentsInv
    <3> QED
      BY <2>1, <2>3, <3>1, CurrentOutdated
  <2> QED
    BY <1>2, <1>4, <2>2, <2>3, RemoveCurrent
<1>5. ASSUME NEW o \in Obj, ClearOne(p, o) PROVE CurrentInv'
  <2>1. RemoveSegmentFromSharedList(p, o, RemoveNode(local[p], o)) /\ CallDetach(p, o, "clear")
        /\ o \in ToSet(local[p])
    BY <1>5 DEF ClearOne
  <2> QED
    BY <1>4, <2>1
<1>6. CASE ClearFirst(p)
  <2>1. PICK k : k = first_seg_num
    OBVIOUS
  <2>2. k \in SegNum /\ names[k] \in Obj \ orphans /\ ~is_invalid[names[k]] /\ pc[p] = "clear_all"
    BY <1>6, <2>1, EndsFact DEF SegmentsInv, ClearFirst
  <2>3. NodeOf(p, k) = names[k]
        /\ Unopened(p, k) = IF names[k] \in ToSet(local[p]) THEN <<>> ELSE <<names[k]>>
    BY <1>3, <2>2, UnopenedFact DEF SegmentsInv
  <2>4. CASE /\ RemoveSegmentFromSharedList(p, NodeOf(p, k), RemoveNode(local[p], NodeOf(p, k)))
             /\ CallDetach(p, NodeOf(p, k), "clear_all")
    BY <1>4, <2>2, <2>3, <2>4
  <2>5. CASE Unopened(p, k) # <<>> /\ UNCHANGED <<list, pc>>
    <3>1. names[k] \in Listed
      BY <2>2 DEF Listed, FreeObj
    <3>2. names[k] \notin ToSet(local[p])
      BY <2>3, <2>5
    <3>3. p \in up_to_date => local[p] = SharedList
      BY <1>3 DEF CurrentInv
    <3>4. \A o : o \in ToSet(SharedList) <=> o \in Listed
      BY SharedListSeq DEF SegmentsInv
    <3>5. p \notin up_to_date
      BY <3>1, <3>2, <3>3, <3>4
    <3>6. Settled /\ UNCHANGED <<up_to_date, rev_is_initial>>
      BY <1>2, <2>5, SettledSame DEF list
    <3>7. pc'[p] # "walk"
      BY <2>2, <2>5
    <3> QED
      BY <3>5, <3>6, <3>7, CurrentOutdated
  <2> QED
    BY <1>6, <2>1, <2>4, <2>5 DEF ClearFirst
<1> QED
  BY <1>5, <1>6

(* The steps that touch neither list.                                      *)
LEMMA CurrentUntouched ==
    ASSUME SegmentsInv, SegmentsInv', CurrentInv, NEW p \in Proc, CurrentFrame(p),
           \/ OnError(p) \/ Config(p) \/ ReserveSize(p) \/ CreateOutputs(p) \/ UseOutput(p)
           \/ AcquireForClear(p) \/ ReleaseAfterClear(p) \/ User(p)
    PROVE  CurrentInv'
<1>1. pc \in [Proc -> PC]
  BY DEF SegmentsInv, LockInv
<1>2. UNCHANGED <<list, names, number, local>>
  BY DEF OnError, Config, ReserveSize, CreateOutputs, UseOutput, AcquireForClear,
         ReleaseAfterClear, User, Call, DropCopy, memory, proc
<1>3. pc[p] \in {"error", "command", "output", "use", "clear_all", "clear", "idle", "out"}
  BY DEF OnError, Config, ReserveSize, CreateOutputs, UseOutput, AcquireForClear,
         ReleaseAfterClear, User, Call, DropCopy
<1>4. pc'[p] \in {"idle", "gc", "error", "create", "use", "clear_all", "command", "clean"}
  <2>1. CASE OnError(p) \/ Config(p) \/ ReserveSize(p) \/ AcquireForClear(p) \/ ReleaseAfterClear(p)
    BY <1>1, <2>1 DEF OnError, Config, ReserveSize, AcquireForClear, ReleaseAfterClear, Goto
  <2>2. CASE CreateOutputs(p) \/ UseOutput(p) \/ User(p)
    BY <1>1, <2>2 DEF CreateOutputs, UseOutput, User, Call, DropCopy, Goto
  <2> QED
    BY <2>1, <2>2
<1>5. /\ pc[p] \notin DetachPC \cup {"stale", "add", "exit"}
      /\ pc'[p] \notin DetachPC \cup {"return", "open_latest", "walk", "stale", "add"}
  BY <1>3, <1>4 DEF DetachPC
<1> QED
  BY <1>2, <1>5, CurrentQuiet

(* msh_CleanVariableList leaves the lists to what it calls.                *)
LEMMA CurrentCollect ==
    ASSUME SegmentsInv, SegmentsInv', CurrentInv, NEW p \in Proc, CurrentFrame(p),
           CleanVariableList(p)
    PROVE  CurrentInv'
<1>1. pc \in [Proc -> PC] /\ ret \in [Proc -> PC]
  BY DEF SegmentsInv, LockInv
<1>2. pc[p] = "gc" /\ UNCHANGED <<list, names, number, local>>
  BY DEF CleanVariableList, memory
<1>3. Settled /\ UNCHANGED <<up_to_date, rev_is_initial>>
  BY <1>2, SettledSame DEF list
<1>4. At(p) \notin {"stale", "add", "exit"}
  BY <1>2 DEF At, DetachPC
<1>5. pc'[p] \in {"idle", "gc"} \/ (pc'[p] = "collect" /\ ret'[p] = "gc")
  BY <1>1, <1>2 DEF CleanVariableList, Goto
<1>6. pc'[p] \notin {"return", "open_latest", "walk"} /\ At(p)' \notin {"stale", "add"}
  BY <1>5 DEF At, DetachPC
<1>7. CurrentOf(p)'
  BY <1>2, <1>3, <1>4, <1>6, CurrentKept
<1> QED
  BY <1>3, <1>7, CurrentStep

(* A process that leaves is up to date when it comes back only if nothing  *)
(* was shared meanwhile.                                                   *)
LEMMA CurrentOnExit ==
    ASSUME SegmentsInv, SegmentsInv', CurrentInv, NEW p \in Proc, CurrentFrame(p), OnExit(p)
    PROVE  CurrentInv'
<1>1. pc \in [Proc -> PC] /\ ret \in [Proc -> PC] /\ local \in [Proc -> Seq(Obj)]
  BY DEF SegmentsInv, LockInv, LocalInv
<1>2. Settled /\ UNCHANGED num_shared_segments
  BY SettledSame DEF OnExit, memory
<1>3. SharedList' = SharedList
  BY <1>2, SettledList DEF SegmentsInv
<1>4. CASE CallDetach(p, Head(local[p]), "exit") /\ UNCHANGED <<up_to_date, rev_is_initial>>
  <2>1. pc'[p] \in {"detach", "untrack"} /\ ret'[p] = "exit"
    BY <1>1, <1>4 DEF CallDetach, Goto, DetachEntry
  <2>2. At(p)' = "exit"
    BY <2>1 DEF At, DetachPC
  <2>3. CurrentOf(p)'
    BY <2>1, <2>2 DEF CurrentOf
  <2> QED
    BY <1>2, <1>4, <2>3, CurrentStep
<1>5. CASE Goto(p, "out") /\ local[p] = <<>> /\ local' = local /\ ~\A q \in Proc \ {p} : pc[q] = "out"
  <2>1. /\ up_to_date' = IF rev_is_initial THEN up_to_date \cup {p} ELSE up_to_date \ {p}
        /\ rev_is_initial' => rev_is_initial
    BY <1>5 DEF OnExit
  <2>2. pc'[p] = "out" /\ local'[p] = <<>>
    BY <1>1, <1>5 DEF Goto
  <2>3. At(p)' = "out"
    BY <2>2 DEF At, DetachPC
  <2>4. p \in up_to_date' => SharedList = <<>>
    <3>1. p \in up_to_date' => num_shared_segments = 0
      BY <2>1 DEF CurrentInv
    <3>2. SharedList \in Seq(Obj) /\ Len(SharedList) = num_shared_segments
      BY SharedListSeq DEF SegmentsInv
    <3> QED
      BY <3>1, <3>2, EmptySeq
  <2>5. CurrentOf(p)'
    BY <1>3, <2>2, <2>3, <2>4 DEF CurrentOf
  <2>6. ASSUME NEW q \in Proc, q # p PROVE CurrentOf(q)'
    <3>1. CurrentOf(q)
      BY DEF CurrentInv, CurrentOf
    <3>2. q \in up_to_date' => q \in up_to_date
      BY <2>1, <2>6
    <3> QED
      BY <1>2, <2>6, <3>1, <3>2, CurrentOthers DEF SegmentsInv
  <2>7. \A q \in Proc : CurrentOf(q)'
    BY <2>5, <2>6
  <2>8. up_to_date' \subseteq Proc /\ (rev_is_initial' => num_shared_segments' = 0)
    BY <1>2, <2>1 DEF CurrentInv
  <2> QED
    BY <2>7, <2>8 DEF CurrentInv, CurrentOf
<1>6. CASE Goto(p, "out") /\ (\A q \in Proc \ {p} : pc[q] = "out") /\ up_to_date' = Proc
  <2>1. \A q \in Proc : pc'[q] = "out"
    BY <1>1, <1>6 DEF Goto
  <2>2. num_shared_segments' = 0
    <3>1. NoSegmentLeft'
      BY SegmentsInvEmptyNext
    <3> QED
      BY <2>1, <3>1 DEF NoSegmentLeft
  <2>3. \A q \in Proc : local'[q] = <<>>
    BY <2>1 DEF SegmentsInv, LocalInv
  <2>4. SharedList' = <<>>
    <3>1. SharedList \in Seq(Obj) /\ Len(SharedList) = num_shared_segments
      BY SharedListSeq DEF SegmentsInv
    <3> QED
      BY <1>2, <1>3, <2>2, <3>1, EmptySeq
  <2>5. \A q \in Proc : At(q)' = "out"
    BY <2>1 DEF At, DetachPC
  <2>6. \A q \in Proc : CurrentOf(q)'
    BY <2>1, <2>3, <2>4, <2>5 DEF CurrentOf
  <2> QED
    BY <1>6, <2>2, <2>6 DEF CurrentInv, CurrentOf
<1> QED
  BY <1>4, <1>5, <1>6 DEF OnExit

(* Every step keeps CurrentInv.                                            *)
LEMMA CurrentNext ==
    ASSUME SegmentsInv, SegmentsInv', CurrentInv, [Next]_vars
    PROVE  CurrentInv'
<1>1. ASSUME NEW p \in Proc, Step(p) \/ User(p) \/ CreateFails(p) \/ OnExit(p)
      PROVE  CurrentInv'
  <2>1. CurrentFrame(p)
    BY <1>1, CurrentFrames
  <2>2. CASE Detach(p)
    BY <2>1, <2>2, CurrentDetach
  <2>3. CASE CleanSegmentList(p)
    BY <2>1, <2>3, CurrentClean
  <2>4. CASE CreateSegment(p) \/ CreateFails(p)
    BY <2>1, <2>4, CurrentCreate
  <2>5. CASE AddSegmentToSharedList(p)
    BY <2>1, <2>5, CurrentAdd
  <2>6. CASE FetchUpdate(p) \/ ClearUpdate(p)
    BY <2>1, <2>6, CurrentUpdate
  <2>7. CASE WalkSharedList(p)
    BY <2>1, <2>7, CurrentWalk
  <2>8. CASE DetachStale(p)
    BY <2>1, <2>8, CurrentStale
  <2>9. CASE UpdateLatestSegment(p) \/ OpenLatest(p) \/ ReturnShared(p)
    BY <2>1, <2>9, CurrentLatest
  <2>10. CASE ClearFirst(p) \/ \E o \in Obj : ClearOne(p, o)
    BY <2>1, <2>10, CurrentClear
  <2>11. CASE \/ OnError(p) \/ Config(p) \/ ReserveSize(p) \/ CreateOutputs(p) \/ UseOutput(p)
              \/ AcquireForClear(p) \/ ReleaseAfterClear(p) \/ User(p)
    BY <2>1, <2>11, CurrentUntouched
  <2>12. CASE CleanVariableList(p)
    BY <2>1, <2>12, CurrentCollect
  <2>13. CASE OnExit(p)
    BY <2>1, <2>13, CurrentOnExit
  <2> QED
    BY <1>1, <2>2, <2>3, <2>4, <2>5, <2>6, <2>7, <2>8, <2>9, <2>10, <2>11, <2>12, <2>13 DEF Step
<1>2. CASE UNCHANGED vars
  <2>1. /\ UNCHANGED <<first_seg_num, num_shared_segments, next_seg_num, up_to_date, rev_is_initial>>
        /\ UNCHANGED <<names, number, local, rest, scan, cur, ret, pc>>
    BY <1>2 DEF vars, list, memory, proc
  <2>2. Settled
    BY <2>1, SettledSame
  <2>3. SharedList' = SharedList
    BY <2>2, SettledList DEF SegmentsInv
  <2>4. \A p \in Proc : At(p)' = At(p)
    BY <2>1 DEF At
  <2>5. \A p \in Proc : Walked(p) => Walked(p)'
    BY <2>1, <2>3 DEF Walked
  <2> QED
    BY <2>1, <2>3, <2>4, <2>5 DEF CurrentInv
<1> QED
  BY <1>1, <1>2 DEF Next

(* At first there is nothing to be up to date with.                        *)
LEMMA CurrentInit == Init => CurrentInv
<1> SUFFICES ASSUME Init PROVE CurrentInv
  OBVIOUS
<1>1. \A p \in Proc : pc[p] = "out" /\ At(p) = "out" /\ local[p] = <<>>
  BY DEF Init, At, DetachPC
<1>2. num_shared_segments = 0 /\ up_to_date = Proc
  BY DEF Init
<1>3. SharedList = <<>>
  <2>1. SharedList \in Seq(Obj) /\ Len(SharedList) = num_shared_segments
    BY ListInit, SharedListSeq
  <2> QED
    BY <1>2, <2>1, EmptySeq
<1> QED
  BY <1>1, <1>2, <1>3 DEF CurrentInv

(* Together with SegmentsInv, it holds in every state.                     *)
LEMMA CurrentInvariant == Spec => []CurrentInv
<1>1. SegmentsInv /\ SegmentsInv' /\ CurrentInv /\ [Next]_vars => CurrentInv'
  BY CurrentNext
<1> QED
  BY <1>1, CurrentInit, SegmentsInvariant, PTL DEF Spec

(* The early return of msh_UpdateAllSegments, taken without the lock where *)
(* the revision numbers agree, misses nothing: the local list is the       *)
(* shared list, in the same order.                                         *)
THEOREM UpToDateIsCurrentHolds == Spec => []UpToDateIsCurrent
<1>1. CurrentInv => UpToDateIsCurrent
  <2> SUFFICES ASSUME CurrentInv, NEW p \in up_to_date, pc[p] \in {"idle", "output", "use", "clear"}
               PROVE  local[p] = SharedList
    BY DEF UpToDateIsCurrent
  <2>1. p \in Proc
    BY DEF CurrentInv
  <2>2. At(p) \notin {"stale", "add", "exit"}
    BY DEF At, DetachPC
  <2> QED
    BY <2>1, <2>2 DEF CurrentInv
<1> QED
  BY <1>1, CurrentInvariant, PTL

------------------------------------------------------------------------------
(* The shared list is a sequence of variables.                             *)

(* What the instance takes from the community modules is what is used here. *)
LEMMA VariablesOperators ==
    /\ \A s : Variables!ToSet(s) = ToSet(s)
    /\ \A s, i : Variables!RemoveAt(s, i) = RemoveAt(s, i)
BY DEF Variables!ToSet, ToSet, Variables!RemoveAt, RemoveAt

(* A step that keeps the list, as SharedVariables sees it.                 *)
LEMMA OrderKept ==
    ASSUME SegmentsInv, SegmentsInv', Settled, UNCHANGED <<up_to_date, max_shared_segments>>
    PROVE  UNCHANGED <<SharedList, up_to_date, max_shared_segments>>
BY SettledList DEF SegmentsInv

(* A segment that leaves is a variable cleared.                            *)
LEMMA OrderTake ==
    ASSUME SegmentsInv, SegmentsInv', NEW p \in Proc, TrackFrame(p), UNCHANGED orphans,
           Collect(p) \/ RemoveLast(p) \/ ClearFirst(p) \/ \E o \in Obj : ClearOne(p, o)
    PROVE  Variables!Next \/ UNCHANGED <<SharedList, up_to_date, max_shared_segments>>
<1>1. LockInv /\ LocalInv /\ TrackInv /\ ListInv /\ TrackInv' /\ ListInv'
  BY DEF SegmentsInv
<1>2. UNCHANGED <<names, number, max_shared_segments>>
  BY DEF Collect, RemoveLast, ClearFirst, ClearOne, memory
<1>3. Opening(p)
  BY <1>1, ListSteps
<1>4. UNCHANGED <<links, up_to_date>> \/ \E k \in 1 .. num_shared_segments : ListShorter(k)
  BY <1>1, <1>3, ListTake
<1>5. CASE UNCHANGED <<links, up_to_date>>
  <2>1. Settled
    BY <1>2, <1>5, SettledSame DEF links
  <2> QED
    BY <1>2, <1>5, <2>1, OrderKept
<1>6. ASSUME NEW k \in 1 .. num_shared_segments, ListShorter(k) PROVE Variables!Next
  <2>1. PICK w, v : w = SharedList /\ v = SharedList'
    OBVIOUS
  <2>2. /\ w \in Seq(Obj) /\ Len(w) = num_shared_segments
        /\ v \in Seq(Obj) /\ Len(v) = num_shared_segments'
    BY <1>1, <2>1, SharedListSeq, NextListSeq
  <2>3. /\ k \in 1 .. Len(w) /\ Len(v) = Len(w) - 1 /\ up_to_date' = {}
        /\ \A i \in 1 .. (Len(w) - 1) : v[i] = IF i < k THEN w[i] ELSE w[i + 1]
    BY <1>6, <2>1, <2>2 DEF ListShorter
  <2>4. v = RemoveAt(w, k)
    BY <2>2, <2>3, ShortenedFact
  <2>5. Variables!Clear(k)
    BY <1>2, <2>1, <2>3, <2>4, VariablesOperators DEF Variables!Clear
  <2>6. k \in DOMAIN SharedList
    BY <2>1, <2>2, <2>3, LenProperties
  <2> QED
    BY <2>5, <2>6 DEF Variables!Next
<1> QED
  BY <1>4, <1>5, <1>6

(* A segment that enters is a variable shared, within the limit.           *)
LEMMA OrderAdd ==
    ASSUME SegmentsInv, SegmentsInv', NEW p \in Proc, TrackFrame(p), UNCHANGED orphans,
           AddSegmentToSharedList(p)
    PROVE  Variables!Next \/ UNCHANGED <<SharedList, up_to_date, max_shared_segments>>
<1>1. LockInv /\ LocalInv /\ TrackInv /\ ListInv /\ TrackInv' /\ ListInv'
  BY DEF SegmentsInv
<1>2. UNCHANGED <<names, number, max_shared_segments>>
  BY DEF AddSegmentToSharedList, memory
<1>3. Opening(p)
  BY <1>1, ListSteps
<1>4. PICK x : x = cur[p]
  OBVIOUS
<1>5. \/ UNCHANGED <<links, up_to_date>>
      \/ ListLonger(x) /\ num_shared_segments < max_shared_segments /\ x \in Obj \ Listed
  BY <1>1, <1>3, <1>4, ListAdd
<1>6. CASE UNCHANGED <<links, up_to_date>>
  <2>1. Settled
    BY <1>2, <1>6, SettledSame DEF links
  <2> QED
    BY <1>2, <1>6, <2>1, OrderKept
<1>7. CASE ListLonger(x) /\ num_shared_segments < max_shared_segments /\ x \in Obj \ Listed
  <2>1. PICK w, v : w = SharedList /\ v = SharedList'
    OBVIOUS
  <2>2. /\ w \in Seq(Obj) /\ Len(w) = num_shared_segments /\ x \notin ToSet(w)
        /\ v \in Seq(Obj) /\ Len(v) = num_shared_segments'
    BY <1>1, <1>7, <2>1, SharedListSeq, NextListSeq
  <2>3. /\ Len(v) = Len(w) + 1 /\ v[Len(w) + 1] = x /\ up_to_date' = {}
        /\ \A i \in 1 .. Len(w) : v[i] = w[i]
    BY <1>7, <2>1, <2>2 DEF ListLonger
  <2>4. v = Append(w, x)
    BY <1>7, <2>2, <2>3, AppendedFact
  <2>5. Variables!Share(x)
    BY <1>2, <1>7, <2>1, <2>2, <2>3, <2>4, VariablesOperators DEF Variables!Share
  <2> QED
    BY <1>7, <2>5 DEF Variables!Next
<1> QED
  BY <1>5, <1>6, <1>7

(* At the end of the walk of msh_UpdateAllSegments the process has seen    *)
(* the list.                                                               *)
LEMMA OrderWalk ==
    ASSUME SegmentsInv, SegmentsInv', NEW p \in Proc, WalkSharedList(p)
    PROVE  Variables!Next \/ UNCHANGED <<SharedList, up_to_date, max_shared_segments>>
<1>1. Settled /\ max_shared_segments' = max_shared_segments
  BY SettledSame DEF WalkSharedList, memory
<1>2. SharedList' = SharedList
  BY <1>1, SettledList DEF SegmentsInv
<1>3. CASE up_to_date' = up_to_date
  BY <1>1, <1>2, <1>3
<1>4. CASE up_to_date' = up_to_date \cup {p}
  <2>1. Variables!Update(p)
    BY <1>1, <1>2, <1>4 DEF Variables!Update
  <2> QED
    BY <2>1 DEF Variables!Next
<1> QED
  BY <1>3, <1>4 DEF WalkSharedList

(* A process that leaves; with the last one the list is empty.             *)
LEMMA OrderOnExit ==
    ASSUME SegmentsInv, SegmentsInv', NEW p \in Proc, OnExit(p)
    PROVE  Variables!Next \/ UNCHANGED <<SharedList, up_to_date, max_shared_segments>>
<1>1. pc \in [Proc -> PC] /\ Settled /\ UNCHANGED <<num_shared_segments, max_shared_segments>>
  BY SettledSame DEF SegmentsInv, LockInv, OnExit, memory
<1>2. SharedList' = SharedList
  BY <1>1, SettledList DEF SegmentsInv
<1>3. CASE up_to_date' = up_to_date
  BY <1>1, <1>2, <1>3
<1>4. CASE up_to_date' = up_to_date \cup {p}
  <2>1. Variables!Update(p)
    BY <1>1, <1>2, <1>4 DEF Variables!Update
  <2> QED
    BY <2>1 DEF Variables!Next
<1>5. CASE up_to_date' = up_to_date \ {p}
  <2>1. Variables!Leave(p)
    BY <1>1, <1>2, <1>5 DEF Variables!Leave
  <2> QED
    BY <2>1 DEF Variables!Next
<1>6. CASE Goto(p, "out") /\ (\A q \in Proc \ {p} : pc[q] = "out") /\ up_to_date' = Proc
  <2>1. \A q \in Proc : pc'[q] = "out"
    BY <1>1, <1>6 DEF Goto
  <2>2. num_shared_segments' = 0
    <3>1. NoSegmentLeft'
      BY SegmentsInvEmptyNext
    <3> QED
      BY <2>1, <3>1 DEF NoSegmentLeft
  <2>3. SharedList = <<>>
    <3>1. SharedList \in Seq(Obj) /\ Len(SharedList) = num_shared_segments
      BY SharedListSeq DEF SegmentsInv
    <3> QED
      BY <1>1, <2>2, <3>1, EmptySeq
  <2>4. Variables!LeaveLast
    BY <1>1, <1>2, <1>6, <2>3 DEF Variables!LeaveLast
  <2> QED
    BY <2>4 DEF Variables!Next
<1> QED
  BY <1>3, <1>4, <1>5, <1>6 DEF OnExit

(* All the other steps keep the list and who is up to date.                *)
LEMMA OrderQuiet ==
    ASSUME SegmentsInv, SegmentsInv', NEW p \in Proc,
           \/ DestroyVariable(p) \/ Untrack(p) \/ CompareSwap(p) \/ PostAndSubtract(p)
           \/ CleanSegmentList(p) \/ CleanVariableList(p) \/ OnError(p) \/ ReserveSize(p)
           \/ ReturnShared(p) \/ DetachStale(p) \/ UpdateLatestSegment(p) \/ OpenLatest(p)
           \/ FetchUpdate(p) \/ CreateOutputs(p) \/ UseOutput(p) \/ AcquireForClear(p)
           \/ ClearUpdate(p) \/ ReleaseAfterClear(p) \/ User(p)
    PROVE  UNCHANGED <<SharedList, up_to_date, max_shared_segments>>
<1>1. UNCHANGED <<list, names, number, max_shared_segments>>
  <2>1. CASE DestroyVariable(p) \/ Untrack(p) \/ CompareSwap(p) \/ PostAndSubtract(p)
    BY <2>1 DEF DestroyVariable, Untrack, CompareSwap, PostAndSubtract, memory
  <2>2. CASE \/ CleanSegmentList(p) \/ CleanVariableList(p) \/ OnError(p) \/ ReserveSize(p)
             \/ ReturnShared(p) \/ DetachStale(p)
    BY <2>2 DEF CleanSegmentList, CleanVariableList, OnError, ReserveSize, ReturnShared,
                DetachStale, memory
  <2>3. CASE \/ UpdateLatestSegment(p) \/ OpenLatest(p) \/ FetchUpdate(p) \/ CreateOutputs(p)
             \/ UseOutput(p)
    BY <2>3 DEF UpdateLatestSegment, OpenLatest, FetchUpdate, UpdateAllSegments, CreateOutputs,
                UseOutput, memory
  <2>4. CASE AcquireForClear(p) \/ ClearUpdate(p) \/ ReleaseAfterClear(p) \/ User(p)
    BY <2>4 DEF AcquireForClear, ClearUpdate, UpdateAllSegments, ReleaseAfterClear, User, Call,
                DropCopy, memory
  <2> QED
    BY <2>1, <2>2, <2>3, <2>4
<1>2. Settled /\ up_to_date' = up_to_date
  BY <1>1, SettledSame DEF list
<1> QED
  BY <1>1, <1>2, OrderKept

(* Every step is one of SharedVariables, or none.                          *)
LEMMA OrderNext ==
    ASSUME SegmentsInv, SegmentsInv', [Next]_vars
    PROVE  Variables!Next \/ UNCHANGED <<SharedList, up_to_date, max_shared_segments>>
<1>1. LockInv /\ LocalInv /\ TrackInv /\ ListInv
  BY DEF SegmentsInv
<1>2. ASSUME NEW p \in Proc, Step(p) \/ User(p), UNCHANGED orphans
      PROVE  Variables!Next \/ UNCHANGED <<SharedList, up_to_date, max_shared_segments>>
  <2>1. TrackFrame(p)
    BY <1>1, <1>2, ControlFrame
  <2>2. CASE Collect(p) \/ RemoveLast(p) \/ ClearFirst(p) \/ \E o \in Obj : ClearOne(p, o)
    BY <1>2, <2>1, <2>2, OrderTake
  <2>3. CASE AddSegmentToSharedList(p)
    BY <1>2, <2>1, <2>3, OrderAdd
  <2>4. CASE WalkSharedList(p)
    BY <2>4, OrderWalk
  <2>5. CASE UnlinkSegment(p)
    <3>1. Settled /\ UNCHANGED <<up_to_date, max_shared_segments>>
      BY <2>5, SettledUnlink DEF UnlinkSegment, list
    <3> QED
      BY <3>1, OrderKept
  <2>6. CASE CreateSegment(p)
    <3>1. Settled /\ UNCHANGED <<up_to_date, max_shared_segments>>
      BY <2>6, SettledCreate DEF CreateSegment
    <3> QED
      BY <3>1, OrderKept
  <2>7. CASE Config(p)
    <3>1. /\ Settled /\ up_to_date' = up_to_date /\ max_shared_segments' \in MaxSharedSegments
      BY <2>7, SettledSame DEF Config, list
    <3>2. SharedList' = SharedList
      BY <3>1, SettledList DEF SegmentsInv
    <3>3. Variables!Configure
      BY <3>1, <3>2 DEF Variables!Configure
    <3> QED
      BY <3>3 DEF Variables!Next
  <2>8. CASE ~(\/ Collect(p) \/ RemoveLast(p) \/ ClearFirst(p) \/ \E o \in Obj : ClearOne(p, o)
               \/ AddSegmentToSharedList(p) \/ WalkSharedList(p) \/ UnlinkSegment(p)
               \/ CreateSegment(p) \/ Config(p))
    BY <1>2, <2>8, OrderQuiet DEF Step, Detach
  <2> QED
    BY <2>2, <2>3, <2>4, <2>5, <2>6, <2>7, <2>8
<1>3. ASSUME NEW p \in Proc, CreateFails(p)
      PROVE  UNCHANGED <<SharedList, up_to_date, max_shared_segments>>
  <2>1. Settled /\ UNCHANGED <<up_to_date, max_shared_segments>>
    BY <1>3, SettledCreate DEF CreateFails
  <2> QED
    BY <2>1, OrderKept
<1>4. ASSUME NEW p \in Proc, OnExit(p)
      PROVE  Variables!Next \/ UNCHANGED <<SharedList, up_to_date, max_shared_segments>>
  BY <1>4, OrderOnExit
<1>5. CASE UNCHANGED vars
  <2>1. Settled /\ UNCHANGED <<up_to_date, max_shared_segments>>
    BY <1>5, SettledSame DEF vars, list, memory
  <2> QED
    BY <2>1, OrderKept
<1>6. Next => \E p \in Proc : \/ (Step(p) \/ User(p)) /\ UNCHANGED orphans
                              \/ CreateFails(p) \/ OnExit(p)
  BY DEF Next, faults
<1> QED
  BY <1>2, <1>3, <1>4, <1>5, <1>6

(* The segments and their links, changed under the lock, found by number   *)
(* and left by their processes in any order, implement one sequence of     *)
(* variables: they are appended within the limit in force, cleared from    *)
(* anywhere without disturbing the rest, and no change leaves a process    *)
(* taking itself to be up to date (ListInOrder).                           *)
THEOREM ImplementsVariables == Spec => ListInOrder
<1>1. Init => Variables!Init
  <2> SUFFICES ASSUME Init PROVE Variables!Init
    OBVIOUS
  <2>1. SharedList = <<>>
    <3>1. SharedList \in Seq(Obj) /\ Len(SharedList) = num_shared_segments
      BY ListInit, SharedListSeq
    <3> QED
      BY <3>1, EmptySeq DEF Init
  <2> QED
    BY <2>1 DEF Init, Variables!Init
<1>2. SegmentsInv /\ SegmentsInv' /\ [Next]_vars =>
        [Variables!Next]_<<SharedList, up_to_date, max_shared_segments>>
  BY OrderNext
<1> QED
  BY <1>1, <1>2, SegmentsInvariant, PTL DEF Spec, ListInOrder, Variables!Spec

------------------------------------------------------------------------------
(* Types.                                                                  *)

OtherTypes ==
    /\ max_shared_segments \in MaxSharedSegments
    /\ is_persistent \in [Obj -> BOOLEAN]
    /\ rev_is_initial \in BOOLEAN

(* What no other invariant says about types.                               *)
LEMMA OtherTypesNext == OtherTypes /\ [Next]_vars => OtherTypes'
<1> SUFFICES ASSUME OtherTypes, [Next]_vars PROVE OtherTypes'
  OBVIOUS
<1>1. ASSUME UNCHANGED memory, UNCHANGED rev_is_initial \/ rev_is_initial' = FALSE
      PROVE  OtherTypes'
  BY <1>1 DEF OtherTypes, memory
<1>2. ASSUME NEW p \in Proc, NEW o, NEW l, RemoveSegmentFromSharedList(p, o, l)
      PROVE  UNCHANGED rev_is_initial \/ rev_is_initial' = FALSE
  BY <1>2 DEF RemoveSegmentFromSharedList, IncrementRevisionNumber, list
<1>3. ASSUME NEW p \in Proc, (Step(p) \/ User(p)) /\ UNCHANGED faults PROVE OtherTypes'
  <2>1. CASE Config(p)
    BY <2>1 DEF Config, OtherTypes, list
  <2>2. CASE CreateSegment(p)
    BY <2>2, SegmentsAssumption DEF CreateSegment, OtherTypes
  <2>3. CASE UnlinkSegment(p)
    BY <2>3 DEF UnlinkSegment, OtherTypes, list
  <2>4. CASE AddSegmentToSharedList(p)
    BY <1>1, <2>4 DEF AddSegmentToSharedList, IncrementRevisionNumber, list
  <2>5. CASE Collect(p) \/ RemoveLast(p) \/ \E o \in Obj : ClearOne(p, o)
    BY <1>1, <1>2, <2>5 DEF Collect, RemoveLast, ClearOne
  <2>6. CASE ClearFirst(p)
    BY <1>1, <1>2, <2>6 DEF ClearFirst, list
  <2>7. CASE DestroyVariable(p) \/ Untrack(p) \/ CompareSwap(p) \/ PostAndSubtract(p)
    BY <1>1, <2>7 DEF DestroyVariable, Untrack, CompareSwap, PostAndSubtract, list
  <2>8. CASE CleanSegmentList(p) \/ CleanVariableList(p) \/ OnError(p) \/ ReserveSize(p)
    BY <1>1, <2>8 DEF CleanSegmentList, CleanVariableList, OnError, ReserveSize, list
  <2>9. CASE ReturnShared(p) \/ WalkSharedList(p) \/ DetachStale(p) \/ UpdateLatestSegment(p)
    BY <1>1, <2>9 DEF ReturnShared, WalkSharedList, DetachStale, UpdateLatestSegment, list
  <2>10. CASE OpenLatest(p) \/ FetchUpdate(p) \/ ClearUpdate(p) \/ CreateOutputs(p)
    BY <1>1, <2>10 DEF OpenLatest, FetchUpdate, ClearUpdate, UpdateAllSegments,
                             CreateOutputs, list
  <2>11. CASE UseOutput(p) \/ AcquireForClear(p) \/ ReleaseAfterClear(p) \/ User(p)
    BY <1>1, <2>11 DEF UseOutput, AcquireForClear, ReleaseAfterClear, User, Call, DropCopy,
                             list
  <2> QED
    BY <1>3, <2>1, <2>2, <2>3, <2>4, <2>5, <2>6, <2>7, <2>8, <2>9, <2>10, <2>11 DEF Step, Detach
<1>4. ASSUME NEW p \in Proc, CreateFails(p) PROVE OtherTypes'
  BY <1>4 DEF CreateFails, OtherTypes
<1>5. ASSUME NEW p \in Proc, OnExit(p) PROVE OtherTypes'
  <2>1. rev_is_initial' \in BOOLEAN
    <3>1. CASE UNCHANGED rev_is_initial
      BY <3>1 DEF OtherTypes
    <3>2. CASE rev_is_initial' = (rev_is_initial \/ \A q \in Proc \ {p} : pc[q] = "out")
      BY <3>2, Zenon
    <3> QED
      BY <1>5, <3>1, <3>2 DEF OnExit
  <2>2. UNCHANGED <<max_shared_segments, is_persistent>>
    BY <1>5 DEF OnExit, memory
  <2> QED
    BY <2>1, <2>2 DEF OtherTypes
<1>6. CASE UNCHANGED vars
  BY <1>6 DEF vars, list, memory, OtherTypes
<1> QED
  BY <1>3, <1>4, <1>5, <1>6 DEF Next

(* The lock has one holder or none.                                        *)
LEMMA LockHolderNext ==
    (lock \in Proc \cup {NoProc}) /\ [Next]_vars => (lock \in Proc \cup {NoProc})'
<1> SUFFICES ASSUME lock \in Proc \cup {NoProc}, [Next]_vars PROVE lock' \in Proc \cup {NoProc}
  OBVIOUS
<1>1. ASSUME NEW p \in Proc, UNCHANGED locks \/ Acquire(p) \/ Release(p) \/ lock' \in {lock, NoProc}
      PROVE  lock' \in Proc \cup {NoProc}
  BY <1>1 DEF locks, Acquire, Release
<1>2. ASSUME NEW p \in Proc, (Step(p) \/ User(p)) /\ UNCHANGED faults
      PROVE  lock' \in Proc \cup {NoProc}
  <2>1. CASE Config(p) \/ CreateSegment(p) \/ AddSegmentToSharedList(p)
    BY <1>1, <2>1 DEF Config, CreateSegment, AddSegmentToSharedList
  <2>2. CASE DestroyVariable(p) \/ Untrack(p) \/ CompareSwap(p) \/ PostAndSubtract(p)
    BY <1>1, <2>2 DEF DestroyVariable, Untrack, CompareSwap, PostAndSubtract
  <2>3. CASE UnlinkSegment(p) \/ Collect(p) \/ RemoveLast(p)
    BY <1>1, <2>3 DEF UnlinkSegment, Collect, RemoveLast
  <2>4. CASE ClearFirst(p) \/ \E o \in Obj : ClearOne(p, o)
    BY <1>1, <2>4 DEF ClearFirst, ClearOne
  <2>5. CASE CleanSegmentList(p) \/ CleanVariableList(p) \/ OnError(p) \/ ReserveSize(p)
    BY <1>1, <2>5 DEF CleanSegmentList, CleanVariableList, OnError, ReserveSize
  <2>6. CASE ReturnShared(p) \/ DetachStale(p) \/ UpdateLatestSegment(p)
    BY <1>1, <2>6 DEF ReturnShared, DetachStale, UpdateLatestSegment
  <2>7. CASE WalkSharedList(p)
    BY <1>1, <2>7 DEF WalkSharedList
  <2>8. CASE FetchUpdate(p) \/ ClearUpdate(p)
    BY <1>1, <2>8 DEF FetchUpdate, ClearUpdate, UpdateAllSegments
  <2>9. CASE OpenLatest(p) \/ CreateOutputs(p) \/ UseOutput(p)
    BY <1>1, <2>9 DEF OpenLatest, CreateOutputs, UseOutput
  <2>10. CASE AcquireForClear(p) \/ ReleaseAfterClear(p) \/ User(p)
    BY <1>1, <2>10 DEF AcquireForClear, ReleaseAfterClear, User, Call, DropCopy
  <2> QED
    BY <1>2, <2>1, <2>2, <2>3, <2>4, <2>5, <2>6, <2>7, <2>8, <2>9, <2>10 DEF Step, Detach
<1>3. ASSUME NEW p \in Proc, CreateFails(p) PROVE lock' \in Proc \cup {NoProc}
  BY <1>1, <1>3 DEF CreateFails
<1>4. ASSUME NEW p \in Proc, OnExit(p) PROVE lock' \in Proc \cup {NoProc}
  BY <1>1, <1>4 DEF OnExit
<1>5. CASE UNCHANGED vars
  BY <1>5 DEF vars, locks
<1> QED
  BY <1>2, <1>3, <1>4, <1>5 DEF Next

(* Every variable keeps its type: no count goes below zero, and no         *)
(* operation reaches a neighbour or a number that does not exist.          *)
THEOREM TypeInvariant == Spec => []TypeOK
<1>1. Init => OtherTypes /\ lock \in Proc \cup {NoProc}
  BY DEF Init, OtherTypes
<1>2. SegmentsInv /\ UsingInv /\ SizeInv /\ CurrentInv /\ OtherTypes /\ lock \in Proc \cup {NoProc}
      => TypeOK
  <2> SUFFICES ASSUME SegmentsInv, UsingInv, SizeInv, CurrentInv, OtherTypes,
                      lock \in Proc \cup {NoProc}
               PROVE  TypeOK
    OBVIOUS
  <2>1. total_shared_size \in Nat /\ lost \in Nat
    <3>1. Cardinality(SizedNames) \in Nat /\ Cardinality(SizedProcs) \in Nat
      BY SizedFinite DEF SizedNames, SizedProcs
    <3> QED
      BY <3>1 DEF SizeInv
  <2>2. first_seg_num \in SegNum \cup {NoSeg} /\ last_seg_num \in SegNum \cup {NoSeg}
    <3>1. PICK w : w = SharedList
      OBVIOUS
    <3>2. PICK n \in Nat : n = num_shared_segments
      BY DEF SegmentsInv, ListInv
    <3>3. /\ w \in [1 .. n -> Obj] /\ number \in [Obj -> SegNum]
          /\ first_seg_num = IF n = 0 THEN NoSeg ELSE number[w[1]]
          /\ last_seg_num = IF n = 0 THEN NoSeg ELSE number[w[n]]
      BY <3>1, <3>2 DEF SegmentsInv, ListInv, TrackInv, Linked
    <3> QED
      BY <3>3
  <2>3. /\ num_shared_segments \in Nat /\ is_invalid \in [Obj -> BOOLEAN]
        /\ next_seg_num \in [Obj -> SegNum \cup {NoSeg}]
        /\ prev_seg_num \in [Obj -> SegNum \cup {NoSeg}]
        /\ scan \in [Proc -> SegNum \cup {NoSeg}]
    BY DEF SegmentsInv, ListInv
  <2>4. /\ names \in [SegNum -> Obj \cup {NoObj}] /\ number \in [Obj -> SegNum]
        /\ procs_tracking \in [Obj -> Counter] /\ orphans \subseteq Obj
    BY DEF SegmentsInv, TrackInv
  <2>5. /\ lock_level \in [Proc -> Nat] /\ pc \in [Proc -> PC] /\ ret \in [Proc -> PC]
        /\ cmd \in [Proc -> Commands \cup {"none"}]
    BY DEF SegmentsInv, LockInv
  <2>6. /\ local \in [Proc -> Seq(Obj)] /\ rest \in [Proc -> Seq(Obj)]
        /\ handles \in [Proc -> SUBSET Obj] /\ var \in [Proc -> SUBSET Obj]
        /\ used \in [Proc -> SUBSET Obj] /\ held \in [Proc -> SUBSET Obj]
        /\ cur \in [Proc -> Obj \cup {NoObj}]
    BY DEF SegmentsInv, LocalInv
  <2>7. up_to_date \subseteq Proc /\ procs_using \in [Obj -> Nat]
    BY DEF CurrentInv, UsingInv
  <2> QED
    BY <2>1, <2>2, <2>3, <2>4, <2>5, <2>6, <2>7 DEF TypeOK, OtherTypes
<1> QED
  BY <1>1, <1>2, OtherTypesNext, LockHolderNext, SegmentsInvariant, UsingInvariant,
     SizeInvariant, CurrentInvariant, PTL DEF Spec
=============================================================================
