----------------------------- MODULE ProcessLock -----------------------------
(***************************************************************************)
(* The interprocess locks (mshutils.c, UNIX build) and who takes them:     *)
(* every region that changes the shared list, the lock and unlock          *)
(* directives, and the synchronous variable operations, which lock the     *)
(* segment of the variable instead.  A lock is a lockf region of a shared  *)
(* memory file; a process counts its acquisitions in one lock_level,       *)
(* whichever lock they are for.                                            *)
(*                                                                         *)
(* lockf, as the code relies on it: a lock belongs to a process, taking a  *)
(* lock one has and releasing one that one does not have do nothing, and   *)
(* closing the file or dying releases it.                                  *)
(***************************************************************************)
EXTENDS Naturals, FiniteSets

CONSTANTS
    Proc,           \* MATLAB processes
    Seg,            \* segments, each with a lock of its own
    InfoLock,       \* g_process_lock, the lock on the shared info segment
    NoLock,         \* no lock is asked for
    NoProc,         \* nobody holds the lock
    MaxLevel,       \* bound on nested matshare.lock calls
    DetachLocked    \* do users detach while they have the lock?

Lock == Seg \cup {InfoLock}

ASSUME ProcessLockAssumption ==
    /\ InfoLock \notin Seg
    /\ NoLock \notin Lock
    /\ NoProc \notin Proc
    /\ MaxLevel \in Nat
    /\ DetachLocked \in BOOLEAN

VARIABLES
    owner,          \* process that has each lock, for the operating system
    lock_level,     \* g_local_info.lock_level of each process
    pc,             \* idle, in a locked region, or in a variable operation
    filelock,       \* lock the region or operation has asked for
    target          \* segment a variable operation works on

vars == <<owner, lock_level, pc, filelock, target>>

PC == {"idle", "region", "op"}

(* Types of the variables: lock_level never goes below zero, although the  *)
(* unlock directive may be given without a lock.                           *)
TypeOK ==
    /\ owner \in [Lock -> Proc \cup {NoProc}]
    /\ lock_level \in [Proc -> Nat]
    /\ pc \in [Proc -> PC]
    /\ filelock \in [Proc -> Lock \cup {NoLock}]
    /\ target \in [Proc -> Seg \cup {NoLock}]

Init ==
    /\ owner = [l \in Lock |-> NoProc]
    /\ lock_level = [p \in Proc |-> 0]
    /\ pc = [p \in Proc |-> "idle"]
    /\ filelock = [p \in Proc |-> NoLock]
    /\ target = [p \in Proc |-> NoLock]

------------------------------------------------------------------------------
(* msh_AcquireProcessLock and msh_ReleaseProcessLock                       *)

\* Mutation: F_TLOCK instead of F_LOCK, and nobody looks whether it failed.
AcquireUnlocked(p, l) ==
    /\ lock_level' = [lock_level EXCEPT ![p] = @ + 1]
    /\ owner' = IF owner[l] = NoProc THEN [owner EXCEPT ![l] = p] ELSE owner

\* Only the first acquisition calls lockf, and waits there for the lock.
Acquire(p, l) ==
    /\ lock_level' = [lock_level EXCEPT ![p] = @ + 1]
    /\ IF lock_level[p] = 0
       THEN owner[l] \in {NoProc, p} /\ owner' = [owner EXCEPT ![l] = p]
       ELSE UNCHANGED owner

\* The locks after p has given up l; nothing happens if it does not have it.
Without(p, l) == [owner EXCEPT ![l] = IF @ = p THEN NoProc ELSE @]

Release(p, l) ==
    \/ lock_level[p] = 0 /\ UNCHANGED <<lock_level, owner>>
    \/ /\ lock_level[p] > 0
       /\ lock_level' = [lock_level EXCEPT ![p] = @ - 1]
       /\ owner' = IF lock_level[p] = 1 THEN Without(p, l) ELSE owner

\* Mutation: an error forgets the levels and keeps the lock.
OnErrorForgets(p) ==
    /\ lock_level' = [lock_level EXCEPT ![p] = 0]
    /\ UNCHANGED owner

\* msh_OnError releases g_process_lock as many times as there are levels.
OnError(p) ==
    /\ lock_level' = [lock_level EXCEPT ![p] = 0]
    /\ owner' = IF lock_level[p] > 0 THEN Without(p, InfoLock) ELSE owner

\* What all the locks are after p has closed its files.
Closed(p) == [l \in Lock |-> IF owner[l] = p THEN NoProc ELSE owner[l]]

Enter(p, where, l, s) ==
    /\ pc' = [pc EXCEPT ![p] = where]
    /\ filelock' = [filelock EXCEPT ![p] = l]
    /\ target' = [target EXCEPT ![p] = s]

Leave(p) == Enter(p, "idle", NoLock, NoLock)

------------------------------------------------------------------------------
\* The msh_LOCK and msh_UNLOCK directives.
LockDirective(p) ==
    /\ pc[p] = "idle"
    /\ lock_level[p] < MaxLevel
    /\ Acquire(p, InfoLock)
    /\ UNCHANGED <<pc, filelock, target>>

UnlockDirective(p) ==
    /\ pc[p] = "idle"
    /\ Release(p, InfoLock)
    /\ UNCHANGED <<pc, filelock, target>>

\* The regions of mshsegments.c, msh_Clear, msh_Config and the reset directive
\* that run with g_process_lock.
BeginRegion(p) ==
    /\ pc[p] = "idle"
    /\ Acquire(p, InfoLock)
    /\ Enter(p, "region", InfoLock, NoLock)

EndRegion(p) ==
    /\ pc[p] = "region"
    /\ Release(p, InfoLock)
    /\ Leave(p)

\* msh_VariableOperation on the variable in segment s; only a synchronous one
\* asks for a lock, that of the segment, or g_process_lock if the variable given
\* leads to no node of the local list.
BeginSync(p, s) ==
    /\ pc[p] = "idle"
    /\ \E l \in {s, InfoLock} : Acquire(p, l) /\ Enter(p, "op", l, s)

BeginAsync(p, s) ==
    /\ pc[p] = "idle"
    /\ Enter(p, "op", NoLock, s)
    /\ UNCHANGED <<owner, lock_level>>

EndOp(p) ==
    /\ pc[p] = "op"
    /\ IF filelock[p] = NoLock THEN UNCHANGED <<owner, lock_level>> ELSE Release(p, filelock[p])
    /\ Leave(p)

\* An error in a region, in the middle of an operation, or in a command that has
\* not asked for a lock.
Error(p) ==
    /\ OnError(p)
    /\ Leave(p)

\* msh_OnExit closes the segments and the shared info segment; the level stays.
Detach(p) ==
    /\ pc[p] = "idle"
    /\ lock_level[p] = 0 \/ DetachLocked
    /\ owner' = Closed(p)
    /\ UNCHANGED <<lock_level, pc, filelock, target>>

\* The process is killed; a new one starts with its data initialized.
Crash(p) ==
    /\ owner' = Closed(p)
    /\ lock_level' = [lock_level EXCEPT ![p] = 0]
    /\ Leave(p)

Next ==
    \E p \in Proc :
        \/ LockDirective(p) \/ UnlockDirective(p)
        \/ BeginRegion(p) \/ EndRegion(p)
        \/ (\E s \in Seg : BeginSync(p, s) \/ BeginAsync(p, s)) \/ EndOp(p)
        \/ Error(p) \/ Detach(p) \/ Crash(p)

Spec == Init /\ [][Next]_vars
------------------------------------------------------------------------------
(* Properties.                                                             *)

(* "thread-safe memory creation" (README.md:3): no two processes are in    *)
(* regions that change the shared list or the shared configuration at the  *)
(* same time, whatever locks the users take and whatever errors and        *)
(* crashes happen in between.                                              *)
RegionsExclusive ==
    \A p, q \in Proc : pc[p] = "region" /\ pc[q] = "region" => p = q

(* A process that has no lock level left has not kept the interprocess     *)
(* lock, so an error or an unlock never locks the others out; and while it *)
(* has a level, outside a synchronous operation, the lock is really its    *)
(* own.                                                                    *)
LevelIsLock ==
    \A p \in Proc :
        /\ owner[InfoLock] = p => lock_level[p] > 0
        /\ lock_level[p] > 0 /\ pc[p] # "op" => owner[InfoLock] = p

\* p runs a synchronous operation on s.
InSync(p, s) == pc[p] = "op" /\ target[p] = s /\ filelock[p] = s

(* Two synchronous operations that ask for the lock of the same segment    *)
(* exclude each other if neither process is inside matshare.lock.          *)
SyncExclusive ==
    \A p, q \in Proc, s \in Seg :
        InSync(p, s) /\ InSync(q, s) /\ lock_level[p] = 1 /\ lock_level[q] = 1 => p = q

(* "all the other operations can be made synchronous through mutexes"      *)
(* (README.md:89): two synchronous operations on the same segment always   *)
(* exclude each other.                                                     *)
SyncAlwaysExclusive ==
    \A p, q \in Proc, s \in Seg : InSync(p, s) /\ InSync(q, s) => p = q

(* "set the process lock at a level where it can be released if needed"    *)
(* (mshinit.c:363): a process between commands at level zero, as it is     *)
(* after an error, has no lock of any kind.                                *)
NoLockKept ==
    \A p \in Proc, l \in Lock : pc[p] = "idle" /\ lock_level[p] = 0 => owner[l] # p

(***************************************************************************)
(* The inductive invariant behind RegionsExclusive, LevelIsLock and        *)
(* SyncExclusive.  An operation with the lock of a segment has counted its *)
(* own level on top of the levels of matshare.lock, which therefore have   *)
(* the interprocess lock if there are any.                                 *)
(***************************************************************************)
InfoLevel(p) ==
    IF pc[p] = "op" /\ filelock[p] \in Seg THEN lock_level[p] - 1 ELSE lock_level[p]

\* The interprocess lock is taken exactly as long as somebody counts a level of it.
InfoLockCounted == \A p \in Proc : owner[InfoLock] = p <=> InfoLevel(p) > 0

\* Regions and synchronous operations have counted their own level.
LevelCounted ==
    \A p \in Proc :
        /\ pc[p] = "region" => lock_level[p] > 0
        /\ pc[p] = "op" /\ filelock[p] # NoLock => lock_level[p] > 0

\* A synchronous operation asks for the lock of the segment it works on, or for
\* the interprocess lock.
OpAsks == \A p \in Proc : pc[p] = "op" /\ filelock[p] # NoLock
                             => target[p] \in Seg /\ filelock[p] \in {target[p], InfoLock}

\* A synchronous operation at level one really has that lock.
OpOwns ==
    \A p \in Proc :
        pc[p] = "op" /\ filelock[p] # NoLock /\ lock_level[p] = 1 => owner[filelock[p]] = p

(* What every acquisition, release, error, detach and crash preserves: the *)
(* interprocess lock is taken by the process whose levels count it.        *)
LockInv ==
    /\ TypeOK
    /\ InfoLockCounted
    /\ LevelCounted
    /\ OpAsks
    /\ OpOwns
=============================================================================
