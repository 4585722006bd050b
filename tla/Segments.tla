------------------------------- MODULE Segments -------------------------------
(***************************************************************************)
(* Shared variables and their segments (mshsegments.c, mshvariables.c and  *)
(* the commands of matshare_.c, UNIX build).                               *)
(*                                                                         *)
(* Every shared variable lives in a shared memory object (a segment) named *)
(* after a segment number.  The segments in circulation form a doubly      *)
(* linked list threaded by number through the segments' own metadata; the  *)
(* list is changed under the interprocess lock, while the two reference    *)
(* counts of a segment (procs_tracking, procs_using) are changed without   *)
(* it.  Each process keeps a local list of the segments it has open, a     *)
(* variable for some of them, and copies of variables in the workspace.    *)
(*                                                                         *)
(* A command of a process is a walk through control points.  Steps that    *)
(* run under the lock and touch the list are taken in one action; steps    *)
(* that only use the counters interleave with everything.                  *)
(***************************************************************************)
EXTENDS LockFreeCounter, SequencesExt

CONSTANTS
    Proc,               \* MATLAB processes
    Obj,                \* shared memory objects that can hold a segment
    SegNumMax,          \* MSH_SEG_NUM_MAX; numbers go from 0 to it and wrap around
    NoSeg,              \* MSH_INVALID_SEG_NUM
    NoObj,              \* no object
    NoProc,             \* nobody holds the lock
    MaxSharedSegments,  \* limits the users set for the number of segments
    MaxSharedSize,      \* g_user_config.max_shared_size, in segments
    WillSharedGC,       \* g_user_config.will_shared_gc
    Commands,           \* commands the users give
    Persist,            \* values of the "-p" option they give
    MaxFailures         \* system calls of msh_CreateSegmentWorker that may fail

SegNum == 0 .. SegNumMax

ASSUME SegmentsAssumption ==
    /\ IsFiniteSet(Proc)
    /\ Cardinality(Proc) < CountMod
    /\ SegNumMax \in Nat
    /\ NoSeg \notin SegNum
    /\ NoObj \notin Obj
    /\ NoProc \notin Proc
    /\ MaxSharedSegments \subseteq Nat
    /\ MaxSharedSize \in Nat
    /\ WillSharedGC \in BOOLEAN
    /\ Commands \subseteq {"share", "fetch", "fetch_recent", "clear_all", "clear", "clean",
                        "config", "other"}
    /\ Persist \subseteq BOOLEAN
    /\ MaxFailures \in Nat

VARIABLES
    (* the shared info segment *)
    first_seg_num, last_seg_num, num_shared_segments, total_shared_size,
    max_shared_segments, \* g_user_config.max_shared_segments
    up_to_date,         \* processes whose rev_num equals the shared rev_num
    rev_is_initial,     \* the shared rev_num is still MSH_INITIAL_STATE
    lock,               \* holder of the interprocess lock
    (* the segments *)
    names,              \* object linked under each segment number
    number,             \* number an object was created with
    next_seg_num, prev_seg_num, is_invalid, is_persistent,
    procs_using, procs_tracking,
    orphans,            \* objects left behind by a creation that failed
    lost,               \* size such creations have reserved
    (* each process *)
    lock_level,
    handles,            \* segments it has open
    local,              \* g_local_seg_list
    var,                \* segments it has a variable for (g_local_var_list)
    used,               \* those whose variable has is_used set
    held,               \* those of which the workspace holds a copy
    (* control *)
    pc, cmd,            \* control point, and the command being executed
    cur, ret,           \* segment being detached, and where to go on after that
    rest,               \* segments a loop has yet to visit
    scan                \* segment number a loop has reached

list   == <<first_seg_num, last_seg_num, num_shared_segments, next_seg_num,
            prev_seg_num, is_invalid, up_to_date, rev_is_initial>>
memory == <<names, number, is_persistent, max_shared_segments>>
proc   == <<local, var, used, held>>
locks  == <<lock, lock_level>>
faults == <<orphans, lost>>

vars == <<list, total_shared_size, memory, procs_using, procs_tracking, faults, locks,
          handles, proc, pc, cmd, cur, ret, rest, scan>>

PC == {"out", "idle", "clean", "command", "detach", "collect", "untrack", "remove", "cas",
       "unlink", "post", "create", "add", "return", "walk", "stale", "open_latest",
       "output", "use", "clear_all", "clear", "error", "gc", "exit"}

(* Types of the variables: no count goes below zero, and no operation      *)
(* reaches a neighbour or a number that does not exist.                    *)
TypeOK ==
    /\ first_seg_num \in SegNum \cup {NoSeg}
    /\ last_seg_num \in SegNum \cup {NoSeg}
    /\ num_shared_segments \in Nat
    /\ total_shared_size \in Nat
    /\ max_shared_segments \in MaxSharedSegments
    /\ up_to_date \subseteq Proc
    /\ rev_is_initial \in BOOLEAN
    /\ lock \in Proc \cup {NoProc}
    /\ names \in [SegNum -> Obj \cup {NoObj}]
    /\ number \in [Obj -> SegNum]
    /\ next_seg_num \in [Obj -> SegNum \cup {NoSeg}]
    /\ prev_seg_num \in [Obj -> SegNum \cup {NoSeg}]
    /\ is_invalid \in [Obj -> BOOLEAN]
    /\ is_persistent \in [Obj -> BOOLEAN]
    /\ procs_using \in [Obj -> Nat]
    /\ procs_tracking \in [Obj -> Counter]
    /\ orphans \subseteq Obj
    /\ lost \in Nat
    /\ lock_level \in [Proc -> Nat]
    /\ handles \in [Proc -> SUBSET Obj]
    /\ local \in [Proc -> Seq(Obj)]
    /\ var \in [Proc -> SUBSET Obj]
    /\ used \in [Proc -> SUBSET Obj]
    /\ held \in [Proc -> SUBSET Obj]
    /\ pc \in [Proc -> PC]
    /\ cmd \in [Proc -> Commands \cup {"none"}]
    /\ cur \in [Proc -> Obj \cup {NoObj}]
    /\ ret \in [Proc -> PC]
    /\ rest \in [Proc -> Seq(Obj)]
    /\ scan \in [Proc -> SegNum \cup {NoSeg}]

Init ==
    /\ first_seg_num = NoSeg /\ last_seg_num = NoSeg
    /\ num_shared_segments = 0 /\ total_shared_size = 0
    /\ max_shared_segments \in MaxSharedSegments
    /\ up_to_date = Proc /\ rev_is_initial = TRUE
    /\ lock = NoProc /\ lock_level = [p \in Proc |-> 0]
    /\ names = [k \in SegNum |-> NoObj]
    /\ number = [o \in Obj |-> 0]
    /\ next_seg_num = [o \in Obj |-> NoSeg]
    /\ prev_seg_num = [o \in Obj |-> NoSeg]
    /\ is_invalid = [o \in Obj |-> TRUE]
    /\ is_persistent = [o \in Obj |-> FALSE]
    /\ procs_using = [o \in Obj |-> 0]
    /\ procs_tracking = [o \in Obj |-> ZeroCounter]
    /\ orphans = {} /\ lost = 0
    /\ handles = [p \in Proc |-> {}]
    /\ local = [p \in Proc |-> <<>>]
    /\ var = [p \in Proc |-> {}] /\ used = [p \in Proc |-> {}] /\ held = [p \in Proc |-> {}]
    /\ pc = [p \in Proc |-> "out"] /\ cmd = [p \in Proc |-> "none"]
    /\ cur = [p \in Proc |-> NoObj] /\ ret = [p \in Proc |-> "out"]
    /\ rest = [p \in Proc |-> <<>>] /\ scan = [p \in Proc |-> NoSeg]

------------------------------------------------------------------------------
(* Helpers.                                                                *)

Goto(p, l) == pc' = [pc EXCEPT ![p] = l]

\* msh_AcquireProcessLock: lockf is only called at level 0.
CanAcquire(p) == lock_level[p] > 0 \/ lock = NoProc

Acquire(p) ==
    /\ CanAcquire(p)
    /\ lock' = IF lock_level[p] = 0 THEN p ELSE lock
    /\ lock_level' = [lock_level EXCEPT ![p] = @ + 1]

Release(p) ==
    /\ lock' = IF lock_level[p] = 1 THEN NoProc ELSE lock
    /\ lock_level' = [lock_level EXCEPT ![p] = @ - 1]

\* msh_FindSegmentNode in the local segment table; the segment number stands for
\* itself in the hash table.
FindSegmentNode(p, k) == {o \in ToSet(local[p]) : number[o] = k}

\* The segment with number k, if p does not track it yet and therefore opens it by
\* name.
Unopened(p, k) == IF FindSegmentNode(p, k) = {} THEN <<names[k]>> ELSE <<>>

\* The local list s without the node of segment o.
RemoveNode(s, o) ==
    IF o \in ToSet(s) THEN RemoveAt(s, CHOOSE i \in DOMAIN s : s[i] = o) ELSE s

\* The node found or opened for number k.
NodeOf(p, k) ==
    IF FindSegmentNode(p, k) = {} THEN names[k] ELSE CHOOSE o \in FindSegmentNode(p, k) : TRUE

\* msh_OpenSegmentWorker waits for the unlinking of a segment that has its flag
\* raised, and an object without a name cannot be opened at all.
CanOpen(objs) == \A o \in ToSet(objs) : o # NoObj /\ ~procs_tracking[o].flag

\* Mutation: opening a segment does not count.
OpenedUncounted(objs) == procs_tracking

\* procs_tracking after opening objs.
Opened(objs) ==
    [o \in Obj |-> IF o \in ToSet(objs) THEN IncrementCounter(procs_tracking[o])
                   ELSE procs_tracking[o]]

\* Mutation: the revision number is not advanced.
IncrementRevisionNumberMissed == rev_is_initial' = FALSE /\ UNCHANGED up_to_date

\* msh_IncrementRevisionNumber: nobody, this process included, is up to date.
IncrementRevisionNumber == up_to_date' = {} /\ rev_is_initial' = FALSE

\* Mutation: the variable is not destroyed first.
DetachEntryDirect(p, o) == "untrack"

\* First control point of msh_DetachSegment for segment o.
DetachEntry(p, o) == IF o \in var[p] THEN "detach" ELSE "untrack"

\* RemoveSegmentFromList, then msh_DetachSegment, then go on at l.
CallDetach(p, o, l) ==
    /\ cur' = [cur EXCEPT ![p] = o]
    /\ ret' = [ret EXCEPT ![p] = l]
    /\ Goto(p, DetachEntry(p, o))

FreeObj == {o \in Obj : /\ \A k \in SegNum : names[k] # o
                        /\ \A p \in Proc : o \notin handles[p]}

------------------------------------------------------------------------------
(* The shared list.                                                        *)

\* Mutation: is_invalid is not looked at.
RemoveSegmentUnchecked(p, o, l) ==
    /\ CanAcquire(p)
    /\ is_invalid' = [is_invalid EXCEPT ![o] = TRUE]
    /\ first_seg_num' = IF number[o] = first_seg_num THEN next_seg_num[o] ELSE first_seg_num
    /\ last_seg_num' = IF number[o] = last_seg_num THEN prev_seg_num[o] ELSE last_seg_num
    /\ num_shared_segments' = num_shared_segments - 1
    /\ IncrementRevisionNumber
    /\ local' = [local EXCEPT ![p] = l]
    /\ UNCHANGED <<next_seg_num, prev_seg_num, procs_tracking, handles>>

\* msh_RemoveSegmentFromSharedList for segment o, followed by l as the local list.
\* The neighbours are opened if they are not tracked, and stay tracked.
RemoveSegmentFromSharedList(p, o, l) ==
    LET next    == next_seg_num[o]
        prev    == prev_seg_num[o]
        isFirst == number[o] = first_seg_num
        isLast  == number[o] = last_seg_num
        objs    == (IF isFirst THEN <<>> ELSE Unopened(p, prev))
                      \o (IF isLast THEN <<>> ELSE Unopened(p, next))
    IN
    \/ /\ is_invalid[o]
       /\ local' = [local EXCEPT ![p] = l]
       /\ UNCHANGED <<list, procs_tracking, handles>>
    \/ /\ ~is_invalid[o]
       /\ CanAcquire(p) /\ CanOpen(objs)
       /\ is_invalid' = [is_invalid EXCEPT ![o] = TRUE]
       /\ first_seg_num' = IF isFirst THEN next ELSE first_seg_num
       /\ last_seg_num' = IF isLast THEN prev ELSE last_seg_num
       /\ next_seg_num' = [x \in Obj |-> IF x = o THEN NoSeg
                                         ELSE IF ~isFirst /\ x = NodeOf(p, prev) THEN next
                                         ELSE next_seg_num[x]]
       /\ prev_seg_num' = [x \in Obj |-> IF x = o THEN NoSeg
                                         ELSE IF ~isLast /\ x = NodeOf(p, next) THEN prev
                                         ELSE prev_seg_num[x]]
       /\ num_shared_segments' = num_shared_segments - 1
       /\ IncrementRevisionNumber
       /\ procs_tracking' = Opened(objs)
       /\ handles' = [handles EXCEPT ![p] = @ \cup ToSet(objs)]
       /\ local' = [local EXCEPT ![p] = l \o objs]

------------------------------------------------------------------------------
(* msh_DetachSegment, for the segment in cur.                              *)

\* Destroy the variable; the copies in the workspace lose their data.  If this
\* takes procs_using to zero the segment is garbage.
DestroyVariable(p) ==
    /\ pc[p] = "detach"
    /\ LET o == cur[p] IN
       /\ var' = [var EXCEPT ![p] = @ \ {o}]
       /\ held' = [held EXCEPT ![p] = @ \ {o}]
       /\ used' = [used EXCEPT ![p] = @ \ {o}]
       /\ IF o \in used[p]
          THEN /\ procs_using' = [procs_using EXCEPT ![o] = @ - 1]
               /\ Goto(p, IF procs_using[o] = 1 /\ WillSharedGC /\ ~is_persistent[o]
                          THEN "collect" ELSE "untrack")
          ELSE Goto(p, "untrack") /\ UNCHANGED procs_using
    /\ UNCHANGED <<list, total_shared_size, memory, procs_tracking, locks, handles,
                   local, cmd, cur, ret, rest, scan>>

\* The segment is garbage: take it out of the shared list and the local one.
Collect(p) ==
    /\ pc[p] = "collect"
    /\ RemoveSegmentFromSharedList(p, cur[p], RemoveNode(local[p], cur[p]))
    /\ Goto(p, DetachEntry(p, cur[p]))
    /\ UNCHANGED <<total_shared_size, memory, procs_using, locks, var, used, held,
                   cmd, cur, ret, rest, scan>>

\* The segment has been unmapped and closed.
Detached(p) ==
    /\ handles' = [handles EXCEPT ![p] = @ \ {cur[p]}]
    /\ Goto(p, ret[p])
    /\ cur' = [cur EXCEPT ![p] = NoObj]
    /\ ret' = [ret EXCEPT ![p] = "out"]

\* Mutation: the last tracker does not take the segment out of the list.
UntrackListed(p) ==
    /\ pc[p] = "untrack"
    /\ LET c == procs_tracking[cur[p]] IN
       IF ~c.flag /\ c.count = 1
       THEN Goto(p, "cas") /\ UNCHANGED <<procs_tracking, handles, cur, ret>>
       ELSE /\ procs_tracking' = [procs_tracking EXCEPT ![cur[p]] = DecrementCounter(c, FALSE)]
            /\ Detached(p)
    /\ UNCHANGED <<list, total_shared_size, memory, procs_using, locks, proc, cmd,
                   rest, scan>>

\* Mutation: the last tracker is not recognized.
UntrackOnly(p) ==
    /\ pc[p] = "untrack"
    /\ procs_tracking' =
          [procs_tracking EXCEPT ![cur[p]] = DecrementCounter(@, FALSE)]
    /\ Detached(p)
    /\ UNCHANGED <<list, total_shared_size, memory, procs_using, locks, proc, cmd,
                   rest, scan>>

\* Head of the compare-and-swap loop: unless this would take the count to zero
\* the loop ends with the decrement.
Untrack(p) ==
    /\ pc[p] = "untrack"
    /\ LET c == procs_tracking[cur[p]] IN
       IF ~c.flag /\ c.count = 1
       THEN Goto(p, "remove") /\ UNCHANGED <<procs_tracking, handles, cur, ret>>
       ELSE /\ procs_tracking' = [procs_tracking EXCEPT ![cur[p]] = DecrementCounter(c, FALSE)]
            /\ Detached(p)
    /\ UNCHANGED <<list, total_shared_size, memory, procs_using, locks, proc, cmd,
                   rest, scan>>

\* The last tracker first takes the segment out of the shared list ...
RemoveLast(p) ==
    /\ pc[p] = "remove"
    /\ RemoveSegmentFromSharedList(p, cur[p], local[p])
    /\ Goto(p, "cas")
    /\ UNCHANGED <<total_shared_size, memory, procs_using, locks, var, used, held,
                   cmd, cur, ret, rest, scan>>

\* Mutation: the new counter is stored without comparing.
StoreCounter(p) ==
    /\ pc[p] = "cas"
    /\ procs_tracking' = [procs_tracking EXCEPT ![cur[p]] = [ZeroCounter EXCEPT !.flag = TRUE]]
    /\ Goto(p, "unlink")
    /\ UNCHANGED <<list, total_shared_size, memory, procs_using, locks, handles, proc,
                   cmd, cur, ret, rest, scan>>

\* ... and then swaps in a zero count with the flag, if the counter still is what
\* it was.
CompareSwap(p) ==
    /\ pc[p] = "cas"
    /\ LET one == [ZeroCounter EXCEPT !.count = 1] IN
       IF procs_tracking[cur[p]] = one
       THEN /\ procs_tracking' = [procs_tracking EXCEPT ![cur[p]] = DecrementCounter(one, TRUE)]
            /\ Goto(p, "unlink")
       ELSE Goto(p, "untrack") /\ UNCHANGED procs_tracking
    /\ UNCHANGED <<list, total_shared_size, memory, procs_using, locks, handles, proc,
                   cmd, cur, ret, rest, scan>>

\* shm_unlink goes by the segment's number.
UnlinkSegment(p) ==
    /\ pc[p] = "unlink"
    /\ names[number[cur[p]]] # NoObj
    /\ names' = [names EXCEPT ![number[cur[p]]] = NoObj]
    /\ Goto(p, "post")
    /\ UNCHANGED <<list, total_shared_size, number, is_persistent, max_shared_segments,
                   procs_using, procs_tracking, locks, handles, proc, cmd, cur, ret, rest, scan>>

\* Mutation: the size is not given back.
PostOnly(p) ==
    /\ pc[p] = "post"
    /\ procs_tracking' = [procs_tracking EXCEPT ![cur[p]] = SetCounterPost(@, TRUE)]
    /\ Detached(p)
    /\ UNCHANGED <<list, total_shared_size, memory, procs_using, locks, proc, cmd, rest, scan>>

PostAndSubtract(p) ==
    /\ pc[p] = "post"
    /\ procs_tracking' = [procs_tracking EXCEPT ![cur[p]] = SetCounterPost(@, TRUE)]
    /\ total_shared_size' = total_shared_size - 1
    /\ Detached(p)
    /\ UNCHANGED <<list, memory, procs_using, locks, proc, cmd, rest, scan>>

Detach(p) ==
    \/ DestroyVariable(p) \/ Collect(p) \/ Untrack(p) \/ RemoveLast(p)
    \/ CompareSwap(p) \/ UnlinkSegment(p) \/ PostAndSubtract(p)
------------------------------------------------------------------------------
(* mexFunction: every command first cleans the segment list and last the   *)
(* variable list.                                                          *)

\* The first command of a process, or the first one after msh_OnExit, initializes
\* matshare; see SharedInfo.
Call(p, c) ==
    /\ pc[p] \in {"idle", "out"}
    /\ cmd' = [cmd EXCEPT ![p] = c]
    /\ rest' = [rest EXCEPT ![p] = local[p]]
    /\ Goto(p, "clean")
    /\ UNCHANGED <<list, total_shared_size, memory, procs_using, procs_tracking, locks,
                   handles, proc, cur, ret, scan>>

\* The workspace gives up its copies of a variable.
DropCopy(p, o) ==
    /\ pc[p] = "idle"
    /\ o \in held[p]
    /\ held' = [held EXCEPT ![p] = @ \ {o}]
    /\ UNCHANGED <<list, total_shared_size, memory, procs_using, procs_tracking, locks,
                   handles, local, var, used, pc, cmd, cur, ret, rest, scan>>

\* msh_CleanSegmentList: detach, one by one, the segments found to be invalid.
CleanSegmentList(p) ==
    /\ pc[p] = "clean"
    /\ \/ /\ rest[p] = <<>>
          /\ Goto(p, IF cmd[p] \in {"clean", "other"} THEN "gc" ELSE "command")
          /\ UNCHANGED <<rest, local, cur, ret>>
       \/ /\ rest[p] # <<>>
          /\ rest' = [rest EXCEPT ![p] = Tail(@)]
          /\ LET o == Head(rest[p]) IN
             IF is_invalid[o]
             THEN /\ local' = [local EXCEPT ![p] = RemoveNode(@, o)]
                  /\ CallDetach(p, o, "clean")
             ELSE UNCHANGED <<local, cur, ret, pc>>
    /\ UNCHANGED <<list, total_shared_size, memory, procs_using, procs_tracking, locks,
                   handles, var, used, held, cmd, scan>>

\* msh_CleanVariableList: a variable without copies is no longer used; if it was
\* the last use of the segment anywhere, collect it (msh_CLEAN overrides the
\* configuration).
CleanVariableList(p) ==
    /\ pc[p] = "gc"
    /\ LET unused == {o \in var[p] \cap used[p] : o \notin held[p]} IN
       \/ /\ unused = {}
          /\ Goto(p, "idle")
          /\ UNCHANGED <<used, procs_using, cur, ret>>
       \/ \E o \in unused :
          /\ used' = [used EXCEPT ![p] = @ \ {o}]
          /\ procs_using' = [procs_using EXCEPT ![o] = @ - 1]
          /\ IF /\ procs_using[o] = 1
                /\ WillSharedGC \/ cmd[p] = "clean"
                /\ ~is_persistent[o]
             THEN /\ cur' = [cur EXCEPT ![p] = o]
                  /\ ret' = [ret EXCEPT ![p] = "gc"]
                  /\ Goto(p, "collect")
             ELSE UNCHANGED <<cur, ret, pc>>
    /\ UNCHANGED <<list, total_shared_size, memory, procs_tracking, locks, handles,
                   local, var, held, cmd, rest, scan>>

\* Mutation: an error leaves the locks as they are.
OnErrorLocked(p) ==
    /\ pc[p] = "error"
    /\ Goto(p, "idle")
    /\ UNCHANGED <<list, total_shared_size, memory, procs_using, procs_tracking, locks,
                   handles, proc, cmd, cur, ret, rest, scan>>

\* An error ends the command at once; msh_OnError gives up every lock level.
OnError(p) ==
    /\ pc[p] = "error"
    /\ lock_level' = [lock_level EXCEPT ![p] = 0]
    /\ lock' = IF lock_level[p] > 0 THEN NoProc ELSE lock
    /\ Goto(p, "idle")
    /\ UNCHANGED <<list, total_shared_size, memory, procs_using, procs_tracking,
                   handles, proc, cmd, cur, ret, rest, scan>>

\* msh_Config with the limit on the number of segments, which may be set below the
\* number there are; no lock is taken.
Config(p) ==
    /\ pc[p] = "command" /\ cmd[p] = "config"
    /\ \E n \in MaxSharedSegments : max_shared_segments' = n
    /\ Goto(p, "gc")
    /\ UNCHANGED <<list, total_shared_size, names, number, is_persistent, procs_using,
                   procs_tracking, locks, handles, proc, cmd, cur, ret, rest, scan>>

------------------------------------------------------------------------------
(* msh_Share                                                               *)

\* msh_AtomicAddSizeWithMax reserves the size, or the command fails.  The last
\* number of the list is where the search for a free number starts.
ReserveSize(p) ==
    /\ pc[p] = "command" /\ cmd[p] = "share"
    /\ IF total_shared_size + 1 > MaxSharedSize
       THEN Goto(p, "error") /\ UNCHANGED <<total_shared_size, scan>>
       ELSE /\ total_shared_size' = total_shared_size + 1
            /\ scan' = [scan EXCEPT ![p] = last_seg_num]
            /\ Goto(p, "create")
    /\ UNCHANGED <<list, memory, procs_using, procs_tracking, locks, handles, proc,
                   cmd, cur, ret, rest>>

NextSegNum(k) == IF k = NoSeg \/ k = SegNumMax THEN 0 ELSE k + 1

\* One round of the loop in msh_CreateSegmentWorker; shm_open(O_CREAT | O_EXCL)
\* fails while the number is taken.  The new segment is tracked by its creator
\* and marked invalid until it is in the shared list.
CreateSegment(p) ==
    /\ pc[p] = "create"
    /\ LET k == NextSegNum(scan[p]) IN
       \/ /\ names[k] # NoObj
          /\ scan' = [scan EXCEPT ![p] = k]
          /\ UNCHANGED <<names, number, is_persistent, next_seg_num, prev_seg_num, is_invalid, procs_using,
                         procs_tracking, handles, local, pc, cur>>
       \/ /\ names[k] = NoObj
          /\ \E o \in FreeObj, persist \in Persist :
             /\ names' = [names EXCEPT ![k] = o]
             /\ number' = [number EXCEPT ![o] = k]
             /\ is_persistent' = [is_persistent EXCEPT ![o] = persist]
             /\ is_invalid' = [is_invalid EXCEPT ![o] = TRUE]
             /\ next_seg_num' = [next_seg_num EXCEPT ![o] = NoSeg]
             /\ prev_seg_num' = [prev_seg_num EXCEPT ![o] = 0]
             /\ procs_using' = [procs_using EXCEPT ![o] = 0]
             /\ procs_tracking' = [procs_tracking EXCEPT ![o] = IncrementCounter(ZeroCounter)]
             /\ handles' = [handles EXCEPT ![p] = @ \cup {o}]
             /\ local' = [local EXCEPT ![p] = Append(@, o)]
             /\ cur' = [cur EXCEPT ![p] = o]
          /\ scan' = [scan EXCEPT ![p] = NoSeg]
          /\ Goto(p, "add")
    /\ UNCHANGED <<first_seg_num, last_seg_num, num_shared_segments, up_to_date,
                   rev_is_initial, total_shared_size, max_shared_segments, locks, var, used,
                   held, cmd, ret, rest>>

\* shm_open, ftruncate or mmap fails and the command ends with an error.  Nothing
\* gives the size back; if the object exists by then it keeps its name, tracked
\* by nobody.
CreateFails(p) ==
    /\ pc[p] = "create"
    /\ lost < MaxFailures
    /\ lost' = lost + 1
    /\ LET k == NextSegNum(scan[p]) IN
       \/ UNCHANGED <<names, number, procs_using, procs_tracking, is_invalid, orphans>>
       \/ /\ names[k] = NoObj
          /\ Cardinality(orphans) < MaxFailures
          /\ \E o \in FreeObj :
             /\ names' = [names EXCEPT ![k] = o]
             /\ number' = [number EXCEPT ![o] = k]
             /\ procs_tracking' = [procs_tracking EXCEPT ![o] = ZeroCounter]
             /\ procs_using' = [procs_using EXCEPT ![o] = 0]
             /\ is_invalid' = [is_invalid EXCEPT ![o] = FALSE]
             /\ orphans' = orphans \cup {o}
    /\ scan' = [scan EXCEPT ![p] = NoSeg]
    /\ Goto(p, "error")
    /\ UNCHANGED <<first_seg_num, last_seg_num, num_shared_segments, next_seg_num,
                   prev_seg_num, up_to_date, rev_is_initial, total_shared_size,
                   is_persistent, max_shared_segments, locks, handles, proc, cmd, cur,
                   ret, rest>>

\* msh_AddSegmentToSharedList.  At the limit the segment is detached again, with
\* the lock held, and the command fails.
AddSegmentToSharedList(p) ==
    /\ pc[p] = "add"
    /\ LET o    == cur[p]
           objs == IF first_seg_num = NoSeg THEN <<>> ELSE Unopened(p, last_seg_num)
       IN
       \/ /\ num_shared_segments >= max_shared_segments
          /\ Acquire(p)
          /\ local' = [local EXCEPT ![p] = RemoveNode(@, o)]
          /\ CallDetach(p, o, "error")
          /\ UNCHANGED <<list, procs_tracking, handles>>
       \/ /\ num_shared_segments < max_shared_segments
          /\ CanAcquire(p) /\ CanOpen(objs)
          /\ num_shared_segments' = num_shared_segments + 1
          /\ first_seg_num' = IF first_seg_num = NoSeg THEN number[o] ELSE first_seg_num
          /\ next_seg_num' =
                IF first_seg_num = NoSeg THEN next_seg_num
                ELSE [next_seg_num EXCEPT ![NodeOf(p, last_seg_num)] = number[o]]
          /\ prev_seg_num' = [prev_seg_num EXCEPT ![o] = last_seg_num]
          /\ is_invalid' = [is_invalid EXCEPT ![o] = FALSE]
          /\ last_seg_num' = number[o]
          /\ IncrementRevisionNumber
          /\ procs_tracking' = Opened(objs)
          /\ handles' = [handles EXCEPT ![p] = @ \cup ToSet(objs)]
          /\ local' = [local EXCEPT ![p] = @ \o objs]
          /\ Goto(p, "return")
          /\ UNCHANGED <<cur, ret, locks>>
    /\ UNCHANGED <<total_shared_size, memory, procs_using, var, used, held, cmd, rest, scan>>

\* Mutation: every copy counts as a use.
CopyAndUseAgain(p, o) ==
    /\ held' = [held EXCEPT ![p] = @ \cup {o}]
    /\ used' = [used EXCEPT ![p] = @ \cup {o}]
    /\ procs_using' = [procs_using EXCEPT ![o] = @ + 1]

\* msh_CreateSharedDataCopy for segment o, counting the use.
CopyAndUse(p, o) ==
    /\ held' = [held EXCEPT ![p] = @ \cup {o}]
    /\ used' = [used EXCEPT ![p] = @ \cup {o}]
    /\ procs_using' = IF o \in used[p] THEN procs_using
                      ELSE [procs_using EXCEPT ![o] = @ + 1]

\* Create the variable; return no copy, a copy for "ans" that is not counted as a
\* use, or a copy; then share the next argument if there is one.
ReturnShared(p) ==
    /\ pc[p] = "return"
    /\ LET o == cur[p] IN
       /\ var' = [var EXCEPT ![p] = @ \cup {o}]
       /\ \/ UNCHANGED <<held, used, procs_using>>
          \/ held' = [held EXCEPT ![p] = @ \cup {o}] /\ UNCHANGED <<used, procs_using>>
          \/ CopyAndUse(p, o)
    /\ cur' = [cur EXCEPT ![p] = NoObj]
    /\ \E l \in {"command", "gc"} : Goto(p, l)
    /\ UNCHANGED <<list, total_shared_size, memory, procs_tracking, locks, handles,
                   local, cmd, ret, rest, scan>>

------------------------------------------------------------------------------
(* msh_UpdateAllSegments and msh_UpdateLatestSegment                       *)

\* Where a command goes on once it is up to date.
AfterUpdate(p) == IF cmd[p] = "clear" THEN "clear" ELSE "output"

UpdateAllSegments(p) ==
    /\ \/ /\ p \in up_to_date
          /\ Goto(p, AfterUpdate(p))
          /\ UNCHANGED <<locks, rest, scan>>
       \/ /\ p \notin up_to_date
          /\ Acquire(p)
          /\ scan' = [scan EXCEPT ![p] = first_seg_num]
          /\ rest' = [rest EXCEPT ![p] = local[p]]
          /\ Goto(p, "walk")
    /\ UNCHANGED <<list, total_shared_size, memory, procs_using, procs_tracking,
                   handles, proc, cmd, cur, ret>>

\* One segment of the shared list: it goes to the end of the local list, and is
\* opened if it was not there.  rest keeps the ones not met so far.
WalkSharedList(p) ==
    /\ pc[p] = "walk"
    /\ \/ /\ scan[p] = NoSeg
          /\ up_to_date' = up_to_date \cup {p}
          /\ Release(p)
          /\ Goto(p, "stale")
          /\ UNCHANGED <<scan, rest, local, handles, procs_tracking>>
       \/ /\ scan[p] # NoSeg
          /\ LET o    == NodeOf(p, scan[p])
                 objs == Unopened(p, scan[p])
             IN
             /\ CanOpen(objs)
             /\ procs_tracking' = Opened(objs)
             /\ handles' = [handles EXCEPT ![p] = @ \cup ToSet(objs)]
             /\ local' = [local EXCEPT ![p] = Append(RemoveNode(@, o), o)]
             /\ rest' = [rest EXCEPT ![p] = RemoveNode(@, o)]
             /\ scan' = [scan EXCEPT ![p] = next_seg_num[o]]
          /\ UNCHANGED <<up_to_date, locks, pc>>
    /\ UNCHANGED <<first_seg_num, last_seg_num, num_shared_segments, next_seg_num,
                   prev_seg_num, is_invalid, rev_is_initial, total_shared_size, memory,
                   procs_using, var, used, held, cmd, cur, ret>>

\* With the lock released, detach what is not in the shared list any more.
DetachStale(p) ==
    /\ pc[p] = "stale"
    /\ \/ /\ rest[p] = <<>>
          /\ Goto(p, AfterUpdate(p))
          /\ UNCHANGED <<rest, local, cur, ret>>
       \/ /\ rest[p] # <<>>
          /\ rest' = [rest EXCEPT ![p] = Tail(@)]
          /\ local' = [local EXCEPT ![p] = RemoveNode(@, Head(rest[p]))]
          /\ CallDetach(p, Head(rest[p]), "stale")
    /\ UNCHANGED <<list, total_shared_size, memory, procs_using, procs_tracking, locks,
                   handles, var, used, held, cmd, scan>>

PlaceAtEnd(p, o) == local' = [local EXCEPT ![p] = Append(RemoveNode(@, o), o)]

\* msh_UpdateLatestSegment looks at last_seg_num without the lock first.
UpdateLatestSegment(p) ==
    /\ pc[p] = "command" /\ cmd[p] = "fetch_recent"
    /\ LET latest == FindSegmentNode(p, last_seg_num) IN
       \/ /\ p \in up_to_date \/ (latest = {} /\ last_seg_num = NoSeg)
          /\ Goto(p, "output") /\ UNCHANGED local
       \/ /\ p \notin up_to_date /\ latest # {}
          /\ \E o \in latest : PlaceAtEnd(p, o)
          /\ Goto(p, "output")
       \/ /\ p \notin up_to_date /\ latest = {} /\ last_seg_num # NoSeg
          /\ Goto(p, "open_latest") /\ UNCHANGED local
    /\ UNCHANGED <<list, total_shared_size, memory, procs_using, procs_tracking, locks,
                   handles, var, used, held, cmd, cur, ret, rest, scan>>

\* ... and again with it.
OpenLatest(p) ==
    /\ pc[p] = "open_latest"
    /\ CanAcquire(p)
    /\ LET latest == FindSegmentNode(p, last_seg_num)
           objs   == Unopened(p, last_seg_num)
       IN
       \/ /\ latest # {}
          /\ \E o \in latest : PlaceAtEnd(p, o)
          /\ UNCHANGED <<procs_tracking, handles>>
       \/ /\ latest = {} /\ last_seg_num # NoSeg
          /\ CanOpen(objs)
          /\ procs_tracking' = Opened(objs)
          /\ handles' = [handles EXCEPT ![p] = @ \cup ToSet(objs)]
          /\ local' = [local EXCEPT ![p] = @ \o objs]
       \/ /\ last_seg_num = NoSeg
          /\ UNCHANGED <<procs_tracking, handles, local>>
    /\ Goto(p, "output")
    /\ UNCHANGED <<list, total_shared_size, memory, procs_using, locks, var, used, held,
                   cmd, cur, ret, rest, scan>>

------------------------------------------------------------------------------
(* msh_Fetch                                                               *)

FetchUpdate(p) == pc[p] = "command" /\ cmd[p] = "fetch" /\ UpdateAllSegments(p)

\* Create the missing variables; what may be returned is the most recent segment,
\* or every segment in the list.
CreateOutputs(p) ==
    /\ pc[p] = "output"
    /\ var' = [var EXCEPT ![p] = ToSet(local[p])]
    /\ rest' = [rest EXCEPT ![p] =
                    IF cmd[p] = "fetch_recent" /\ local[p] # <<>> THEN <<Last(local[p])>>
                    ELSE local[p]]
    /\ Goto(p, "use")
    /\ UNCHANGED <<list, total_shared_size, memory, procs_using, procs_tracking, locks,
                   handles, local, used, held, cmd, cur, ret, scan>>

\* Return one copy, counting the use of the segment, or pass over a segment that
\* is not selected by name or option.
UseOutput(p) ==
    /\ pc[p] = "use"
    /\ \/ /\ rest[p] = <<>>
          /\ Goto(p, "gc")
          /\ UNCHANGED <<rest, held, used, procs_using>>
       \/ /\ rest[p] # <<>>
          /\ rest' = [rest EXCEPT ![p] = Tail(@)]
          /\ \/ CopyAndUse(p, Head(rest[p]))
             \/ cmd[p] = "fetch" /\ UNCHANGED <<held, used, procs_using>>
          /\ UNCHANGED pc
    /\ UNCHANGED <<list, total_shared_size, memory, procs_tracking, locks, handles,
                   local, var, cmd, cur, ret, scan>>

------------------------------------------------------------------------------
(* msh_Clear, with the lock held from beginning to end                     *)

AcquireForClear(p) ==
    /\ pc[p] = "command" /\ cmd[p] \in {"clear_all", "clear"}
    /\ lock_level[p] = 0
    /\ Acquire(p)
    /\ Goto(p, IF cmd[p] = "clear_all" THEN "clear_all" ELSE "command")
    /\ UNCHANGED <<list, total_shared_size, memory, procs_using, procs_tracking,
                   handles, proc, cmd, cur, ret, rest, scan>>

ClearUpdate(p) ==
    pc[p] = "command" /\ cmd[p] = "clear" /\ lock_level[p] = 1 /\ UpdateAllSegments(p)

ReleaseAfterClear(p) ==
    /\ \/ pc[p] = "clear_all" /\ first_seg_num = NoSeg
       \/ pc[p] = "clear"
    /\ Release(p)
    /\ Goto(p, "gc")
    /\ UNCHANGED <<list, total_shared_size, memory, procs_using, procs_tracking,
                   handles, proc, cmd, cur, ret, rest, scan>>

\* msh_ClearSharedSegments: the first segment of the shared list, opened if need be.
ClearFirst(p) ==
    /\ pc[p] = "clear_all"
    /\ first_seg_num # NoSeg
    /\ LET objs == Unopened(p, first_seg_num)
           o    == NodeOf(p, first_seg_num)
       IN
       \/ /\ objs # <<>>
          /\ CanOpen(objs)
          /\ procs_tracking' = Opened(objs)
          /\ handles' = [handles EXCEPT ![p] = @ \cup ToSet(objs)]
          /\ local' = [local EXCEPT ![p] = @ \o objs]
          /\ UNCHANGED <<list, pc, cur, ret>>
       \/ /\ objs = <<>>
          /\ RemoveSegmentFromSharedList(p, o, RemoveNode(local[p], o))
          /\ CallDetach(p, o, "clear_all")
    /\ UNCHANGED <<total_shared_size, memory, procs_using, locks, var, used, held, cmd,
                   rest, scan>>

\* Clear one of the variables given by name or object.
ClearOne(p, o) ==
    /\ pc[p] = "clear"
    /\ o \in ToSet(local[p])
    /\ RemoveSegmentFromSharedList(p, o, RemoveNode(local[p], o))
    /\ CallDetach(p, o, "clear")
    /\ UNCHANGED <<total_shared_size, memory, procs_using, locks, var, used, held, cmd,
                   rest, scan>>

------------------------------------------------------------------------------
(* msh_OnExit                                                              *)

\* msh_DetachSegmentList, then the revision number is reset.  The shared info
\* segment goes away with the last process and comes back with an initial
\* revision number and a total size of zero.
OnExit(p) ==
    /\ pc[p] \in {"idle", "exit"}
    /\ \/ /\ local[p] # <<>>
          /\ local' = [local EXCEPT ![p] = Tail(@)]
          /\ CallDetach(p, Head(local[p]), "exit")
          /\ UNCHANGED <<up_to_date, rev_is_initial, total_shared_size, lost>>
       \/ /\ local[p] = <<>>
          /\ Goto(p, "out")
          /\ LET last == \A q \in Proc \ {p} : pc[q] = "out" IN
             /\ rev_is_initial' = (rev_is_initial \/ last)
             /\ up_to_date' = IF last THEN Proc
                              ELSE IF rev_is_initial THEN up_to_date \cup {p}
                              ELSE up_to_date \ {p}
             /\ total_shared_size' = IF last THEN 0 ELSE total_shared_size
             /\ lost' = IF last THEN 0 ELSE lost
          /\ UNCHANGED <<local, cur, ret>>
    /\ UNCHANGED <<first_seg_num, last_seg_num, num_shared_segments, next_seg_num,
                   prev_seg_num, is_invalid, memory, procs_using, procs_tracking, orphans,
                   locks, handles, var, used, held, cmd, rest, scan>>

------------------------------------------------------------------------------
\* The steps of a command, and what the user does, without a failing system call.
Step(p) ==
    \/ CleanSegmentList(p) \/ CleanVariableList(p) \/ OnError(p) \/ Config(p)
    \/ Detach(p)
    \/ ReserveSize(p) \/ CreateSegment(p) \/ AddSegmentToSharedList(p) \/ ReturnShared(p)
    \/ WalkSharedList(p) \/ DetachStale(p) \/ UpdateLatestSegment(p) \/ OpenLatest(p)
    \/ FetchUpdate(p) \/ CreateOutputs(p) \/ UseOutput(p)
    \/ AcquireForClear(p) \/ ClearUpdate(p) \/ ReleaseAfterClear(p) \/ ClearFirst(p)
    \/ (\E o \in Obj : ClearOne(p, o))

User(p) ==
    \/ (\E c \in Commands : Call(p, c))
    \/ (\E o \in Obj : DropCopy(p, o))

Next ==
    \E p \in Proc :
        \/ (Step(p) \/ User(p)) /\ UNCHANGED faults
        \/ CreateFails(p)
        \/ OnExit(p)

Spec == Init /\ [][Next]_vars
------------------------------------------------------------------------------
(* Properties.                                                             *)

\* The segments in circulation.
Listed == {o \in Obj \ (FreeObj \cup orphans) : ~is_invalid[o]}

\* The n-th segment number met when following the links with start and step.
Follow(start, step, n) ==
    LET f[i \in 0 .. n] == IF i = 0 THEN start
                           ELSE IF f[i - 1] = NoSeg \/ names[f[i - 1]] = NoObj THEN NoSeg
                           ELSE step[names[f[i - 1]]]
    IN  f[n]

\* The shared list, first to last.
SharedList ==
    [i \in 1 .. Cardinality(Listed) |->
        names[Follow(first_seg_num, next_seg_num, i - 1)]]

(* Whatever the interleaving of sharing, clearing and garbage collection,  *)
(* the links msh_AddSegmentToSharedList and                                *)
(* msh_RemoveSegmentFromSharedList leave behind form one list of exactly   *)
(* the valid segments, the same in both directions, ended by the invalid   *)
(* number; num_shared_segments is its length, every segment in it can be   *)
(* found under its number, and none of them is being unlinked.             *)
SharedListIntact ==
    LET n == Cardinality(Listed) IN
    /\ num_shared_segments = n
    /\ \A o \in Listed : names[number[o]] = o /\ ~procs_tracking[o].flag
    /\ {Follow(first_seg_num, next_seg_num, i) : i \in 0 .. (n - 1)} = {number[o] : o \in Listed}
    /\ \A i \in 0 .. (n - 1) : Follow(last_seg_num, prev_seg_num, i)
                               = Follow(first_seg_num, next_seg_num, n - 1 - i)
    /\ Follow(first_seg_num, next_seg_num, n) = NoSeg
    /\ Follow(last_seg_num, prev_seg_num, n) = NoSeg

(* Seen by the commands, the links under their lock and the revision       *)
(* numbers read without it are one sequence: msh_AddSegmentToSharedList    *)
(* puts a segment at its end, within the limit then in force,              *)
(* msh_RemoveSegmentFromSharedList takes one out, once and from wherever   *)
(* it is, nothing else changes it, and each change leaves no process up to *)
(* date that has not looked since.  The segments implement                 *)
(* SharedVariables.                                                        *)
Variables == INSTANCE SharedVariables WITH
    Var     <- Obj,
    Limits  <- MaxSharedSegments,
    shared  <- SharedList,
    current <- up_to_date,
    limit   <- max_shared_segments
ListInOrder == Variables!Spec

(* The unlink at the end of msh_DetachSegment never takes the name of a    *)
(* segment that some process has open, and a number is never given to a    *)
(* second segment while the first is open anywhere, so a segment found by  *)
(* number in the local table is the one the list means.                    *)
TrackedIsPinned ==
    \A p \in Proc : \A o \in handles[p] :
        names[number[o]] = o \/ (pc[p] = "post" /\ cur[p] = o)

\* Processes that track segment o, or use it.
Trackers(o) == {p \in Proc : o \in handles[p]}
Users(o)    == {p \in Proc : o \in used[p]}

(* Until a segment is being unlinked its procs_tracking counts exactly the *)
(* processes that have it open, in spite of the compare-and-swap loop of   *)
(* msh_DetachSegment being abandoned and resumed.                          *)
TrackingExact ==
    \A o \in Obj \ FreeObj :
        ~procs_tracking[o].flag => procs_tracking[o].count = Cardinality(Trackers(o))

(* procs_using counts the processes that use the segment: the lazy         *)
(* decrement of msh_CleanVariableList and the one in msh_DestroyVariable   *)
(* never both count the same use.                                          *)
UsingExact == \A o \in Obj \ FreeObj : procs_using[o] = Cardinality(Users(o))

(* A process whose revision number is the shared one, and which is not     *)
(* still detaching stale segments, has in its local list exactly the       *)
(* shared list: the early return of msh_UpdateAllSegments, taken without   *)
(* the lock, misses nothing.                                               *)
UpToDateIsCurrent ==
    \A p \in up_to_date :
        pc[p] \in {"idle", "output", "use", "clear"} => local[p] = SharedList

(* total_shared_size accounts for every segment from the reservation in    *)
(* msh_CreateSegmentWorker to the subtraction after the unlink, also when  *)
(* a segment is refused for being one too many.  What a failing system     *)
(* call of msh_CreateSegmentWorker leaves reserved is all that is counted  *)
(* besides.                                                                *)
SizeAccounted ==
    total_shared_size =
          Cardinality({k \in SegNum : names[k] \notin orphans \cup {NoObj}})
        + Cardinality({p \in Proc : pc[p] \in {"create", "post"}})
        + lost

(* A variable and its copies in the workspace point into a segment the     *)
(* process has mapped: nothing is unmapped before the pointers into it     *)
(* have been detached.                                                     *)
CopiesAreMapped == \A p \in Proc : used[p] \cup held[p] \subseteq var[p] /\ var[p] \subseteq handles[p]

(* When the last process has detached no segment is left: no name and no   *)
(* list entry survives, whoever created the segments and in whatever order *)
(* the processes left, but the names of objects whose creation failed      *)
(* halfway.                                                                *)
NoSegmentLeft ==
    (\A p \in Proc : pc[p] = "out") =>
        /\ \A k \in SegNum : names[k] \in orphans \cup {NoObj}
        /\ first_seg_num = NoSeg /\ last_seg_num = NoSeg
        /\ num_shared_segments = 0

(* A command returns without the lock, whether it ended well or with an    *)
(* error inside a locked region (msh_OnError, mshinit.c:351), and nobody   *)
(* works at a lock level without being the holder.                         *)
LockReturned ==
    \A p \in Proc :
        /\ lock_level[p] > 0 <=> lock = p
        /\ pc[p] \in {"idle", "out", "gc"} => lock_level[p] = 0

(* "automatically garbage collect unused variables in shared memory"       *)
(* (+matshare/config.m:33): where nobody clears anything, a process cleaning  *)
(* up invalid segments never has to destroy a variable it is using and of  *)
(* which its workspace holds a copy.                                       *)
OnlyUnusedCollected ==
    \A p \in Proc :
        pc[p] = "detach" /\ ret[p] = "clean" => cur[p] \notin used[p] \cap held[p]

(***************************************************************************)
(* The inductive invariants behind these properties.                       *)
(***************************************************************************)

\* Control points inside msh_DetachSegment, and where it may return to.
DetachPC == {"detach", "collect", "untrack", "remove", "cas", "unlink", "post"}
ReturnPC == {"clean", "error", "gc", "stale", "clear_all", "clear", "exit"}

\* The command's own control point, calls of msh_DetachSegment apart.
At(p) == IF pc[p] \in DetachPC THEN ret[p] ELSE pc[p]

(* How deep in the lock each process is.                                   *)
LockInv ==
    /\ pc \in [Proc -> PC] /\ ret \in [Proc -> PC]
    /\ cmd \in [Proc -> Commands \cup {"none"}]
    /\ lock_level \in [Proc -> Nat]
    /\ \A p \in Proc :
        /\ lock_level[p] > 0 <=> lock = p
        /\ pc[p] \in DetachPC => ret[p] \in ReturnPC
        /\ At(p) \in {"clear", "clear_all"} => lock_level[p] = 1
        /\ At(p) = "clear" => cmd[p] = "clear"
        /\ At(p) = "walk" => lock_level[p] = IF cmd[p] = "clear" THEN 2 ELSE 1
        /\ At(p) = "stale" => lock_level[p] = IF cmd[p] = "clear" THEN 1 ELSE 0
        /\ At(p) = "command" => lock_level[p] = 0 \/ (cmd[p] = "clear" /\ lock_level[p] = 1)
        /\ At(p) \notin {"clear", "clear_all", "walk", "stale", "command", "error"}
              => lock_level[p] = 0

(* What a process knows of its own segments.                               *)
LocalInv ==
    /\ local \in [Proc -> Seq(Obj)] /\ rest \in [Proc -> Seq(Obj)]
    /\ handles \in [Proc -> SUBSET Obj] /\ var \in [Proc -> SUBSET Obj]
    /\ used \in [Proc -> SUBSET Obj] /\ held \in [Proc -> SUBSET Obj]
    /\ cur \in [Proc -> Obj \cup {NoObj}]
    /\ \A p \in Proc :
        /\ IsInjective(local[p])
        /\ handles[p] = ToSet(local[p]) \cup (IF pc[p] \in DetachPC THEN {cur[p]} ELSE {})
        /\ pc[p] \in DetachPC /\ ~(pc[p] = "collect" /\ ret[p] = "gc") => cur[p] \notin ToSet(local[p])
        /\ pc[p] \in {"add", "return"} => cur[p] \in ToSet(local[p])
        /\ pc[p] = "out" => local[p] = <<>>
        /\ used[p] \cup held[p] \subseteq var[p] /\ var[p] \subseteq handles[p]
        /\ pc[p] \in DetachPC \ {"detach", "collect"} => cur[p] \notin var[p]
        /\ At(p) \in {"clean", "stale", "walk"} => IsInjective(rest[p]) /\ ToSet(rest[p]) \subseteq ToSet(local[p])
        /\ pc[p] = "use" => ToSet(rest[p]) \subseteq var[p]

Named(o)   == \E k \in SegNum : names[k] = o
Tracked(o) == \E p \in Proc : o \in handles[p]

(* What the names, the counters and the open segments have to do with each *)
(* other.                                                                  *)
TrackInv ==
    /\ names \in [SegNum -> Obj \cup {NoObj}] /\ number \in [Obj -> SegNum]
    /\ procs_tracking \in [Obj -> Counter]
    /\ orphans \subseteq Obj
    /\ \A k \in SegNum : names[k] # NoObj => number[names[k]] = k
    /\ TrackedIsPinned
    /\ \A p \in Proc : pc[p] \in {"unlink", "post"} =>
        procs_tracking[cur[p]].flag /\ Trackers(cur[p]) = {p}
    /\ \A p \in Proc : pc[p] = "post" => names[number[cur[p]]] # cur[p]
    /\ \A o \in Obj : (Named(o) \/ Tracked(o)) /\ procs_tracking[o].flag =>
        \E p \in Proc : pc[p] \in {"unlink", "post"} /\ cur[p] = o
    /\ \A o \in Obj : (Named(o) \/ Tracked(o)) /\ ~procs_tracking[o].flag =>
        procs_tracking[o].count = Cardinality(Trackers(o))
    /\ \A k \in SegNum : names[k] \in Obj \ orphans => Tracked(names[k])
    /\ \A o \in orphans : names[number[o]] = o /\ ~Tracked(o)

(* The sequence of segments w is the shared list.                          *)
Linked(w) ==
    /\ w \in [1 .. num_shared_segments -> Obj]
    /\ IsInjective(w)
    /\ \A i \in 1 .. num_shared_segments :
        /\ next_seg_num[w[i]] = IF i = num_shared_segments THEN NoSeg ELSE number[w[i + 1]]
        /\ prev_seg_num[w[i]] = IF i = 1 THEN NoSeg ELSE number[w[i - 1]]
    /\ first_seg_num = IF num_shared_segments = 0 THEN NoSeg ELSE number[w[1]]
    /\ last_seg_num = IF num_shared_segments = 0 THEN NoSeg ELSE number[w[num_shared_segments]]
    /\ \A o \in Obj : (\E i \in 1 .. num_shared_segments : w[i] = o) <=>
        (Named(o) \/ Tracked(o)) /\ o \notin orphans /\ ~is_invalid[o]
    /\ \A i \in 1 .. num_shared_segments :
        names[number[w[i]]] = w[i] /\ ~procs_tracking[w[i]].flag

(* The shared list is in order, and who waits to enter or leave it has a   *)
(* segment that is not in it.                                              *)
ListInv ==
    /\ num_shared_segments \in Nat
    /\ is_invalid \in [Obj -> BOOLEAN]
    /\ next_seg_num \in [Obj -> SegNum \cup {NoSeg}]
    /\ prev_seg_num \in [Obj -> SegNum \cup {NoSeg}]
    /\ scan \in [Proc -> SegNum \cup {NoSeg}]
    /\ Linked(SharedList)
    /\ \A p \in Proc :
        /\ pc[p] \in {"cas", "unlink", "post", "add"} => is_invalid[cur[p]]
        /\ pc[p] = "add" => Trackers(cur[p]) = {p} /\ next_seg_num[cur[p]] = NoSeg
        /\ pc[p] = "walk" /\ scan[p] # NoSeg =>
              names[scan[p]] \in Listed /\ number[names[scan[p]]] = scan[p]

(* The part of the shared list that the walk of msh_UpdateAllSegments has  *)
(* passed is at the end of the local list, in order.                       *)
Walked(p) ==
    \E i \in 0 .. num_shared_segments :
        /\ local[p] = rest[p] \o SubSeq(SharedList, 1, i)
        /\ scan[p] = IF i = num_shared_segments THEN NoSeg ELSE number[SharedList[i + 1]]

(* What a process whose revision number is the shared one has in its local *)
(* list, wherever it is.                                                   *)
CurrentInv ==
    /\ up_to_date \subseteq Proc
    /\ rev_is_initial => num_shared_segments = 0
    /\ \A p \in Proc :
        /\ pc[p] \in {"return", "open_latest", "walk"} => p \notin up_to_date
        /\ p \in up_to_date /\ At(p) \notin {"stale", "add", "exit"} => local[p] = SharedList
        /\ p \in up_to_date /\ At(p) = "stale" => local[p] = rest[p] \o SharedList
        /\ p \in up_to_date /\ At(p) = "add" => local[p] = Append(SharedList, cur[p])
        /\ pc[p] = "walk" => Walked(p)
=============================================================================
