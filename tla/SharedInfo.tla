------------------------------ MODULE SharedInfo ------------------------------
(***************************************************************************)
(* Life cycle of the shared info segment (mshinit.c, UNIX build): how any  *)
(* number of MATLAB processes attach to one shared memory object under a   *)
(* fixed name, how exactly one of them initializes it, and how the last    *)
(* one to leave saves the configuration and unlinks it, all without a lock *)
(* (the interprocess lock lives in that very segment).                     *)
(*                                                                         *)
(* A process stands for one MATLAB process with the MEX file loaded.  An   *)
(* object is one incarnation of the POSIX shared memory object; it goes    *)
(* back to the pool once it has neither a name nor an open handle, so no   *)
(* bound is put on the number of incarnations.                             *)
(***************************************************************************)
EXTENDS LockFreeCounter, FiniteSets, Sequences

CONSTANTS
    Proc,           \* MATLAB processes
    Obj,            \* shared memory objects
    NoObj,          \* MSH_INVALID_HANDLE, and the name when it is not linked
    Config,         \* values of the user configuration
    DefaultConfig,  \* what msh_SetDefaultConfiguration writes
    Zeroed,         \* a user configuration that is still zero-filled memory
    MaxCrashes,     \* bound on processes killed without running msh_OnExit
    MaxFailures     \* bound on system calls that fail

ASSUME SharedInfoAssumption ==
    /\ IsFiniteSet(Proc)
    /\ NoObj \notin Obj
    /\ DefaultConfig \in Config
    /\ Zeroed \notin Config
    /\ MaxCrashes \in Nat
    /\ MaxFailures \in Nat
    /\ Cardinality(Proc) + MaxCrashes < CountMod

VARIABLES
    name,           \* object linked under MSH_SHARED_INFO_SEGMENT_NAME
    num_procs,      \* g_shared_info->num_procs of each object
    is_initialized, \* g_shared_info->is_initialized of each object
    user_defined,   \* g_shared_info->user_defined of each object
    config_file,    \* records in the configuration file
    handle,         \* g_local_info.shared_info_wrapper.handle of each process
    first,          \* ret_num_procs.values.count == 1, kept while mapped
    pc,             \* where each process is in msh_InitializeSharedInfo/msh_OnExit
    crashes,        \* number of crashes so far
    failures        \* number of failed system calls so far

vars == <<name, num_procs, is_initialized, user_defined, config_file,
          handle, first, pc, crashes, failures>>

shared == <<num_procs, is_initialized, user_defined>>
faults == <<crashes, failures>>

(***************************************************************************)
(* Control points.                                                         *)
(*   out          no handle; matshare deinitialized or never initialized   *)
(*   retry        inside the call, about to open the segment again         *)
(*   opened       opened and truncated, not yet counted                    *)
(*   unmapped     an error left the handle open, but nothing mapped        *)
(*   counted      mapped and counted, flag not read yet                    *)
(*   wait_post    saw the flag, spins on post                              *)
(*   init         is the global initializer                                *)
(*   publish      initializer, about to set is_initialized                 *)
(*   wait_init    spins on is_initialized                                  *)
(*   up           initialized; runs matshare calls                         *)
(*   failed       an error left the segment mapped but matshare not        *)
(*                initialized ("interrupted in the middle of ...")         *)
(*   write_config last one out: raised the flag, saves the configuration   *)
(*   unlink       last one out: about to call shm_unlink                   *)
(*   post         last one out: about to set post                          *)
(***************************************************************************)
PC == {"out", "retry", "opened", "unmapped", "counted", "wait_post", "init", "publish",
       "wait_init", "up", "failed", "write_config", "unlink", "post"}

Detached(p) == pc[p] \in {"out", "retry"}

(* Types of the variables; and a process has a handle on a segment exactly *)
(* while it is somewhere between shm_open and the close at its end.        *)
TypeOK ==
    /\ name \in Obj \cup {NoObj}
    /\ num_procs \in [Obj -> Counter]
    /\ is_initialized \in [Obj -> BOOLEAN]
    /\ user_defined \in [Obj -> Config \cup {Zeroed}]
    /\ config_file \in Seq(Config \cup {Zeroed})
    /\ handle \in [Proc -> Obj \cup {NoObj}]
    /\ first \in [Proc -> BOOLEAN]
    /\ pc \in [Proc -> PC]
    /\ crashes \in 0 .. MaxCrashes
    /\ failures \in 0 .. MaxFailures
    /\ \A p \in Proc : Detached(p) <=> handle[p] = NoObj

Init ==
    /\ name = NoObj
    /\ num_procs = [o \in Obj |-> ZeroCounter]
    /\ is_initialized = [o \in Obj |-> FALSE]
    /\ user_defined = [o \in Obj |-> Zeroed]
    /\ config_file \in {<<>>} \cup {<<c>> : c \in Config}
    /\ handle = [p \in Proc |-> NoObj]
    /\ first = [p \in Proc |-> FALSE]
    /\ pc = [p \in Proc |-> "out"]
    /\ crashes = 0
    /\ failures = 0

------------------------------------------------------------------------------
(* The configuration file.                                                 *)

\* Mutation: the defaults are not written first.
ReadConfigurationOnly(file) == IF file = <<>> THEN Zeroed ELSE file[1]

\* msh_InitializeConfiguration writes the defaults and then reads over them
\* whatever the file holds at offset 0.
ReadConfiguration(file) == IF file = <<>> THEN DefaultConfig ELSE file[1]

\* msh_WriteConfiguration reads one record and then writes the current
\* configuration, if it differs, at the file offset the read has left: after
\* the first record.  From an empty file nothing is read, and the comparison is
\* against an uninitialized record that may by chance be equal.
WriteConfiguration(file, config) ==
    IF file = <<>> THEN {<<config>>, <<>>}
    ELSE IF file[1] = config THEN {file}
    ELSE {<<file[1], config>>}

------------------------------------------------------------------------------
(* msh_InitializeSharedInfo                                                *)

Goto(p, l) == pc' = [pc EXCEPT ![p] = l]

\* An object with neither a name nor a handle has been freed by the system.
FreeObj == {o \in Obj : o # name /\ \A q \in Proc : handle[q] # o}

\* shm_open(O_RDWR | O_CREAT) and ftruncate.  A new object is zero-filled.
Open(p) ==
    /\ Detached(p)
    /\ \/ /\ name # NoObj
          /\ handle' = [handle EXCEPT ![p] = name]
          /\ UNCHANGED <<name, shared>>
       \/ /\ name = NoObj
          /\ \E o \in FreeObj :
                /\ name' = o
                /\ handle' = [handle EXCEPT ![p] = o]
                /\ num_procs' = [num_procs EXCEPT ![o] = ZeroCounter]
                /\ is_initialized' = [is_initialized EXCEPT ![o] = FALSE]
                /\ user_defined' = [user_defined EXCEPT ![o] = Zeroed]
    /\ Goto(p, "opened")
    /\ UNCHANGED <<config_file, first, faults>>

\* Mutation: the first one is whoever finds the segment uninitialized.
IncrementUninitialized(p) ==
    /\ pc[p] = "opened"
    /\ num_procs' = [num_procs EXCEPT ![handle[p]] = IncrementCounter(@)]
    /\ first' = [first EXCEPT ![p] = ~is_initialized[handle[p]]]
    /\ Goto(p, "counted")
    /\ UNCHANGED <<name, is_initialized, user_defined, config_file, handle, faults>>

\* Map the segment and count this process in, remembering whether it is the first.
Increment(p) ==
    /\ pc[p] = "opened"
    /\ LET new == IncrementCounter(num_procs[handle[p]])
       IN  /\ num_procs' = [num_procs EXCEPT ![handle[p]] = new]
           /\ first' = [first EXCEPT ![p] = (new.count = 1)]
    /\ Goto(p, "counted")
    /\ UNCHANGED <<name, is_initialized, user_defined, config_file, handle, faults>>

\* Mutation: the flag is not looked at.
CheckFlagIgnored(p) ==
    /\ pc[p] = "counted"
    /\ Goto(p, IF first[p] THEN "init" ELSE "wait_init")
    /\ UNCHANGED <<name, shared, config_file, handle, first, faults>>

\* The flag is read again, after the increment has returned.
CheckFlag(p) ==
    /\ pc[p] = "counted"
    /\ Goto(p, IF num_procs[handle[p]].flag THEN "wait_post"
               ELSE IF first[p] THEN "init" ELSE "wait_init")
    /\ UNCHANGED <<name, shared, config_file, handle, first, faults>>

\* Once the old segment is unlinked, unmap it, close it and start over.  The
\* count this process added to the dying segment is not taken back.
WaitPost(p) ==
    /\ pc[p] = "wait_post"
    /\ num_procs[handle[p]].post
    /\ handle' = [handle EXCEPT ![p] = NoObj]
    /\ Goto(p, "retry")
    /\ UNCHANGED <<name, shared, config_file, first, faults>>

\* The global initializer fills in the segment and loads the configuration.
InitConfig(p) ==
    /\ pc[p] = "init"
    /\ user_defined' = [user_defined EXCEPT ![handle[p]] = ReadConfiguration(config_file)]
    /\ Goto(p, "publish")
    /\ UNCHANGED <<name, num_procs, is_initialized, config_file, handle, first, faults>>

Publish(p) ==
    /\ pc[p] = "publish"
    /\ is_initialized' = [is_initialized EXCEPT ![handle[p]] = TRUE]
    /\ Goto(p, "wait_init")
    /\ UNCHANGED <<name, num_procs, user_defined, config_file, handle, first, faults>>

\* Mutation: the read of is_initialized is hoisted out of the loop, so that only
\* the process that has set it itself gets on.
WaitInitHoisted(p) ==
    /\ pc[p] = "wait_init"
    /\ IF first[p] THEN Goto(p, "up") ELSE UNCHANGED pc
    /\ UNCHANGED <<name, shared, config_file, handle, first, faults>>

WaitInit(p) ==
    /\ pc[p] = "wait_init"
    /\ is_initialized[handle[p]]
    /\ Goto(p, "up")
    /\ UNCHANGED <<name, shared, config_file, handle, first, faults>>

\* The next call after an error: handle and ptr are still set, so
\* msh_InitializeSharedInfo skips both of its blocks and initialization ends.
Resume(p) ==
    /\ pc[p] = "failed"
    /\ Goto(p, "up")
    /\ UNCHANGED <<name, shared, config_file, handle, first, faults>>

\* ... and where nothing was mapped, the handle is not opened again but mapped
\* now, whatever has become of its object in the meantime.
Remap(p) ==
    /\ pc[p] = "unmapped"
    /\ Goto(p, "opened")
    /\ UNCHANGED <<name, shared, config_file, handle, first, faults>>

------------------------------------------------------------------------------
(* Configuration commands of an initialized process.                       *)

\* msh_Config stores the new value in the shared segment only.
SetConfig(p, c) ==
    /\ pc[p] = "up"
    /\ user_defined' = [user_defined EXCEPT ![handle[p]] = c]
    /\ UNCHANGED <<name, num_procs, is_initialized, config_file, handle, first, pc, faults>>

\* The RESET directive restores the defaults and saves them at once.
ResetConfig(p) ==
    /\ pc[p] = "up"
    /\ user_defined' = [user_defined EXCEPT ![handle[p]] = DefaultConfig]
    /\ config_file' \in WriteConfiguration(config_file, DefaultConfig)
    /\ UNCHANGED <<name, num_procs, is_initialized, handle, first, pc, faults>>

------------------------------------------------------------------------------
(* msh_OnExit                                                              *)

Close(p) == handle' = [handle EXCEPT ![p] = NoObj]

\* Count this process out.  The one whose decrement raises the flag goes on to
\* save and unlink, every other one unmaps and closes the segment.
Decrement(p) ==
    /\ pc[p] \in {"up", "failed"}
    /\ LET old == num_procs[handle[p]]
           new == DecrementCounter(old, TRUE)
       IN  /\ num_procs' = [num_procs EXCEPT ![handle[p]] = new]
           /\ IF RaisedFlag(old, new)
              THEN Goto(p, "write_config") /\ UNCHANGED handle
              ELSE Goto(p, "out") /\ Close(p)
    /\ UNCHANGED <<name, is_initialized, user_defined, config_file, first, faults>>

\* Nothing is mapped: there is only the handle to close.
CloseUnmapped(p) ==
    /\ pc[p] = "unmapped"
    /\ Goto(p, "out")
    /\ Close(p)
    /\ UNCHANGED <<name, shared, config_file, first, faults>>

SaveConfig(p) ==
    /\ pc[p] = "write_config"
    /\ config_file' \in WriteConfiguration(config_file, user_defined[handle[p]])
    /\ Goto(p, "unlink")
    /\ UNCHANGED <<name, shared, handle, first, faults>>

\* shm_unlink takes the name away from whatever object has it now.
Unlink(p) ==
    /\ pc[p] = "unlink"
    /\ name # NoObj
    /\ name' = NoObj
    /\ Goto(p, "post")
    /\ UNCHANGED <<shared, config_file, handle, first, faults>>

\* Mutation: nobody is told that the segment is unlinked.
PostMissing(p) ==
    /\ pc[p] = "post"
    /\ Goto(p, "out")
    /\ Close(p)
    /\ UNCHANGED <<name, shared, config_file, first, faults>>

Post(p) ==
    /\ pc[p] = "post"
    /\ num_procs' = [num_procs EXCEPT ![handle[p]] = SetCounterPost(@, TRUE)]
    /\ Goto(p, "out")
    /\ Close(p)
    /\ UNCHANGED <<name, is_initialized, user_defined, config_file, first, faults>>

------------------------------------------------------------------------------
(* Faults.  A failed system call ends the call with an error; a crash is   *)
(* the process being killed, which runs no exit hook but closes its files. *)

Fail(p) == failures < MaxFailures /\ failures' = failures + 1 /\ UNCHANGED crashes

\* shm_open failed in the retry, or ftruncate or mmap failed, which leaves the
\* handle as it is.
FailOpen(p) ==
    /\ Fail(p)
    /\ \/ pc[p] = "retry" /\ Goto(p, "out")
       \/ pc[p] = "opened" /\ Goto(p, "unmapped")
    /\ UNCHANGED <<name, shared, config_file, handle, first>>

\* Opening, reading or closing the configuration file failed: the defaults are
\* in place and is_initialized is not set.
FailInitConfig(p) ==
    /\ pc[p] = "init"
    /\ Fail(p)
    /\ user_defined' = [user_defined EXCEPT ![handle[p]] = DefaultConfig]
    /\ Goto(p, "failed")
    /\ UNCHANGED <<name, num_procs, is_initialized, config_file, handle, first>>

\* Saving the configuration or unlinking failed: the flag stays raised.
FailExit(p) ==
    /\ pc[p] \in {"write_config", "unlink"}
    /\ Fail(p)
    /\ Goto(p, "failed")
    /\ UNCHANGED <<name, shared, config_file, handle, first>>

Crash(p) ==
    /\ ~Detached(p)
    /\ crashes < MaxCrashes
    /\ crashes' = crashes + 1
    /\ Goto(p, "out")
    /\ Close(p)
    /\ UNCHANGED <<name, shared, config_file, first, failures>>

------------------------------------------------------------------------------
Step(p) ==
    \/ Increment(p) \/ CheckFlag(p) \/ WaitPost(p)
    \/ InitConfig(p) \/ Publish(p) \/ WaitInit(p)
    \/ SaveConfig(p) \/ Unlink(p) \/ Post(p)

User(p) ==
    \/ Open(p) \/ Resume(p) \/ Remap(p) \/ Decrement(p) \/ CloseUnmapped(p)
    \/ (\E c \in Config : SetConfig(p, c)) \/ ResetConfig(p)

Fault(p) == FailOpen(p) \/ FailInitConfig(p) \/ FailExit(p) \/ Crash(p)

Next == \E p \in Proc : Step(p) \/ User(p) \/ Fault(p)

Spec == Init /\ [][Next]_vars

\* A process inside a call keeps running; when users make calls, and whether
\* they ever detach, is left open.
Reopen(p) == pc[p] = "retry" /\ Open(p)

Fairness == \A p \in Proc : WF_vars(Step(p)) /\ WF_vars(Reopen(p))

FairSpec == Spec /\ Fairness
------------------------------------------------------------------------------
(* Properties.                                                             *)

\* Processes whose increment stands and has not been taken back.
Counted == {"counted", "wait_post", "init", "publish", "wait_init", "up", "failed"}

\* Processes that use the segment, or are about to unlink it.
Live == {"init", "publish", "wait_init", "up", "failed", "write_config", "unlink"}

CountedOn(o) == {p \in Proc : pc[p] \in Counted /\ handle[p] = o}

(* Every process that uses the shared info segment, the last one on its    *)
(* way out included, uses the object that bears the name: the retry loop   *)
(* of msh_InitializeSharedInfo never leaves two groups of processes on     *)
(* different segments, and shm_unlink never removes a segment that         *)
(* somebody has attached to in the meantime.                               *)
SameSharedInfo == \A p \in Proc : pc[p] \in Live => name = handle[p]

(* While a process fills in the segment as its global initializer no other *)
(* process initializes or uses that segment: the increment that returns 1  *)
(* is unique among those that count (mshinit.c:181).                       *)
OneInitializer ==
    \A p, q \in Proc :
        /\ p # q
        /\ pc[p] \in {"init", "publish"}
        /\ handle[p] = handle[q]
        => pc[q] \in {"opened", "unmapped", "counted", "wait_post", "wait_init"}

(* The last one out works alone: while it saves the configuration and      *)
(* unlinks the segment no other process uses any segment, so nobody reads  *)
(* or writes the configuration file at the same time.                      *)
LastOneOutAlone ==
    \A p, q \in Proc :
        p # q /\ pc[p] \in {"write_config", "unlink"} => pc[q] \notin Live

(* When every process has left in an orderly way nothing remains under the *)
(* segment's name.                                                         *)
NothingLeftBehind ==
    (\A p \in Proc : pc[p] = "out") /\ crashes = 0 /\ failures = 0 => name = NoObj

(* A segment counts as initialized only with a configuration in it, and a  *)
(* process that runs calls, or saves the configuration on its way out, has *)
(* never the zero-filled memory the segment started as, not even after a   *)
(* crash or a failed initialization.                                       *)
ConfigLoaded ==
    /\ \A o \in Obj : is_initialized[o] => user_defined[o] \in Config
    /\ \A p \in Proc : pc[p] \in {"publish", "up", "failed", "write_config", "unlink"}
          => user_defined[handle[p]] \in Config
    /\ config_file \in Seq(Config)

(* "overwrite with the persistent config" (mshinit.c:217): once            *)
(* msh_WriteConfiguration has saved the configuration in a file that has a *)
(* record, the next global initializer reads back what was saved.          *)
SavedConfigIsRead ==
    \A p \in Proc :
        pc[p] = "unlink" /\ config_file # <<>> =>
            ReadConfiguration(config_file) = user_defined[handle[p]]

\* No process was killed and no call failed halfway.
Undisturbed == crashes = 0 /\ failures = 0

(* A process that found the segment being unlinked does not spin forever:  *)
(* "busy wait for the unlinking operation to complete" (mshinit.c:166).    *)
(* It does if the unlinking process is killed or fails before it sets post.*)
UnlinkWaitEnds ==
    \A p \in Proc : pc[p] = "wait_post" ~> (pc[p] # "wait_post" \/ ~Undisturbed)

(* "busy wait until the shared memory is initialized to move on"           *)
(* (mshinit.c:199): a process that is not the initializer does not wait    *)
(* for it forever, unless the initializer is killed or fails.              *)
InitWaitEnds == \A p \in Proc : pc[p] = "wait_init" ~> (pc[p] = "up" \/ ~Undisturbed)

(***************************************************************************)
(* The inductive invariant behind SameSharedInfo and OneInitializer.       *)
(***************************************************************************)

\* The segment is in nobody's way: an unflagged segment that is open somewhere
\* still has the name.
UnflaggedIsNamed ==
    \A p \in Proc : handle[p] # NoObj =>
        num_procs[handle[p]].flag \/ name = handle[p]

\* Until the flag is raised the count is exact, but for crashed processes.
CountExact ==
    \A o \in Obj : ~num_procs[o].flag =>
        /\ Cardinality(CountedOn(o)) =< num_procs[o].count
        /\ num_procs[o].count =< Cardinality(CountedOn(o)) + crashes

\* The flag as each control point knows it.
FlagKnown ==
    \A p \in Proc :
        /\ pc[p] \in {"init", "publish", "wait_init"} => ~num_procs[handle[p]].flag
        /\ pc[p] \in {"wait_post", "write_config", "unlink", "post"}
              => num_procs[handle[p]].flag

\* At most one of the processes counted on an unflagged segment was the first.
FirstUnique ==
    \A p, q \in Proc :
        /\ pc[p] \in Counted /\ pc[q] \in Counted
        /\ handle[p] = handle[q]
        /\ ~num_procs[handle[p]].flag
        /\ first[p] /\ first[q]
        => p = q

FirstInitializes ==
    \A p \in Proc :
        /\ pc[p] \in {"init", "publish"} => first[p] /\ ~is_initialized[handle[p]]
        /\ pc[p] = "counted" /\ first[p] /\ ~num_procs[handle[p]].flag
              => ~is_initialized[handle[p]]
        /\ pc[p] \in {"up", "failed"} =>
              is_initialized[handle[p]] \/ first[p] \/ num_procs[handle[p]].flag

InitializedIsCounted ==
    \A o \in Obj : is_initialized[o] /\ ~num_procs[o].flag => num_procs[o].count > 0

\* Whoever is to take the name away: somebody who is counted or about to be, and
\* once the flag is up the last one out.
Holds(p) ==
    /\ handle[p] = name
    /\ IF num_procs[name].flag THEN pc[p] \in {"write_config", "unlink"}
       ELSE pc[p] \in Counted \cup {"opened"}

\* Unless something was killed or has failed, somebody is there to do so.
NamedIsHeld == Undisturbed /\ name # NoObj => \E p \in Proc : Holds(p)

(* What every step of msh_InitializeSharedInfo and msh_OnExit preserves:   *)
(* which processes the count stands for, what each of them knows of the    *)
(* flag, and that at most one was the first.                               *)
AttachInv ==
    /\ TypeOK
    /\ UnflaggedIsNamed
    /\ CountExact
    /\ FlagKnown
    /\ FirstUnique
    /\ FirstInitializes
    /\ InitializedIsCounted
    /\ SameSharedInfo
    /\ LastOneOutAlone
    /\ ConfigLoaded
=============================================================================
