# matshare: TLA+ models, checks and proofs

matshare is a MATLAB MEX library (C, `src/source/src`) that shares MATLAB variables
between MATLAB processes on one machine without copying. This directory models
its core in TLA+, checks the models with TLC on small instances, and proves their central
invariants and four refinements with TLAPS for instances of any size. The UNIX build is modelled (POSIX shared memory,
`lockf`); the `MSH_WIN` branches are not.

## 1. Inventory

| Part | State it keeps | Operations | What is hard about it |
|---|---|---|---|
| initialization and exit (`mshinit.c`) | shared info object and its name, `num_procs` (count, flag, post), `is_initialized`, handle per process | `msh_InitializeMatshare`, `msh_InitializeSharedInfo`, `msh_OnExit` | attaching and unlinking run without any lock; two busy waits; failures and kills in between |
| configuration (`mshinit.c`, `mshutils.c`, `matshare_.c`) | `user_defined`, the configuration file | load, save, set, reset | the file outlives the processes |
| lock-free counters (`mshlockfree.c`) | one word: packed count, flag, post; or a size; or a long | increment, decrement with flag, set post, bounded add, subtract, compare-and-set | several outcomes hang on the value *one* step of a retry loop returns |
| interprocess lock (`mshutils.c`) | `lockf` owner per file, `lock_level` per process | acquire, release, `msh_OnError`, lock/unlock directives | one level counter for all locks; errors in the middle of regions |
| segments (`mshsegments.c`) | shared doubly linked list by segment number, per-segment metadata, `procs_tracking`, local list per process | create, add, open, update, remove, detach, clear | list under the lock, counters not; numbers are reused |
| variables (`mshvariables.c`) | variable per segment, `is_used`, `procs_using`, workspace copies | create copy, clean, destroy | garbage collection races with use |
| commands (`matshare_.c`) | none of its own | `mexFunction`: share, fetch, clear, clean, lock, unlock, reset, config, varops, detach | every command starts with a clean-up of the segment list and ends with one of the variable list |
| local list and hash tables (`mshtable.c`, `mshsegments.c`) | doubly linked list, two chained hash tables | add, remove, place at end, find, resize | list and tables must agree after any history |
| array layout (`headers/opaque/mshheader.c`) | the bytes of a segment | size, copy, fetch | layout is computed twice, recursively |
| variable operations (`mshvarops.c`) | the elements of a shared variable | unary and binary element operations, overwrite; lock-free or synchronous | loops of compare-and-swap in several processes |
| integer arithmetic (`mshvarops.c`) | none | abs, add, sub, mul, div, rem, mod, neg, shifts, conversions for 8 classes | saturation decided on wrapped results |
| subscripts, size checks (`mshvarops.c`) | slices of one operation | `msh_ParseSubscriptStruct`, `msh_ParseIndices`, `msh_CheckValidInput`, `msh_CompareVariableSize` | index arithmetic over merged dimensions; the input is checked in one recursion and written in another |
| error utilities, name checks, hashing, MATLAB internals, `.m` wrappers, tests | — | — | — |

Interaction: every command enters through `mexFunction`, which initializes if needed
(SharedInfo), cleans the local segment list, runs the command, and cleans the variable list (Segments).
Segments uses the interprocess lock (ProcessLock) around every change of the shared list and
the counters (LockFreeCounter) outside of it; the lock itself is on the shared info object. A
variable operation locks the *segment* of its variable if it is synchronous (VarOps,
ProcessLock). An error anywhere runs `msh_OnError` and leaves the command.

The hazards the properties are aimed at are in `PROJECT.json`, each at its line.

## 2. Modules and how they correspond to the code

`PROJECT.json` ("map") gives the source lines of every definition. Definitions whose comment
begins with "Mutation:" are changed forms of the definition after them; each property is shown
to be violated when one of them takes its place.

**LockFreeCounter** – `LockFreeCounter_T` and its operations as functions from a counter to a
counter; the other modules take every call as one atomic step. `msh_DecrementCounter` raises
the flag in the same step in which the count reaches zero. `CountMod` is the width of the
30-bit count.

**LockFree**, **AtomicWords**, **LockFreeCalls** – why they may. `LockFree` has the loops of
`mshlockfree.c` as the steps other processes can come between: read, compare-and-swap, retry; the subtraction and
the counting of a long are single instructions. `AtomicWords` is the abstract specification: a
call takes effect at once, between its invocation and its return. `LockFreeCalls` has what both
share: what a call makes of a value, and the order in which callers make calls (nobody decrements what
it has not incremented, the size given back was reserved, by this process or another). A behaviour is about one word, of any
of the three kinds. `Memory` is the memory there is for segments: no reservation exceeds what is left of it, which
is what keeps the sum of `msh_AtomicAddSizeWithMax` from wrapping even if the limit is the largest `size_t`.
Sums over processes (`Total`) are cardinalities of sets of units, because those can be reasoned about.

**SharedInfo** – one action per step of `msh_InitializeSharedInfo`, `msh_InitializeMatshare`
and `msh_OnExit` that another process can observe; `pc` names the points between them. An object
is one incarnation of the shared memory object: it keeps its contents while it has a name or an
open handle and is then free for re-use, so the number of incarnations is unbounded. `FailOpen`,
`FailInitConfig`, `FailExit` are system calls that fail (at most `MaxFailures`), `Crash` is a killed
process (at most `MaxCrashes`), which keeps its count. The configuration is one opaque value and
the file a sequence of records, because `msh_WriteConfiguration` reads one record before it writes.

**ProcessLock** – `lockf` owners and `lock_level`. Callers are reduced to their shape: locked
regions (`BeginRegion`/`EndRegion`), lock and unlock directives, synchronous and asynchronous
variable operations, errors in the middle of each, detaching and crashing. A synchronous operation asks for
the lock of the segment of its variable or, if the variable leads to no segment, for `g_process_lock` (`InfoLock`).
`DetachLocked` says whether users detach between `matshare.lock` and `matshare.unlock`.

**Segments** – the shared list, the segments, and for each process its local list, its variables
and the copies in its workspace. A command is a walk over control points: clean segments,
then the command proper, then clean variables. Steps under the interprocess lock that only touch the list are
one action; every access to the counters, every unlink and every post is an action of its own.
Detaching (`msh_DetachSegment`) is a routine entered from six places with `ret` as the return point:
untrack, remove from the list if last, compare-and-swap of the counter, unlink, post. MATLAB's
workspace is external: `DropCopy` lets a process lose a copy at any time between its commands. `CreateFails` is
a system call of `msh_CreateSegmentWorker` that fails (at most `MaxFailures`): the reserved size is not given
back (`lost`), and after a failing `ftruncate` or `mmap` the new object stays under its name (`orphans`). Sizes
are counted in segments. Taking a node out of the shared list (`RemoveNode`) opens the neighbours that are not
open yet, as `msh_RemoveSegmentFromSharedList` does. The limit on the number of segments is shared state that `Config` changes at any time. The revision number is abstracted to the set of processes that have the
current one and whether it is still the initial one.

**SharedVariables** – the abstract specification of the shared list: one sequence of variables, a limit, and
the processes that take themselves to be up to date. A variable is shared at the end of the sequence and within the limit, and cleared
from anywhere; either leaves nobody up to date. `Segments` implements it, with the sequence that the links
lead along (`SharedList`) for the variables.

**SegmentList**, **SegmentIndex** – the local list with its links, and both hash tables as
arrays of chains with the real hash of segment numbers, arbitrary constants for hashes of names, and
resizing. A resize puts the nodes of the old chains, one chain after the other, into the new ones (`Keep`).
`SegmentIndex` is the abstract specification: a sequence of segments, looked up by
number and by name. `SegmentList` implements it.

**VarOps**, **ElementUpdates** – variable operations of several processes on one variable, element
by element: read, compute, write (plain) or compare-and-swap (atomic), under the lock of the segment if
synchronous. Each process has its own options, the defaults changed by the options of the call; `Synchronous`
says which choices of options make the operations of all of them synchronous. `ElementUpdates` is the abstract specification: each step applies one operation to one
element at once. Values are integers, or, with `Float`, also NaN and negative zero, as far as `neg` and
`add` produce them.

**IntOps** – all integer operations and conversions of `mshvarops.c` for one signed and one
unsigned class of `W` bits, with C's wrapping where the code relies on it, against reference
definitions of MATLAB's saturating arithmetic. `Kind` chooses between the classes computed in
`int`, those computed in their own width, and the 64-bit ones, which multiply by halves; `OverflowWraps` says whether
signed overflow wraps (MATLAB's mex flags contain `-fwrapv` for gcc). Powers of two are a recursive function
(`Pow2`), for the proofs. An operation whose input is a double scalar converts the element to double, computes and
converts the result back, as `BINARY_OP_RUNNER` does. Singles and doubles are whole numbers of `Unit`s with `SingleBits` and
`DoubleBits` significant bits, and each floating-point operation rounds to nearest, ties to even (`RoundTo`); so do
the limit of the class when it is compared with an input (`FromFloat`) and the addition of one half. A cast out of
range may give any value (`Cast`). Unlike a shift by an integer, which shifts bits, `ars` by a double divides and is rounded,
and `als` saturates.

**Subscripts** – one operation from its subscripts to its elements. One action per kind of level of the
subscript struct (`.`, `{}`, `()` before the end, last `()`), one for the check of the input, one for the
operation. A last `()` becomes slices as in `msh_ParseIndices`, with `size_t` wrapping at `SizeMod` and entries
that were allocated and never set as `Unset`; the operation becomes the sequence of element updates, each with the
element of the input it comes from. The reference is the list of elements MATLAB selects with the same subscripts
(`SelectedElem`). `phase = "undefined"` stands for undefined behaviour (a null pointer, an array left).
`SelectedUpdated` is for the subscripts that `Sliceable` describes; the four kinds it leaves out are
those for which `msh_ParseIndices` does not give the slices MATLAB means (section 3). `WithinVariable` leaves out
only the first of them, where starts stay unset (`StartsSet`), and index 0.

**SharedLayout** – `msh_FindSharedSize`, `msh_CopyVariable` and `msh_FetchVariable` over abstract
arrays (full, sparse, cell, struct), nested to any finite `Depth`. The copy yields the byte areas it writes, the fetch follows the
stored offsets. The recursions of the code are recursive functions over the arrays or the places of headers, its
loops recursive functions over a count.

**MC\*** – operators for the configurations: symmetry sets, views, work lists, the arrays of
SharedLayout. **\*Proofs** – theorems.

## 3. Runs

Passing runs, with deadlock checked unless noted:

| Run | Instance | Shows |
|---|---|---|
| `shared_info` | 2 processes, 3 objects, 1 crash, 1 failure, fair | no two processes use different shared info segments; one initializer; the last one out is alone; nothing is left behind; nobody runs on an unloaded configuration; as long as nobody has failed or crashed, both busy waits end. Deadlock is not checked: after a failure processes may wait for ever (see below) |
| `process_lock` | 3 processes, 2 segments, 2 levels | locked regions exclude each other; level and lock go together; synchronous operations on a segment exclude each other outside `matshare.lock`. Nobody detaches inside `matshare.lock` |
| `segments_gc` | 2 processes, 2 segments; share and fetch, with and without persistence, collection on | shared list intact, `procs_using` exact, an up-to-date process has the current list, workspace copies always point into a mapped segment |
| `segments_clear` | 2 processes, 2 objects, 2 numbers; share, clear one, clear all, clean, limit changed between 1 and 2, 1 failing creation | the segments implement `SharedVariables` under removals in any order, around the object a failed creation has left; the size is what the segments and the failed creations have reserved; when all are gone only that object is left |
| `segments_three` | 3 processes, 1 object, 2 numbers; share, fetch the latest, clear all, limit changed between 0 and 1 | a tracked segment keeps its name and number, `procs_tracking` is exact, a refused share gives everything back and the lock with it |
| `segment_list` | 4 nodes, 2 names, tables of initial size 2 | the list and tables implement `SegmentIndex` |
| `shared_layout` | all array classes, nested to depth 2, sizes around the alignment | nothing is written past the size computed, areas are disjoint, data and signatures aligned, what is fetched is what was shared |
| `int_ops` | 8 bits, significands of 9 and 10 bits; all pairs of operands, the second of the class or a double; floating-point inputs at and next to limits, whole numbers and halves | saturated sums, products, quotients; `rem`, `mod`; conversions to the nearest value |
| `var_ops` | 3 processes (add, neg, overwrite), 2 elements, 2 operations each; all synchronous, or all that read before they write atomic, with or without the lock | no update is lost; synchronous operations among themselves are one step each on the whole variable; operations end |
| `subscripts` | 4 matrices with 2 and 3 dimensions, 3 nested cells and structs; all lists of one and two subscripts over 13 lists and `:`, some of three and four, chains of up to four levels; 13 inputs | nothing is written outside the variable for indices from 1 on that set every start, which several runs behind a complete dimension, as in `A(:,[1 3])`, do not (`SubscriptsWithin.cfg`); the elements MATLAB selects are updated in its order, each from its own element of the input; operations on whole variables and on cells and structs reach every array in them and read only elements the input has |
| `lock_free` | 3 processes, one word of each kind, count modulo 4, `size_t` modulo 8, limits 4 and 7 | the loops implement atomic calls (refinement); count and size are exact and do not wrap; some call always ends |

One run ends in a violation, where the code and what is said of it part (the finding in `PROJECT.json`):

| Run | What happens |
|---|---|
| `segments_collect` | collection takes away a variable that another process has just fetched: the last decrement of `procs_using` and the removal are two steps |

`SharedInfoSafety.cfg` (MCSharedInfo) is the safety part of `shared_info` with three processes and four objects under symmetry, with
`TypeOK` and the inductive invariant `AttachInv` in addition; it passes.

The following configurations are not in the list of runs. Each reaches a violation with the module named,
shows a limit of the passing runs, and is kept to reproduce it (`tlc -config X.cfg M`):

| Configuration (module) | Property | What happens |
|---|---|---|
| `SharedInfoConfig.cfg` (MCSharedInfo) | `SavedConfigIsRead` | `msh_WriteConfiguration` reads one record and then writes behind it (mshutils.c:154); the next initializer reads the first record only, so a changed configuration is never loaded again |
| `SharedInfoFailedInit.cfg`, `SharedInfoFailedExit.cfg` (MCSharedInfo) | `InitWaitAlwaysEnds`, `UnlinkWaitAlwaysEnds` | after a failing configuration file or unlink the busy waits of other processes never end (mshinit.c:167, 200) |
| `ProcessLockError.cfg` (MCProcessLock) | `NoLockKept` | an error inside a synchronous operation leaves the lock of the segment taken: `msh_OnError` releases `g_process_lock`, whichever lock the level was for (mshinit.c:366), although the comment above says "set the process lock at a level where it can be released if needed" |
| `SubscriptsInputCovered.cfg` (MCSubscripts) | `InputCovered` | `msh_ParseIndices` returns a struct without `subs_struct`, so `msh_CheckInputSize` is not called for a last `()` (mshvarops.c:173, 528) and an input of another size is read past its end, although mshvarops.c:799 says "the sizes will already be checked" |
| `SubscriptsWithin.cfg` (MCSubscripts) | `WithinUnset` | the loop at the base skips the second run of `A(:,[1 3])` and never sets its start (mshvarops.c:505), so the operation writes at whatever offset the uninitialized entry of `start_idxs` holds; the reason for `StartsSet` in `WithinVariable` |
| `SubscriptsSubsetOnly.cfg` (MCSubscripts) | `SubsetOnly` | `A(1:2)` of an array with two rows updates four elements: a last list that is its whole dimension in order counts twice in the length of the slice (mshvarops.c:282). Likewise a last `:` behind an incomplete subscript is one dimension only (mshvarops.c:300), and a list of several behind all the dimensions, if they are complete, is not gone through |
| `ProcessLockSync.cfg` (MCProcessLock) | `SyncAlwaysExclusive` | inside `matshare.lock` a synchronous operation does not take the lock of its segment, as `lock_level` is already positive (mshutils.c:35) |
| `ProcessLockDetach.cfg` (MCProcessLock) | `RegionsExclusive` | detaching inside `matshare.lock` loses the lock with the file and keeps the level (mshinit.c:319); the reason for the assumption `~DetachLocked` of the proofs |
| `IntOpsProduct.cfg` (IntOps) | `ProductExact` | the 64-bit product of MIN and 1 is -MAX (mshvarops.c:1648); `SaturatingProducts` leaves the operand MIN out for that function |
| `IntOpsConversion.cfg` (IntOps) | `ConversionsSaturate` | significands shorter than the class, as for 64 bits (and for 32 bits and singles): the limit rounds up to MAX + 1, which passes `in_val > MAX`, and the cast overflows instead of saturating (mshvarops.c:1106) |
| `IntOpsRemainder.cfg` (IntOps) | `RemaindersExact` | MIN rem or mod -1 traps in the classes that are not promoted (mshvarops.c:1793); `int_ops` has the promoted ones |
| `VarOpsNaN.cfg`, `VarOpsNegZero.cfg` (MCVarOps) | `OpsEnd`, `UpdatesAtomic` | the atomic loop on an element that is NaN never ends, and one that meets 0 becoming -0 loses its update: the swap compares bits and the loop compares values (mshvarops.c:1375); `var_ops` has integers |

**Bounds.** In `shared_info` a process that leaves and attaches again meets the object it left, the next one
and, after a crash, one that nobody will ever unlink; with objects recycled, one more than processes
can hold never runs out. The third process (one leaves, one re-creates, one holds on to the old object) is in
`SharedInfoSafety.cfg`, and any number in the proofs. `segments_three` needs three processes for the race between the last
tracker's decision, its compare-and-swap and an opening process, and has two numbers for one
object so that a number is re-used as well as left; the limit 0 makes the refusal happen with one
object. Two objects with two processes suffice for lists with a neighbour on either side, and
`SegNumMax` = 1 makes numbers wrap after two creations. Lists of length three, as in a removal
with both neighbours, occur for the local list (`segment_list`, four nodes), not for the shared one.
In `segment_list` numbers and names collide, part in a larger table, and collide again. In `int_ops` eight bits are all the values
of the smallest class. The integer functions are the same macros for the wider classes; the functions by
halves are checked with halves of four bits. Conversions are not the same for all widths, as they depend on which integers a
floating-point number can hold: significands of 9 and 10 bits are to 8 bits what those of 24 and 53 are to 8 and 16 bits. For
the 32-bit classes only what is said of doubles applies (`DoublesSaturate`), for the 64-bit ones neither; significands of 5 and 6 bits
stand for those (`IntOpsConversion.cfg`). In `subscripts` two and three dimensions of two and three elements
are enough for a merged dimension in front of, behind and around an incomplete one, for fewer and for more
subscripts than dimensions, and for lists that are complete, in runs, reversed, repeated, empty or out of range. In `lock_free`
`CountMod` = 4 is the first width that holds three processes, and the larger limit is the largest size. `MaxOps`, `MaxLevel`, `MaxCrashes`, `MaxFailures`,
`Memory` and `MaxSharedSize` are the named bounds on counters.

**Symmetry** is over processes and objects, in safety runs only. **VIEW**s hide what no step reads before it
is overwritten: the contents of objects that are free (they are reset on creation) and the command of a
process whose remaining steps do not depend on it.

**Fairness.** A process inside a call keeps taking steps (weak fairness of each process's next
step in `SharedInfo`, `VarOps` and `LockFree`): the code inside a call has no wait other than its busy waits
and `lockf`. Nothing is assumed of users: that they make a call, detach or give back a lock is
never fair. For the lock, weak fairness is enough in `var_ops` because `MaxOps` bounds the
operations; `lockf` itself promises no order. The loops of `mshlockfree.c` are lock-free and not wait-free: `SomeCallEnds`
says that some call ends, and a single process may retry for ever while others make calls.

## 4. Proofs

All theorems hold for every value of the constants that satisfies the assumption of the module, which the
runs evaluate too: finitely many processes, fewer than the 30-bit counts can hold, special values that are
different from real ones. `PROJECT.json` lists the theorems; in the `*Proofs` modules a lemma takes an action, or a few alike, and one
invariant, and the theorem puts them together.

| Module | Proves | From |
|---|---|---|
| `SharedInfoProofs` | `TypeOK`, `SameSharedInfo`, `OneInitializer`, `LastOneOutAlone`, `ConfigLoaded`, `NothingLeftBehind` | `AttachInv`; `NamedIsHeld` for the last one |
| `ProcessLockProofs` | `RegionsExclusive`, `LevelIsLock`, `SyncExclusive`, if users do not detach while locked (`~DetachLocked`) | `LockInv` |
| `LockFreeProofs` | `AtomicCalls` (LockFree implements AtomicWords), `WordExact` | `ControlInv`, `ExactInv` |
| `VarOpsProofs` | `TypeOK`, `WholeVariable`, `UpdatesAtomic` (VarOps implements ElementUpdates) | `ControlInv`, `LockedInv` |
| `SegmentListProofs` | `ListLinked`, `LookupExact` (SegmentList implements SegmentIndex), `InItsTables` | `ListInv`, `TableInv` |
| `IntOpsProofs` | `SaturatingSums`, `SaturatingProducts`, `RoundedQuotients`, `RemaindersExact`, `ConversionsSaturate` | `ValueInv` |
| `SharedLayoutProofs` | `WithinSegment`, `AreasDisjoint`, `DataAligned`, `FetchedIsShared` | `Shared` |
| `SegmentsProofs` | `LockReturned`, `TypeOK`, `TrackedIsPinned`, `TrackingExact`, `CopiesAreMapped`, `SharedListIntact`, `NoSegmentLeft`, `UsingExact`, `SizeAccounted`, `UpToDateIsCurrent`, `ListInOrder` (Segments implements SharedVariables) | `LockInv`, `LocalInv`, `SegmentsInv`, `UsingInv`, `SizeInv`, `CurrentInv` |

**SharedInfo.** `Cardinality(Proc) + MaxCrashes < CountMod` keeps the count from overflowing.
`SameSharedInfo` is not inductive: that a process on an
unflagged object is on the named one has to be known (`UnflaggedIsNamed`), for which the count of
an object must be exactly the processes that stand counted on it plus the crashed ones
(`CountExact`), so that the flag is raised only when nobody is left; a flag that a process
has read as lowered stays lowered while it is counted (`FlagKnown`); and only one process
has seen the count become one (`FirstUnique`, `FirstInitializes`, `InitializedIsCounted`). `AttachInv`
is their conjunction; `SharedInfoSafety.cfg` checks it with TLC too. For `NothingLeftBehind` one needs besides that,
as long as nobody has crashed or failed, a name always has a process that will take it away (`NamedIsHeld`).

**ProcessLock.** `LockInv` says which lock a positive level stands for: the first lock a
process asked for.

**LockFree.** `ControlInv` says what a process at each point of a loop knows of its call. With it a swap that hits is the
abstract call, because a word that equals what was read makes the successor computed from the old value the
successor of the present one; that the word may have changed and come back in between (ABA) does no harm. A refusal is the abstract call at its last read. `WordExact` is an invariant of words and
callers together: a caller gives back only what it has (`ClientsInStep`), so counts stay below `CountMod` and
sizes below `Memory`, and neither wraps.

**VarOps.** `LockedInv` says that the process with the lock is the only one in its loop where all lock. The
refinement assumes that every choice of options is safe for the operations (`SafeOptions`): all lock, or, for a
class of integers, all that read before they write use the compare-and-swap. For floating point it needs the lock: the swaps are not atomic updates there (`VarOpsNegZero.cfg`).

**SegmentList.** `ListInv` says that the links of the nodes are those of one sequence without repetitions
(`Chained`). That the walk along the links is that sequence is induction over its length; the
library's induction theorems cannot be used, so the argument takes the least place at which the two differ
(`LeastNumber`, from the well-foundedness of the numbers). `TableInv` says that each table holds every listed
(and, for names, named) node once, in the chain of its key, and nothing else (`Hashed`). That is inductive, and
gives the look-up by number. For the look-up by name the order counts: adding appends to
one chain and removing takes one node out of it, and a resize keeps the order of the nodes of one name because
they were all in one of the old chains. What filtering, flattening and removing make of a sequence are inductions
over the sequence, by the least-number argument again. `InItsTables` follows: `msh_RemoveSegmentFromTable`
always finds the node it looks for.

**IntOps.** For every even width. Only that operands are values of their class (`ValueInv`) is an invariant of steps;
each property is then a fact about any two operands, one lemma per function of `mshvarops.c`. What is said of a double
scalar assumes that a double holds every value of the class (`W < DoubleBits`, in `ByDouble`): then sums, remainders and products
within the class are not rounded, and a rounded quotient lies on the same side of a half as the exact one. `IntegersAreNearest` (conversions of
integers) holds for every width, `DoublesAreNearest` for `W < DoubleBits`, `ConversionsAreNearest` (all of `ConversionsSaturate`) for `W < SingleBits`: a
number longer than the class can represent its limits, so a comparison with the rounded limit decides as one with the exact one,
and adding one half is exact where it matters, except that the largest double below one half becomes 1. An unsigned
value above MAX is cast to a negative one of the signed class of the same width; the theorems say so. That `Pow2` is a function
with its equations, and that `2^(m+n) = 2^m * 2^n`, are again arguments by the least number, as is the quotient of two integers.
`SumsSaturate` assumes that sums are computed in `int` or that overflow wraps: without either the
code relies on undefined behaviour. `RemaindersAreExact` assumes `Kind = "small"`, as `MIN % -1` traps in
the other classes (`IntOpsRemainder.cfg`); for those `RemaindersExactUntrapped` proves the remainders other than that one.

**SharedLayout.** For any set of arrays that has the children of its members (`IsArray`: finitely deep, whatever the
number of dimensions, elements, fields and children), any sizes of header, word and signature and any alignment that the
signature divides. The invariant of the steps (`Shared`) only says that the segment holds the copy of one array;
the rest is about the recursive functions. That each satisfies the equation it is defined by has to be proved first, for
the loops by the least-number argument, for the nested arrays by the depth (`TreeInduction`); `FetchVariable` recurs along the
offsets that are stored, so that it has a value at all rests on every header being that of an array stored there (`Owned`).
By `TreeInduction` a copy is `Packed`: it is not longer than the size found, its areas lie behind one another (`Laid`), each
header and data block at a multiple of the alignment, with the signature in front (`InPlace`). This survives
the move to the place of a child only because that place is itself a multiple of the alignment; so the padding of the
length of each child is what the proof needs. As areas are not empty and do not overlap, the header or data at a
place is the one that was written there, and the fetched array is the shared one.

**Segments.** No single property is inductive, as the list, the counts, the names and the
local lists hold each other up. `SegmentsInv` has four parts:
- `LockInv`: at which control points a process has which level of the lock.
- `LocalInv`: a process's local list has no segment twice and is what it has open, except the one it is detaching;
  variables, uses and copies are within it.
- `TrackInv`: a name leads to the segment that has its number; a count without the flag is the number of processes that have the segment
  open; a flag means that one process is alone with the segment, between its compare-and-swap and the end of its unlink. This is what makes
  unlinking by number safe, and why an opening process never counts itself onto a segment that goes away.
- `ListInv`: the segments that are valid and named or open form one list through the
  links (`Linked`), all named and none flagged; who is about to enter the list or to be unlinked
  is not in it, and a walk stands on a segment of the list. Removing one splices its neighbours whichever process has them open.

`TrackInv` needs `LocalInv` (an opening process adds what it did not have), `ListInv` needs both, and the steps of
`TrackInv` that open a neighbour need `ListInv`; so they are proved together. On them rest three more:
`UsingInv` (every process in `used` counted once), `SizeInv` (named segments, those being
created or detached, and `lost` add up) and `CurrentInv`, for `UpToDateIsCurrent`. `CurrentInv` says at each
control point how the local list of a process with the current revision number differs from the shared list: by the stale
segments in front while it detaches those, by the new one at the end while it adds that, not at all otherwise; and of a process in the walk of `msh_UpdateAllSegments` that it has moved a
beginning of the shared list behind what it has yet to look at (`Walked`). It also needs that the initial
revision number means an empty list. TLC checked `SegmentsInv` and `CurrentInv` before they were proved, on
the instances of `segments_gc`, `segments_clear` and `segments_three` (up to 6.0 million states) and in part on one with three objects, which the runs do not have.

That Segments implements SharedVariables follows from `SegmentsInv`. A step that changes neither the links nor the number or name of a
listed segment keeps the sequence (`SettledList`, by the least place at which the lists before and after would differ); creating and
unlinking a name are such steps because no listed segment has that name. `AppendLinked` and `RemoveLinked` say which sequence
the links form after `msh_AddSegmentToSharedList` and `msh_RemoveSegmentFromSharedList`. The last process
to leave makes everyone up to date; by `NoSegmentLeft` the sequence is empty then.

Only model-checked:
- liveness (`InitWaitEnds`, `UnlinkWaitEnds`, `OpsEnd`, `SomeCallEnds`): fairness and ENABLED are outside the prover.
  The refinements are of the safety parts; AtomicWords and ElementUpdates state no fairness;
- Subscripts, which uses RECURSIVE operators and folds over sequences.

## 5. Not modelled

- The Windows branches; `mlerrorutils` (its effect, leaving the command after `msh_OnError`, is an
  action wherever it occurs); MATLAB wrappers, tests and build; the message of `status`.
- Argument parsing of the commands, parameters of `msh_Config` one by one, `msh_CheckVarname`,
  MurmurHash3 (SegmentList takes any hash values).
- Subscripts of an empty destination, where the stride is divided by zero (mshvarops.c:432); subscripts of an integer
  class, which `msh_ParseIndices` reads as doubles; the copy for an output argument; in VarOps floating point beyond NaN and -0.
- In IntOps NaN and infinite inputs, and shifts by less than 0, more than W, or a double that is not a whole number.
- `msh_OverwriteHeader`, `msh_CompareHeaderSize`, `msh_SetCounterFlag` and `msh_WaitSetCounter`, which nothing calls.
  `msh_DetachVariable` is the removal from `held` in Segments.
- Failing system calls in Segments other than those of a creation; `has_fatal_error`; failing `mlock`, which the code does not check.

## 6. Plan

Done first: the core in the order SharedInfo, ProcessLock, Segments (attachment, exclusion, circulation),
then the components they rest on (SegmentList, SharedLayout) and the operations on data (VarOps, IntOps).

Then the loops below the counters (LockFree, shown to implement AtomicWords), subscripts and input checks
(Subscripts), failing creations in Segments, and mixed options in VarOps.

Left of the model:
1. Segments: failing opens and unlinks, `has_fatal_error`, three segments in the shared list, liveness of
   opening a segment that is being unlinked.
2. ProcessLock composed with Segments: the one-action regions of Segments as an abstraction justified by
   `RegionsExclusive`.

Proved so far: section 4. Next: Subscripts, its recursive operators written as recursive functions, and
then the step from a slice to its elements.
