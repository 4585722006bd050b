------------------------------- MODULE VarOps -------------------------------
(***************************************************************************)
(* Concurrent variable operations on one shared variable: the loops over   *)
(* its elements (UNARY_OP_RUNNER, BINARY_OP_RUNNER and CPY_FCN_DEF of      *)
(* mshvarops.c), with the compare-and-swap and exchange functions of       *)
(* mshlockfree.c, inside the segment lock of msh_VariableOperation.        *)
(*                                                                         *)
(* What the arithmetic computes is in IntOps; here a value is an integer,  *)
(* or for the floating point classes also NaN or the negative zero, which  *)
(* are where the two notions of equality the code uses come apart: the     *)
(* processor compares bits, the C loop compares values.                    *)
(***************************************************************************)
EXTENDS Integers

CONSTANTS
    Proc,           \* MATLAB processes
    Len,            \* number of elements
    Work,           \* operation of each process: [op, in]
    MaxOps,         \* bound on the operations each process runs
    Options,        \* options the processes may settle on, each for its operations
    Float,          \* is the class of the variable a floating point one?
    StartValue,     \* value of the elements at the start
    NaN, NegZero,   \* floating point values that are not integers here
    NoProc          \* nobody has the lock

\* The values of the class of the variable.
Value == IF Float THEN Int \cup {NaN, NegZero} ELSE Int

ASSUME VarOpsAssumption ==
    /\ Len \in Nat /\ Len > 0
    /\ MaxOps \in Nat
    /\ Options \subseteq [Proc -> SUBSET {"sync", "atomic"}]
    /\ Float \in BOOLEAN
    /\ NaN \notin Int /\ NegZero \notin Int /\ NaN # NegZero
    /\ StartValue \in Value
    /\ \A p \in Proc : Work[p].op \in {"cpy", "neg", "add"} /\ Work[p].in \in Value
    /\ NoProc \notin Proc

Elem == 1 .. Len

\* Options with which the operations are to be synchronous: all processes lock, or
\* all that read an element before they write it use compare-and-swap.
Synchronous(o) ==
    \/ \A p \in Proc : "sync" \in o[p]
    \/ \A p \in Proc : "atomic" \in o[p] \/ Work[p].op = "cpy"

VARIABLES
    data,           \* the elements in shared memory
    owner,          \* process that has the lock of the segment
    pc,             \* idle, at the lock, reading or writing an element
    opts,           \* options each process runs its operations with
    i,              \* element the loop is at
    old_val,        \* value the loop has read
    left            \* operations each process may still start

vars == <<data, owner, pc, opts, i, old_val, left>>

Init ==
    /\ data = [e \in Elem |-> StartValue]
    /\ owner = NoProc
    /\ pc = [p \in Proc |-> "idle"]
    /\ opts \in Options
    /\ i = [p \in Proc |-> 1]
    /\ old_val = [p \in Proc |-> StartValue]
    /\ left = [p \in Proc |-> MaxOps]

------------------------------------------------------------------------------
(* Values                                                                  *)

\* a == b in C.
Equal(a, b) ==
    LET Num(x) == IF x = NegZero THEN 0 ELSE x
    IN  a # NaN /\ Num(a) = Num(b)

Neg(v) ==
    IF ~Float THEN -v
    ELSE IF v = NaN THEN NaN
    ELSE IF v = NegZero THEN 0
    ELSE IF v = 0 THEN NegZero
    ELSE -v

Add(v, in) ==
    IF NaN \in {v, in} THEN NaN
    ELSE IF v = NegZero THEN in
    ELSE IF in = NegZero THEN v
    ELSE v + in

Result(p, v) ==
    CASE Work[p].op = "cpy" -> Work[p].in
      [] Work[p].op = "neg" -> Neg(v)
      [] Work[p].op = "add" -> Add(v, Work[p].in)

------------------------------------------------------------------------------
(* msh_VariableOperation                                                   *)

Begin(p) ==
    /\ pc[p] = "idle" /\ left[p] > 0
    /\ pc' = [pc EXCEPT ![p] = IF "sync" \in opts[p] THEN "lock" ELSE "read"]
    /\ i' = [i EXCEPT ![p] = 1]
    /\ left' = [left EXCEPT ![p] = @ - 1]
    /\ UNCHANGED <<data, owner, opts, old_val>>

\* Mutation: the lock is not waited for.
LockUnwaited(p) ==
    /\ pc[p] = "lock"
    /\ owner' = p
    /\ pc' = [pc EXCEPT ![p] = "read"]
    /\ UNCHANGED <<data, opts, i, old_val, left>>

Lock(p) ==
    /\ pc[p] = "lock" /\ owner = NoProc
    /\ owner' = p
    /\ pc' = [pc EXCEPT ![p] = "read"]
    /\ UNCHANGED <<data, opts, i, old_val, left>>

\* The element is done: on to the next one, or out of the operation, giving back
\* the lock.
Advance(p) ==
    IF i[p] < Len
    THEN /\ i' = [i EXCEPT ![p] = @ + 1]
         /\ pc' = [pc EXCEPT ![p] = "read"]
         /\ UNCHANGED owner
    ELSE /\ pc' = [pc EXCEPT ![p] = "idle"]
         /\ owner' = IF "sync" \in opts[p] THEN NoProc ELSE owner
         /\ UNCHANGED i

\* Overwriting reads nothing.
Read(p) ==
    /\ pc[p] = "read" /\ Work[p].op # "cpy"
    /\ old_val' = [old_val EXCEPT ![p] = data[i[p]]]
    /\ pc' = [pc EXCEPT ![p] = "write"]
    /\ UNCHANGED <<data, owner, opts, i, left>>

\* A plain store of the result.
Write(p) ==
    /\ pc[p] = "write" /\ "atomic" \notin opts[p]
    /\ data' = [data EXCEPT ![i[p]] = Result(p, old_val[p])]
    /\ Advance(p)
    /\ UNCHANGED <<opts, old_val, left>>

\* An aligned store and an exchange both put the new value in at once.
AtomicSet(p) == data' = [data EXCEPT ![i[p]] = Result(p, @)]

\* The compare-and-swap of mshlockfree.c compares the bits, also of a floating
\* point value, with those that were read.
AtomicCompareSet(p) ==
    data' = IF data[i[p]] = old_val[p]
            THEN [data EXCEPT ![i[p]] = Result(p, old_val[p])] ELSE data

Overwrite(p) ==
    /\ pc[p] = "read" /\ Work[p].op = "cpy"
    /\ AtomicSet(p)
    /\ Advance(p)
    /\ UNCHANGED <<opts, old_val, left>>

\* Mutation: the loop does not look at what the compare-and-swap returned.
CompareSwapOnce(p) ==
    /\ pc[p] = "write" /\ "atomic" \in opts[p]
    /\ AtomicCompareSet(p)
    /\ Advance(p)
    /\ UNCHANGED <<opts, old_val, left>>

\* Mutation: the value is read once, before the loop.
CompareSwapStale(p) ==
    /\ pc[p] = "write" /\ "atomic" \in opts[p]
    /\ AtomicCompareSet(p)
    /\ \/ Equal(data[i[p]], old_val[p]) /\ Advance(p)
       \/ ~Equal(data[i[p]], old_val[p]) /\ UNCHANGED <<pc, i, owner>>
    /\ UNCHANGED <<opts, old_val, left>>

\* The new value is stored if the bits are those read; the loop ends if the value
\* that was found equals the one read.
CompareSwap(p) ==
    /\ pc[p] = "write" /\ "atomic" \in opts[p]
    /\ AtomicCompareSet(p)
    /\ \/ Equal(data[i[p]], old_val[p]) /\ Advance(p)
       \/ /\ ~Equal(data[i[p]], old_val[p])
          /\ pc' = [pc EXCEPT ![p] = "read"]
          /\ UNCHANGED <<i, owner>>
    /\ UNCHANGED <<opts, old_val, left>>

Step(p) == Lock(p) \/ Read(p) \/ Write(p) \/ Overwrite(p) \/ CompareSwap(p)

\* All the operations have been run.
Finished ==
    /\ \A p \in Proc : pc[p] = "idle" /\ left[p] = 0
    /\ UNCHANGED vars

Next == (\E p \in Proc : Begin(p) \/ Step(p)) \/ Finished

Spec == Init /\ [][Next]_vars

\* A process that is running an operation keeps running.
FairSpec == Spec /\ \A p \in Proc : WF_vars(Step(p))

------------------------------------------------------------------------------
(* Properties.                                                             *)

(* Types of the variables: the loops stay within the elements.             *)
TypeOK ==
    /\ data \in [Elem -> Value]
    /\ owner \in Proc \cup {NoProc}
    /\ pc \in [Proc -> {"idle", "lock", "read", "write"}]
    /\ opts \in Options
    /\ i \in [Proc -> Elem]
    /\ old_val \in [Proc -> Value]
    /\ left \in [Proc -> 0 .. MaxOps]

\* Where a process is fits its operation: it reads what it writes unless it
\* overwrites, and it locks only before the first element.
LoopsInStep ==
    \A p \in Proc :
        /\ pc[p] = "write" => Work[p].op # "cpy"
        /\ pc[p] = "lock" => i[p] = 1 /\ "sync" \in opts[p]

AllLock == \A p \in Proc : "sync" \in opts[p]

\* If all lock, the lock is with the process that is in its loop; up to where the
\* loop is, the elements have the results, from there on the values they had.
LockedLoop ==
    AllLock =>
        /\ \A p \in Proc : pc[p] \in {"read", "write"} <=> owner = p
        /\ \A p \in Proc : pc[p] = "write" => old_val[p] = data[i[p]]
        /\ owner = NoProc => \A e, f \in Elem : data[e] = data[f]
        /\ owner # NoProc =>
              \A e, f \in Elem :
                 /\ (e < i[owner] <=> f < i[owner]) => data[e] = data[f]
                 /\ e < i[owner] /\ f >= i[owner] => data[e] = Result(owner, data[f])

\* Element updates process p has finished.
Updates(p) ==
    LET started == (MaxOps - left[p]) * Len
    IN  IF pc[p] = "idle" THEN started ELSE started - Len + (i[p] - 1)

(* With the options that are to make them synchronous, the element updates *)
(* of all processes happen one at a time and none is lost: VarOps          *)
(* implements ElementUpdates.                                              *)
Atomic == INSTANCE ElementUpdates WITH count <- [p \in Proc |-> Updates(p)]
UpdatesAtomic == Atomic!Spec

(* If all run synchronously, an operation is seen on all the elements or   *)
(* on none: while nobody has the lock, elements that started equal are     *)
(* equal.                                                                  *)
WholeVariable ==
    (owner = NoProc /\ \A p \in Proc : "sync" \in opts[p])
        => \A e, f \in Elem : data[e] = data[f]

(* Every operation that is started returns.                                *)
OpsEnd == \A p \in Proc : pc[p] # "idle" ~> pc[p] = "idle"
=============================================================================
