---------------------------- MODULE VarOpsProofs ----------------------------
(***************************************************************************)
(* Proofs about VarOps, for any number of processes, elements and          *)
(* operations, and for integer and floating point classes.                 *)
(***************************************************************************)
EXTENDS VarOps, TLAPS

(* What an operation makes of a value of the class is one again.           *)
LEMMA ResultType ==
    ASSUME NEW p \in Proc, NEW v \in Value
    PROVE  Result(p, v) \in Value
<1>1. Work[p].op \in {"cpy", "neg", "add"} /\ Work[p].in \in Value /\ Float \in BOOLEAN
      /\ NaN \notin Int /\ NegZero \notin Int
  BY VarOpsAssumption
<1>2. Neg(v) \in Value
  BY <1>1 DEF Neg, Value
<1>3. ASSUME NEW in \in Value PROVE Add(v, in) \in Value
  BY <1>1, <1>3 DEF Add, Value
<1> QED
  BY <1>1, <1>2, <1>3 DEF Result

(* The comparison of the C loop: a value equals itself unless it is NaN,   *)
(* and integers are equal only if their bits are.                          *)
LEMMA EqualFact ==
    ASSUME NEW a, NEW b
    PROVE  /\ ~Equal(a, a) => a = NaN
           /\ a \in Int /\ b \in Int => (Equal(a, b) <=> a = b)
BY VarOpsAssumption DEF Equal

(* An operation that reads leaves NaN as it is.                            *)
LEMMA NaNStays ==
    ASSUME NEW p \in Proc, Work[p].op # "cpy", NaN \in Value
    PROVE  Result(p, NaN) = NaN
<1>1. Work[p].op \in {"neg", "add"} /\ Float
  BY VarOpsAssumption DEF Value
<1> QED
  BY <1>1 DEF Result, Neg, Add

------------------------------------------------------------------------------
(* Every variable keeps its type, and a process is where its operation     *)
(* allows (TypeOK, LoopsInStep).                                           *)
ControlInv == TypeOK /\ LoopsInStep

(* What is about to be written was computed from what was read.            *)
LEMMA WriteReads ==
    ASSUME ControlInv, NEW p \in Proc, pc[p] = "write"
    PROVE  Work[p].op # "cpy"
BY DEF ControlInv, LoopsInStep

(* Going on to the next element, or ending the operation, keeps the types. *)
LEMMA AdvanceType ==
    ASSUME ControlInv, NEW p \in Proc, pc[p] \in {"read", "write"}, Advance(p)
    PROVE  /\ pc' \in [Proc -> {"idle", "lock", "read", "write"}]
           /\ pc'[p] \in {"idle", "read"} /\ \A q \in Proc \ {p} : pc'[q] = pc[q] /\ i'[q] = i[q]
           /\ owner' \in Proc \cup {NoProc}
           /\ i' \in [Proc -> Elem]
<1>1. i[p] \in 1 .. Len /\ Len \in Nat
  BY VarOpsAssumption DEF ControlInv, TypeOK, Elem
<1>2. CASE i[p] < Len
  <2>1. /\ i' = [i EXCEPT ![p] = i[p] + 1] /\ pc' = [pc EXCEPT ![p] = "read"] /\ owner' = owner
        /\ i[p] + 1 \in Elem
    BY <1>1, <1>2 DEF Advance, Elem
  <2> QED
    BY <2>1 DEF ControlInv, TypeOK
<1>3. CASE ~(i[p] < Len)
  <2>1. pc' = [pc EXCEPT ![p] = "idle"] /\ i' = i /\ (owner' = NoProc \/ owner' = owner)
    BY <1>3 DEF Advance
  <2> QED
    BY <2>1 DEF ControlInv, TypeOK
<1> QED
  BY <1>2, <1>3

(* Storing a result in an element keeps its type.                          *)
LEMMA StoreType ==
    ASSUME TypeOK, NEW p \in Proc, NEW v \in Value,
           data' = [data EXCEPT ![i[p]] = Result(p, v)] \/ data' = data
    PROVE  data' \in [Elem -> Value]
<1>1. Result(p, v) \in Value
  BY ResultType
<1> QED
  BY <1>1 DEF TypeOK

(* Every step keeps types and control.                                     *)
LEMMA ControlStep == ControlInv /\ [Next]_vars => ControlInv'
<1> SUFFICES ASSUME ControlInv, [Next]_vars PROVE ControlInv'
  OBVIOUS
<1>1. ASSUME NEW p \in Proc, Begin(p) PROVE ControlInv'
  <2>1. TypeOK'
    BY <1>1, VarOpsAssumption DEF Begin, ControlInv, TypeOK, Elem
  <2>2. LoopsInStep'
    BY <1>1 DEF Begin, ControlInv, TypeOK, LoopsInStep
  <2> QED
    BY <2>1, <2>2 DEF ControlInv
<1>2. ASSUME NEW p \in Proc, Lock(p) PROVE ControlInv'
  BY <1>2 DEF Lock, ControlInv, TypeOK, LoopsInStep
<1>3. ASSUME NEW p \in Proc, Read(p) PROVE ControlInv'
  BY <1>3 DEF Read, ControlInv, TypeOK, LoopsInStep
<1>4. ASSUME NEW p \in Proc, pc[p] \in {"read", "write"}, Advance(p), UNCHANGED <<opts, old_val, left>>,
             data' \in [Elem -> Value]
      PROVE  ControlInv'
  <2>1. TypeOK'
    BY <1>4, AdvanceType DEF ControlInv, TypeOK
  <2>2. LoopsInStep'
    BY <1>4, AdvanceType DEF ControlInv, LoopsInStep
  <2> QED
    BY <2>1, <2>2 DEF ControlInv
<1>5. ASSUME NEW p \in Proc, Write(p) PROVE ControlInv'
  BY <1>4, <1>5, StoreType DEF Write, ControlInv, TypeOK
<1>6. ASSUME NEW p \in Proc, Overwrite(p) PROVE ControlInv'
  <2>1. data[i[p]] \in Value /\ data' = [data EXCEPT ![i[p]] = Result(p, data[i[p]])]
    BY <1>6 DEF Overwrite, AtomicSet, ControlInv, TypeOK
  <2> QED
    BY <1>4, <1>6, <2>1, StoreType DEF Overwrite, ControlInv
<1>7. ASSUME NEW p \in Proc, CompareSwap(p) PROVE ControlInv'
  <2>1. data' \in [Elem -> Value]
    BY <1>7, StoreType DEF CompareSwap, AtomicCompareSet, ControlInv, TypeOK
  <2>2. CASE Advance(p)
    BY <1>4, <1>7, <2>1, <2>2 DEF CompareSwap
  <2>3. CASE pc' = [pc EXCEPT ![p] = "read"] /\ UNCHANGED <<i, owner>>
    BY <1>7, <2>1, <2>3 DEF CompareSwap, ControlInv, TypeOK, LoopsInStep
  <2> QED
    BY <1>7, <2>2, <2>3 DEF CompareSwap
<1>8. CASE UNCHANGED vars
  BY <1>8 DEF vars, ControlInv, TypeOK, LoopsInStep
<1> QED
  BY <1>1, <1>2, <1>3, <1>5, <1>6, <1>7, <1>8 DEF Next, Step, Finished

(* At first no operation is under way.                                     *)
LEMMA ControlInit == Init => ControlInv
BY VarOpsAssumption DEF Init, ControlInv, TypeOK, LoopsInStep, Elem

(* Types and control hold in every behaviour.                              *)
THEOREM TypeInvariant == Spec => []TypeOK
<1>1. ControlInv => TypeOK
  BY DEF ControlInv
<1> QED
  BY <1>1, ControlInit, ControlStep, PTL DEF Spec

------------------------------------------------------------------------------
(* The inductive invariant for the operations that lock (WholeVariable).   *)
LockedInv == ControlInv /\ LockedLoop

(* Where all lock and p is in its loop, an element that gets its result    *)
(* moves the border between results and old values by one, and after the   *)
(* last element the lock is given back over equal elements.                *)
LEMMA UpdateLocked ==
    ASSUME LockedInv, AllLock, NEW p \in Proc, pc[p] \in {"read", "write"}, Advance(p),
           UNCHANGED opts, data' = [data EXCEPT ![i[p]] = Result(p, data[i[p]])]
    PROVE  LockedLoop'
<1> DEFINE k == i[p]
           v == data[k]
<1>1. /\ owner = p /\ owner # NoProc /\ k \in Elem /\ k \in Int /\ Len \in Nat
      /\ \A e \in Elem : e \in Int /\ e =< Len
      /\ pc \in [Proc -> {"idle", "lock", "read", "write"}] /\ DOMAIN data = Elem
      /\ \A q \in Proc \ {p} : pc[q] \notin {"read", "write"}
  BY VarOpsAssumption DEF LockedInv, LockedLoop, ControlInv, TypeOK, Elem
<1>2. /\ \A e \in Elem : e < k => data[e] = Result(p, v)
      /\ \A e \in Elem : e >= k => data[e] = v
  <2>1. \A e \in Elem : (e < k <=> k < k) => data[e] = v
    BY <1>1 DEF LockedInv, LockedLoop
  <2>2. \A e \in Elem : e < k /\ k >= k => data[e] = Result(p, v)
    BY <1>1 DEF LockedInv, LockedLoop
  <2> QED
    BY <1>1, <2>1, <2>2
<1>3. /\ \A e \in Elem : e =< k => data'[e] = Result(p, v)
      /\ \A e \in Elem : e > k => data'[e] = v
  BY <1>1, <1>2
<1>4. /\ pc'[p] \in {"idle", "read"} /\ i' \in [Proc -> Elem]
      /\ \A q \in Proc \ {p} : pc'[q] = pc[q] /\ i'[q] = i[q]
  BY AdvanceType DEF LockedInv
<1>5. CASE k < Len
  <2>1. i'[p] = k + 1 /\ pc'[p] = "read" /\ owner' = p
    BY <1>1, <1>5 DEF Advance, LockedInv, ControlInv, TypeOK
  <2>2. \A e \in Elem : (e < k + 1 <=> e =< k) /\ (e >= k + 1 <=> e > k)
    BY <1>1
  <2>3. \A e, f \in Elem : /\ (e < k + 1 <=> f < k + 1) => data'[e] = data'[f]
                           /\ e < k + 1 /\ f >= k + 1 => data'[e] = Result(p, data'[f])
    BY <1>1, <1>3, <2>2
  <2>4. \A q \in Proc : pc'[q] \in {"read", "write"} <=> owner' = q
    BY <1>1, <1>4, <2>1
  <2>5. \A q \in Proc : pc'[q] # "write"
    BY <1>1, <1>4, <2>1
  <2> QED
    <3>1. owner' # NoProc =>
              \A e, f \in Elem :
                 /\ (e < i'[owner'] <=> f < i'[owner']) => data'[e] = data'[f]
                 /\ e < i'[owner'] /\ f >= i'[owner'] => data'[e] = Result(owner', data'[f])
      BY <2>1, <2>3
    <3> QED
      BY <1>1, <2>1, <2>4, <2>5, <3>1 DEF LockedLoop
<1>6. CASE ~(k < Len)
  <2>1. pc'[p] = "idle" /\ owner' = NoProc
    BY <1>1, <1>6 DEF Advance, AllLock, LockedInv, ControlInv, TypeOK
  <2>2. \A e \in Elem : e =< k
    BY <1>1, <1>6
  <2>3. \A e, f \in Elem : data'[e] = data'[f]
    BY <1>3, <2>2
  <2>4. \A q \in Proc : pc'[q] \notin {"read", "write"} /\ owner' # q
    BY <1>1, <1>4, <2>1, VarOpsAssumption
  <2> QED
    BY <2>1, <2>3, <2>4 DEF LockedLoop
<1> QED
  BY <1>5, <1>6

(* Where all lock, a compare-and-swap finds what was read; if the loop     *)
(* does not end all the same, the element is NaN and stays so.             *)
LEMMA SwapLocked ==
    ASSUME LockedInv, AllLock, NEW p \in Proc, CompareSwap(p)
    PROVE  /\ data' = [data EXCEPT ![i[p]] = Result(p, data[i[p]])]
           /\ \/ Advance(p)
              \/ data' = data /\ pc' = [pc EXCEPT ![p] = "read"] /\ UNCHANGED <<i, owner>>
<1>1. data[i[p]] = old_val[p] /\ i[p] \in Elem /\ data \in [Elem -> Value] /\ data[i[p]] \in Value
  BY DEF CompareSwap, LockedInv, LockedLoop, ControlInv, TypeOK
<1>2. data' = [data EXCEPT ![i[p]] = Result(p, data[i[p]])]
  BY <1>1 DEF CompareSwap, AtomicCompareSet
<1>3. CASE Equal(data[i[p]], old_val[p])
  BY <1>2, <1>3 DEF CompareSwap
<1>4. CASE ~Equal(data[i[p]], old_val[p])
  <2>1. data[i[p]] = NaN
    BY <1>1, <1>4, EqualFact
  <2>2. Result(p, NaN) = NaN
    <3>1. Work[p].op # "cpy" /\ NaN \in Value
      <4>1. pc[p] = "write"
        BY Zenon DEF CompareSwap
      <4> QED
        BY <1>1, <2>1, <4>1, WriteReads DEF LockedInv
    <3> QED
      BY <3>1, NaNStays
  <2>3. data' = data
    BY <1>1, <1>2, <2>1, <2>2
  <2> QED
    BY <1>2, <1>4, <2>3 DEF CompareSwap
<1> QED
  BY <1>3, <1>4

(* Every step keeps what the lock guarantees.                              *)
LEMMA LockedStep == LockedInv /\ [Next]_vars => LockedInv'
<1> SUFFICES ASSUME LockedInv, [Next]_vars PROVE LockedInv'
  OBVIOUS
<1>1. ControlInv'
  BY ControlStep DEF LockedInv
<1>2. UNCHANGED opts /\ (AllLock' <=> AllLock)
  <2>1. UNCHANGED opts
    BY DEF Next, Step, Begin, Lock, Read, Write, Overwrite, CompareSwap, Finished, vars
  <2> QED
    BY <2>1 DEF AllLock
<1>3. CASE ~AllLock
  BY <1>1, <1>2, <1>3 DEF LockedInv, LockedLoop
<1>4. CASE AllLock
  <2> USE <1>4
  <2>1. ASSUME NEW p \in Proc, Begin(p) PROVE LockedLoop'
    <3>1. /\ pc[p] = "idle" /\ pc'[p] = "lock" /\ owner # p /\ UNCHANGED <<data, owner, old_val>>
          /\ \A q \in Proc \ {p} : pc'[q] = pc[q] /\ i'[q] = i[q]
      BY <2>1 DEF Begin, AllLock, LockedInv, LockedLoop, ControlInv, TypeOK
    <3>2. owner # NoProc => i'[owner] = i[owner]
      BY <3>1 DEF LockedInv, ControlInv, TypeOK
    <3> QED
      BY <3>1, <3>2 DEF LockedInv, LockedLoop
  <2>2. ASSUME NEW p \in Proc, Lock(p) PROVE LockedLoop'
    <3>1. /\ pc'[p] = "read" /\ \A q \in Proc \ {p} : pc'[q] = pc[q]
          /\ owner = NoProc /\ owner' = p /\ i[p] = 1 /\ UNCHANGED <<data, i, old_val>>
      BY <2>2 DEF Lock, LockedInv, ControlInv, TypeOK, LoopsInStep
    <3>2. \A e \in Elem : ~(e < 1)
      BY VarOpsAssumption DEF Elem
    <3>3. \A e, f \in Elem : data[e] = data[f]
      BY <3>1 DEF LockedInv, LockedLoop
    <3>4. \A q \in Proc : pc[q] \notin {"read", "write"}
      BY <3>1, VarOpsAssumption DEF LockedInv, LockedLoop
    <3> QED
      BY <3>1, <3>2, <3>3, <3>4, VarOpsAssumption DEF LockedLoop
  <2>3. ASSUME NEW p \in Proc, Read(p) PROVE LockedLoop'
    <3>1. /\ pc[p] = "read" /\ pc'[p] = "write" /\ old_val'[p] = data[i[p]]
          /\ \A q \in Proc \ {p} : pc'[q] = pc[q] /\ old_val'[q] = old_val[q]
          /\ UNCHANGED <<data, owner, i>>
      BY <2>3 DEF Read, LockedInv, ControlInv, TypeOK
    <3> QED
      BY <3>1 DEF LockedInv, LockedLoop
  <2>4. ASSUME NEW p \in Proc, Write(p) PROVE LockedLoop'
    <3>1. data' = [data EXCEPT ![i[p]] = Result(p, data[i[p]])]
      BY <2>4 DEF Write, LockedInv, LockedLoop
    <3> QED
      BY <2>4, <3>1, UpdateLocked DEF Write
  <2>5. ASSUME NEW p \in Proc, Overwrite(p) PROVE LockedLoop'
    BY <2>5, UpdateLocked DEF Overwrite, AtomicSet
  <2>6. ASSUME NEW p \in Proc, CompareSwap(p) PROVE LockedLoop'
    <3>1. CASE Advance(p)
      BY <2>6, <3>1, SwapLocked, UpdateLocked DEF CompareSwap
    <3>2. CASE data' = data /\ pc' = [pc EXCEPT ![p] = "read"] /\ UNCHANGED <<i, owner>>
      <4>1. /\ pc[p] = "write" /\ pc'[p] = "read" /\ \A q \in Proc \ {p} : pc'[q] = pc[q]
            /\ UNCHANGED old_val
        BY <2>6, <3>2 DEF CompareSwap, LockedInv, ControlInv, TypeOK
      <4> QED
        BY <3>2, <4>1 DEF LockedInv, LockedLoop
    <3> QED
      BY <2>6, <3>1, <3>2, SwapLocked
  <2>7. ASSUME UNCHANGED vars PROVE LockedLoop'
    BY <2>7 DEF vars, LockedInv, LockedLoop
  <2>8. LockedLoop'
    BY <2>1, <2>2, <2>3, <2>4, <2>5, <2>6, <2>7 DEF Next, Step, Finished
  <2> QED
    BY <1>1, <2>8 DEF LockedInv
<1> QED
  BY <1>3, <1>4

(* At first nobody holds the lock.                                         *)
LEMMA LockedInit == Init => LockedInv
<1>1. Init => LockedLoop
  BY VarOpsAssumption DEF Init, LockedLoop
<1> QED
  BY <1>1, ControlInit DEF LockedInv

(* So it holds in every behaviour.                                         *)
LEMMA LockedInvariant == Spec => []LockedInv
BY LockedInit, LockedStep, PTL DEF Spec

(* If all lock, an operation is seen on all the elements or on none        *)
(* (WholeVariable), whatever the class and whatever the operations.        *)
THEOREM WholeVariableHolds == Spec => []WholeVariable
<1>1. LockedInv => WholeVariable
  BY DEF LockedInv, LockedLoop, AllLock, WholeVariable
<1> QED
  BY <1>1, LockedInvariant, PTL

------------------------------------------------------------------------------
(* The updates a process has finished (Updates) count up by one with every *)
(* element it is done with, and by nothing else.                           *)
LEMMA UpdatesFact ==
    ASSUME NEW a \in Nat, NEW n \in Nat
    PROVE  (a + 1) * n = a * n + n /\ a * n \in Nat
OBVIOUS

Counts == [p \in Proc |-> Updates(p)]

(* Beginning an operation updates no element.                              *)
LEMMA UpdatesBegin ==
    ASSUME ControlInv, NEW p \in Proc, Begin(p)
    PROVE  Counts' = Counts
<1>1. /\ pc[p] = "idle" /\ pc'[p] # "idle" /\ left[p] \in 0 .. MaxOps /\ left[p] > 0
      /\ left'[p] = left[p] - 1 /\ i'[p] = 1 /\ Len \in Nat /\ MaxOps \in Nat
      /\ \A q \in Proc \ {p} : pc'[q] = pc[q] /\ left'[q] = left[q] /\ i'[q] = i[q]
  BY VarOpsAssumption DEF Begin, ControlInv, TypeOK
<1>2. Updates(p)' = Updates(p)
  <2> DEFINE a == MaxOps - left[p]
  <2>1. a \in Nat /\ MaxOps - left'[p] = a + 1
    BY <1>1
  <2>2. Updates(p) = a * Len
    BY <1>1 DEF Updates
  <2>3. Updates(p)' = (a + 1) * Len - Len + (1 - 1)
    BY <1>1, <2>1 DEF Updates
  <2> HIDE DEF a
  <2>4. (a + 1) * Len = a * Len + Len /\ a * Len \in Nat
    BY <1>1, <2>1, UpdatesFact
  <2> QED
    BY <1>1, <2>2, <2>3, <2>4
<1>3. \A q \in Proc \ {p} : Updates(q)' = Updates(q)
  BY <1>1 DEF Updates
<1> QED
  BY <1>2, <1>3 DEF Counts

(* Going on to the next element is one update more.                        *)
LEMMA UpdatesAdvance ==
    ASSUME ControlInv, NEW p \in Proc, pc[p] \in {"read", "write"}, Advance(p), UNCHANGED left
    PROVE  Counts' = [Counts EXCEPT ![p] = Counts[p] + 1]
<1>1. /\ \A q \in Proc \ {p} : pc'[q] = pc[q] /\ i'[q] = i[q]
      /\ pc[p] # "idle" /\ i[p] \in 1 .. Len /\ Len \in Nat
      /\ left[p] \in 0 .. MaxOps /\ MaxOps \in Nat
  BY AdvanceType, VarOpsAssumption DEF ControlInv, TypeOK, Elem
<1>2. Updates(p)' = Updates(p) + 1
  <2> DEFINE started == (MaxOps - left[p]) * Len
  <2>1. started \in Nat
    <3>1. MaxOps - left[p] \in Nat
      BY <1>1
    <3> QED
      BY <1>1, <3>1, UpdatesFact
  <2>2. Updates(p) = started - Len + (i[p] - 1)
    BY <1>1 DEF Updates
  <2>3. CASE i[p] < Len
    <3>1. pc'[p] = "read" /\ i'[p] = i[p] + 1
      BY <2>3 DEF Advance, ControlInv, TypeOK
    <3>2. Updates(p)' = started - Len + (i'[p] - 1)
      BY <3>1 DEF Updates
    <3> HIDE DEF started
    <3> QED
      BY <1>1, <2>1, <2>2, <3>1, <3>2
  <2>4. CASE ~(i[p] < Len)
    <3>1. pc'[p] = "idle"
      BY <2>4 DEF Advance, ControlInv, TypeOK
    <3>2. Updates(p)' = started
      BY <3>1 DEF Updates
    <3> HIDE DEF started
    <3> QED
      BY <1>1, <2>1, <2>2, <2>4, <3>2
  <2> QED
    BY <2>3, <2>4
<1>3. \A q \in Proc \ {p} : Updates(q)' = Updates(q)
  BY <1>1 DEF Updates
<1> QED
  BY <1>2, <1>3 DEF Counts

(* A step that starts no operation and finishes no update leaves the       *)
(* counts alone.                                                           *)
LEMMA CountsSame ==
    ASSUME ControlInv, NEW p \in Proc, pc[p] # "idle", pc'[p] # "idle", UNCHANGED <<i, left>>,
           \A q \in Proc \ {p} : pc'[q] = pc[q]
    PROVE  Counts' = Counts
BY DEF Counts, Updates

(* Where the options make the operations synchronous (Synchronous), a      *)
(* value is written only over the one it was computed from.                *)
SafeOptions(o) ==
    \/ \A p \in Proc : "sync" \in o[p]
    \/ ~Float /\ \A p \in Proc : "atomic" \in o[p] \/ Work[p].op = "cpy"

(* An update that is finished is one update of ElementUpdates (Advance).   *)
LEMMA AdvanceIsUpdate ==
    ASSUME ControlInv, NEW p \in Proc, pc[p] \in {"read", "write"}, Advance(p), UNCHANGED left,
           data' = [data EXCEPT ![i[p]] = Result(p, data[i[p]])]
    PROVE  Atomic!Next
<1>1. Counts' = [Counts EXCEPT ![p] = Counts[p] + 1]
  BY UpdatesAdvance
<1>2. i[p] \in Elem
  BY DEF ControlInv, TypeOK
<1>3. Atomic!Update(p, i[p])
  BY <1>1 DEF Atomic!Update, Counts
<1> QED
  BY <1>2, <1>3 DEF Atomic!Next

(* Every step is an atomic update of an element, or changes neither the    *)
(* elements nor what the processes have been told.                         *)
LEMMA UpdateStep ==
    ASSUME LockedInv, SafeOptions(opts), [Next]_vars
    PROVE  Atomic!Next \/ UNCHANGED <<data, Counts>>
<1>1. ASSUME NEW p \in Proc, Begin(p) PROVE UNCHANGED <<data, Counts>>
  BY <1>1, UpdatesBegin DEF Begin, LockedInv
<1>2. ASSUME NEW p \in Proc, Lock(p) PROVE UNCHANGED <<data, Counts>>
  <2>1. pc[p] = "lock" /\ pc'[p] = "read" /\ \A q \in Proc \ {p} : pc'[q] = pc[q]
    BY <1>2 DEF Lock, LockedInv, ControlInv, TypeOK
  <2> QED
    BY <1>2, <2>1, CountsSame DEF Lock, LockedInv
<1>3. ASSUME NEW p \in Proc, Read(p) PROVE UNCHANGED <<data, Counts>>
  <2>1. pc[p] = "read" /\ pc'[p] = "write" /\ \A q \in Proc \ {p} : pc'[q] = pc[q]
    BY <1>3 DEF Read, LockedInv, ControlInv, TypeOK
  <2> QED
    BY <1>3, <2>1, CountsSame DEF Read, LockedInv
<1>4. ASSUME NEW p \in Proc, Write(p) PROVE Atomic!Next
  <2>1. "atomic" \notin opts[p] /\ Work[p].op # "cpy" /\ pc[p] = "write"
    BY <1>4, WriteReads, Zenon DEF Write, LockedInv
  <2>2. AllLock
    BY <2>1 DEF SafeOptions, AllLock
  <2>3. old_val[p] = data[i[p]]
    BY <2>1, <2>2 DEF LockedInv, LockedLoop
  <2> QED
    BY <1>4, <2>1, <2>3, AdvanceIsUpdate DEF Write, LockedInv
<1>5. ASSUME NEW p \in Proc, Overwrite(p) PROVE Atomic!Next
  BY <1>5, AdvanceIsUpdate DEF Overwrite, AtomicSet, LockedInv
<1>6. ASSUME NEW p \in Proc, CompareSwap(p) PROVE Atomic!Next \/ UNCHANGED <<data, Counts>>
  <2>1. pc[p] = "write" /\ UNCHANGED left
    BY <1>6, Zenon DEF CompareSwap
  <2>2. \/ Advance(p) /\ data' = [data EXCEPT ![i[p]] = Result(p, data[i[p]])]
        \/ data' = data /\ pc' = [pc EXCEPT ![p] = "read"] /\ UNCHANGED i
    <3>1. CASE AllLock
      BY <1>6, <3>1, SwapLocked
    <3>2. CASE ~AllLock
      <4>1. ~Float
        BY <3>2 DEF SafeOptions, AllLock
      <4>2. data[i[p]] \in Int /\ old_val[p] \in Int
        BY <4>1 DEF LockedInv, ControlInv, TypeOK, Value
      <4>3. Equal(data[i[p]], old_val[p]) <=> data[i[p]] = old_val[p]
        BY <4>2, EqualFact
      <4>4. CASE data[i[p]] = old_val[p]
        BY <1>6, <4>3, <4>4, Zenon DEF CompareSwap, AtomicCompareSet
      <4>5. CASE data[i[p]] # old_val[p]
        BY <1>6, <4>3, <4>5, Zenon DEF CompareSwap, AtomicCompareSet
      <4> QED
        BY <4>4, <4>5
    <3> QED
      BY <3>1, <3>2
  <2>3. CASE Advance(p) /\ data' = [data EXCEPT ![i[p]] = Result(p, data[i[p]])]
    BY <2>1, <2>3, AdvanceIsUpdate DEF LockedInv
  <2>4. CASE data' = data /\ pc' = [pc EXCEPT ![p] = "read"] /\ UNCHANGED i
    <3>1. pc'[p] = "read" /\ \A q \in Proc \ {p} : pc'[q] = pc[q]
      BY <2>4 DEF LockedInv, ControlInv, TypeOK
    <3> QED
      BY <2>1, <2>4, <3>1, CountsSame DEF LockedInv
  <2> QED
    BY <2>2, <2>3, <2>4
<1>7. ASSUME UNCHANGED vars PROVE UNCHANGED <<data, Counts>>
  BY <1>7 DEF vars, Counts, Updates
<1> QED
  BY <1>1, <1>2, <1>3, <1>4, <1>5, <1>6, <1>7 DEF Next, Step, Finished

(* At first no update is done.                                             *)
LEMMA UpdateInit == Init => Atomic!Init
<1> SUFFICES ASSUME Init PROVE Atomic!Init
  OBVIOUS
<1>1. \A p \in Proc : Updates(p) = 0
  <2>1. (MaxOps - MaxOps) * Len = 0
    BY VarOpsAssumption
  <2> QED
    BY <2>1 DEF Init, Updates
<1> QED
  BY <1>1 DEF Init, Atomic!Init

(* With options that make the operations synchronous, every element update *)
(* happens at one instant and none is lost (UpdatesAtomic): for integers   *)
(* with the lock or with compare-and-swap, for floating point values with  *)
(* the lock.                                                               *)
THEOREM UpdatesAtomicHolds ==
    ASSUME \A o \in Options : SafeOptions(o)
    PROVE  Spec => UpdatesAtomic
<1>1. Init => SafeOptions(opts)
  BY DEF Init
<1>2. LockedInv /\ SafeOptions(opts) /\ [Next]_vars => SafeOptions(opts)'
  <2> SUFFICES ASSUME LockedInv, SafeOptions(opts), [Next]_vars PROVE SafeOptions(opts)'
    OBVIOUS
  <2>1. UNCHANGED opts
    BY DEF Next, Step, Begin, Lock, Read, Write, Overwrite, CompareSwap, Finished, vars
  <2> QED
    BY <2>1 DEF SafeOptions
<1>3. LockedInv /\ SafeOptions(opts) /\ [Next]_vars => [Atomic!Next]_<<data, Counts>>
  BY UpdateStep
<1> QED
  BY <1>1, <1>2, <1>3, LockedInvariant, UpdateInit, PTL DEF Spec, UpdatesAtomic, Atomic!Spec, Counts
=============================================================================
