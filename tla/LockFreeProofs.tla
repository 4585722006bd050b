--------------------------- MODULE LockFreeProofs ---------------------------
(***************************************************************************)
(* Proofs about LockFree, for any number of processes, any width of the    *)
(* counter and of size_t, and any segment sizes and limits.                *)
(***************************************************************************)
EXTENDS LockFree, FiniteSetTheorems, TLAPS

(* The successor functions of the counter keep its type, and count up and  *)
(* down by one unless the bit field wraps (msh_IncrementCounter,           *)
(* msh_DecrementCounter, msh_SetCounterPost).                              *)
LEMMA CounterFact ==
    ASSUME NEW v \in Counter, NEW set_flag \in BOOLEAN
    PROVE  /\ IncrementCounter(v) \in Counter
           /\ DecrementCounter(v, set_flag) \in Counter
           /\ SetCounterPost(v, TRUE) \in Counter
           /\ v.count + 1 < CountMod => IncrementCounter(v).count = v.count + 1
           /\ v.count > 0 => DecrementCounter(v, set_flag).count = v.count - 1
           /\ SetCounterPost(v, TRUE).count = v.count
<1>1. v.count \in 0 .. (CountMod - 1) /\ v.flag \in BOOLEAN /\ v.post \in BOOLEAN
  BY DEF Counter
<1>2. /\ (v.count + 1) % CountMod \in 0 .. (CountMod - 1)
      /\ (v.count - 1) % CountMod \in 0 .. (CountMod - 1)
      /\ v.count + 1 < CountMod => (v.count + 1) % CountMod = v.count + 1
      /\ v.count > 0 => (v.count - 1) % CountMod = v.count - 1
  BY <1>1, CountModAssumption
<1> DEFINE up == (v.count + 1) % CountMod
           down == (v.count - 1) % CountMod
<1> HIDE DEF up, down
<1>3. IncrementCounter(v) \in Counter /\ IncrementCounter(v).count = up
  BY <1>1, <1>2 DEF IncrementCounter, Counter, up
<1>4. DecrementCounter(v, set_flag) \in Counter /\ DecrementCounter(v, set_flag).count = down
  <2>1. DecrementCounter(v, set_flag) = [v EXCEPT !.count = down, !.flag = v.flag \/ (set_flag /\ down = 0)]
    BY DEF DecrementCounter, down
  <2>2. (v.flag \/ (set_flag /\ down = 0)) \in BOOLEAN
    OBVIOUS
  <2> QED
    BY <1>1, <1>2, <2>1, <2>2 DEF Counter, down
<1>5. SetCounterPost(v, TRUE) \in Counter /\ SetCounterPost(v, TRUE).count = v.count
  BY <1>1 DEF SetCounterPost, Counter
<1> QED
  BY <1>2, <1>3, <1>4, <1>5 DEF up, down

(* Sizes are amounts of the memory there is.                               *)
LEMMA SizesFact ==
    /\ Memory \in Nat /\ 2 * Memory \in Nat /\ SizeMod \in Nat /\ Memory < SizeMod
    /\ \A s \in Sizes \cup {0} : s \in Nat /\ s \in 0 .. Memory /\ s \in 0 .. (2 * Memory)
<1>1. Memory \in Nat /\ 2 * Memory \in Nat /\ SizeMod \in Nat /\ Memory < SizeMod
  BY LockFreeAssumption
<1>2. Sizes \cup {0} \subseteq 0 .. Memory
  BY LockFreeAssumption, <1>1
<1>3. \A s \in 0 .. Memory : s \in Nat /\ s \in 0 .. (2 * Memory)
  BY <1>1
<1> QED
  BY <1>1, <1>2, <1>3

(* What a call is: the operation decides its fields.                       *)
LEMMA CallFact ==
    ASSUME NEW w \in Words, NEW c \in Calls(w)
    PROVE  /\ c # NoCall /\ c.op # "none"
           /\ w = "counter" => c.op \in {"increment", "decrement", "set_post"}
           /\ w = "long" => c.op \in {"inc_long", "dec_long"}
           /\ w = "size" => c.op \in {"add", "subtract"} /\ c.by \in Sizes
           /\ c.op = "decrement" => c.set_flag \in BOOLEAN
           /\ c.op = "add" => c.max \in Limits
BY DEF Words, Calls, NoCall

(* A call turns a value of the word into another one.                      *)
LEMMA NewValueType ==
    ASSUME NEW w \in Words, NEW c \in Calls(w), NEW v \in Values(w)
    PROVE  NewValue(c, v) \in Values(w)
<1>1. CASE w = "counter"
  <2>1. v \in Counter
    BY <1>1 DEF Values
  <2> QED
    BY <1>1, <2>1, CallFact, CounterFact DEF NewValue, Values
<1>2. CASE w = "long"
  <2>1. v \in Int /\ Values(w) = Int
    BY <1>2 DEF Values
  <2>2. NewValue(c, v) \in {v + 1, v - 1}
    BY <1>2, CallFact DEF NewValue
  <2> QED
    BY <2>1, <2>2
<1>3. CASE w = "size"
  <2>1. v \in 0 .. (SizeMod - 1) /\ c.by \in Nat /\ SizeMod \in Nat /\ SizeMod > 0
    BY <1>3, CallFact, LockFreeAssumption DEF Values
  <2>2. (v + c.by) % SizeMod \in 0 .. (SizeMod - 1) /\ (v - c.by) % SizeMod \in 0 .. (SizeMod - 1)
    BY <2>1
  <2> QED
    BY <1>3, <2>2, CallFact DEF NewValue, Values
<1> QED
  BY <1>1, <1>2, <1>3 DEF Words

(* A fresh word is zero.                                                   *)
LEMMA FreshType == ASSUME NEW w \in Words PROVE Fresh(w) \in Values(w)
<1>1. CASE w = "counter"
  BY <1>1, CountModAssumption DEF Values, Fresh, ZeroCounter, Counter
<1>2. CASE w = "long"
  BY <1>2 DEF Values, Fresh
<1>3. CASE w = "size"
  BY <1>3, LockFreeAssumption DEF Values, Fresh
<1> QED
  BY <1>1, <1>2, <1>3 DEF Words

(* The client state keeps its type over a return (AfterReturn).            *)
LEMMA AfterReturnType ==
    ASSUME NEW w \in Words, NEW c \in Calls(w), NEW cl \in Client, NEW p \in Proc, NEW r
    PROVE  AfterReturn(p, c, cl, r) \in Client
<1>1. c.op = "add" => c.by \in Sizes
  BY CallFact DEF Words
<1> DEFINE h == IF c.op \in {"increment", "inc_long"} THEN TRUE
                ELSE IF c.op \in {"decrement", "dec_long"} THEN FALSE ELSE cl.holds[p]
           f == IF c.op = "decrement" THEN r = <<TRUE>>
                ELSE IF c.op = "set_post" THEN FALSE ELSE cl.raised[p]
           s == IF c.op = "add" /\ r = <<TRUE>> THEN c.by ELSE cl.reserved[p]
<1>2. h \in BOOLEAN /\ f \in BOOLEAN /\ s \in Sizes \cup {0}
  BY <1>1 DEF Client
<1>3. AfterReturn(p, c, cl, r) = [holds    |-> [cl.holds EXCEPT ![p] = h],
                                  raised   |-> [cl.raised EXCEPT ![p] = f],
                                  reserved |-> [cl.reserved EXCEPT ![p] = s]]
  BY DEF AfterReturn
<1> HIDE DEF h, f, s
<1> QED
  BY <1>2, <1>3 DEF Client

(* An invocation leaves the client state well-typed (Invoked).             *)
LEMMA InvokedType ==
    ASSUME NEW cl \in Client, NEW p, NEW c, NEW calls, NEW after, Invoked(p, c, cl, calls, after)
    PROVE  after \in Client
BY DEF Invoked, Client

------------------------------------------------------------------------------
(* Every variable keeps its type, and calls are where they can be, in      *)
(* every step (TypeOK, CallsInStep).                                       *)
ControlInv == TypeOK /\ CallsInStep

(* A call that has taken effect by writing: its result is known and the    *)
(* types hold (Write).                                                     *)
LEMMA WriteStep ==
    ASSUME ControlInv, NEW p \in Proc, NEW v \in Values(word), Write(p, v),
           pc[p] \in {"swap", "instruction"}, UNCHANGED <<word, client, call>>
    PROVE  ControlInv'
<1>1. call[p] \in Calls(word)
  BY DEF ControlInv, TypeOK, CallsInStep
<1>2. value' \in Values(word)
  BY <1>1, NewValueType DEF Write, ControlInv, TypeOK
<1>3. Fresh(word) \in Values(word)
  BY FreshType DEF ControlInv, TypeOK
<1>4. TypeOK'
  BY <1>2, <1>3 DEF Write, ControlInv, TypeOK
<1>5. call[p].op = "add" => result'[p] = <<TRUE>>
  BY DEF Write, Returned, ControlInv, TypeOK
<1>6. CallsInStep'
  BY <1>5 DEF Write, ControlInv, TypeOK, CallsInStep
<1> QED
  BY <1>4, <1>6 DEF ControlInv

(* Every step keeps types and control.                                     *)
LEMMA ControlStep == ControlInv /\ [Next]_vars => ControlInv'
<1> SUFFICES ASSUME ControlInv, [Next]_vars PROVE ControlInv'
  OBVIOUS
<1>1. ASSUME NEW p \in Proc, NEW c \in Calls(word), Invoke(p, c) PROVE ControlInv'
  <2>1. client' \in Client
    BY <1>1, InvokedType DEF Invoke, ControlInv, TypeOK
  <2>2. c # NoCall
    BY <1>1, CallFact DEF ControlInv, TypeOK
  <2>3. TypeOK'
    BY <1>1, <2>1 DEF Invoke, ControlInv, TypeOK
  <2>4. CallsInStep'
    BY <1>1, <2>2 DEF Invoke, ControlInv, TypeOK, CallsInStep
  <2> QED
    BY <2>3, <2>4 DEF ControlInv
<1>2. ASSUME NEW p \in Proc, Read(p) PROVE ControlInv'
  <2>1. TypeOK'
    BY <1>2 DEF Read, ControlInv, TypeOK
  <2>2. CallsInStep'
    BY <1>2, ZenonT(40) DEF Read, ControlInv, TypeOK, CallsInStep
  <2> QED
    BY <2>1, <2>2 DEF ControlInv
<1>3. ASSUME NEW p \in Proc, CompareAndSwap(p) PROVE ControlInv'
  <2>1. CASE value = old[p] /\ Write(p, old[p])
    BY <1>3, <2>1, WriteStep DEF CompareAndSwap, ControlInv, TypeOK
  <2>2. CASE value # old[p]
    <3>1. Fresh(word) \in Values(word)
      BY FreshType DEF ControlInv, TypeOK
    <3>2. TypeOK'
      BY <1>3, <2>2, <3>1 DEF CompareAndSwap, ControlInv, TypeOK
    <3>3. CallsInStep'
      BY <1>3, <2>2, ZenonT(40) DEF CompareAndSwap, ControlInv, TypeOK, CallsInStep
    <3> QED
      BY <3>2, <3>3 DEF ControlInv
  <2> QED
    BY <1>3, <2>1, <2>2 DEF CompareAndSwap
<1>4. ASSUME NEW p \in Proc, Instruction(p) PROVE ControlInv'
  BY <1>4, WriteStep DEF Instruction, ControlInv, TypeOK
<1>5. ASSUME NEW p \in Proc, Return(p) PROVE ControlInv'
  <2>1. call[p] \in Calls(word)
    BY <1>5 DEF Return, ControlInv, TypeOK, CallsInStep
  <2>2. client' \in Client
    BY <1>5, <2>1, AfterReturnType DEF Return, ControlInv, TypeOK
  <2>3. TypeOK'
    BY <1>5, <2>2 DEF Return, ControlInv, TypeOK
  <2>4. CallsInStep'
    BY <1>5 DEF Return, ControlInv, TypeOK, CallsInStep
  <2> QED
    BY <2>3, <2>4 DEF ControlInv
<1>6. CASE UNCHANGED vars
  BY <1>6 DEF vars, ControlInv, TypeOK, CallsInStep
<1> QED
  BY <1>1, <1>2, <1>3, <1>4, <1>5, <1>6 DEF Next, Step

(* At first nothing is under way.                                          *)
LEMMA ControlInit == Init => ControlInv
<1> SUFFICES ASSUME Init PROVE ControlInv
  OBVIOUS
<1>1. Fresh(word) \in Values(word) /\ word \in Words
  BY FreshType DEF Init
<1>2. NoDebt \in Client
  BY DEF NoDebt, Client
<1> QED
  BY <1>1, <1>2 DEF Init, ControlInv, TypeOK, CallsInStep

(* Control is in step with the calls in every behaviour.                   *)
LEMMA ControlInvariant == Spec => []ControlInv
BY ControlInit, ControlStep, PTL DEF Spec

------------------------------------------------------------------------------
(* The abstract specification speaks of the same calls, counters and       *)
(* clients as the detailed one (LockFreeCalls).                            *)
LEMMA SameCounter ==
    ASSUME NEW v, NEW b
    PROVE  /\ Atomic!IncrementCounter(v) = IncrementCounter(v)
           /\ Atomic!DecrementCounter(v, b) = DecrementCounter(v, b)
           /\ Atomic!SetCounterPost(v, b) = SetCounterPost(v, b)
           /\ Atomic!RaisedFlag(v, b) = RaisedFlag(v, b)
BY DEF Atomic!IncrementCounter, IncrementCounter, Atomic!DecrementCounter, DecrementCounter,
       Atomic!SetCounterPost, SetCounterPost, Atomic!RaisedFlag, RaisedFlag

(* The calls of the abstract specification are those of LockFree.          *)
LEMMA SameCalls ==
    ASSUME NEW w, NEW c, NEW v, NEW r, NEW p, NEW cl, NEW calls, NEW after
    PROVE  /\ Atomic!Words = Words
           /\ Atomic!Fresh(w) = Fresh(w)
           /\ Atomic!NoDebt = NoDebt
           /\ Atomic!Calls(w) = Calls(w)
           /\ Atomic!Refused(c, v) <=> Refused(c, v)
           /\ Atomic!NewValue(c, v) = NewValue(c, v)
           /\ Atomic!Returned(c, v, r) = Returned(c, v, r)
           /\ Atomic!Invoked(p, c, cl, calls, after) <=> Invoked(p, c, cl, calls, after)
           /\ Atomic!AfterReturn(p, c, cl, r) = AfterReturn(p, c, cl, r)
<1>1. Atomic!Fresh(w) = Fresh(w) /\ Atomic!Words = Words /\ Atomic!NoDebt = NoDebt
  BY DEF Atomic!Fresh, Fresh, Atomic!ZeroCounter, ZeroCounter, Atomic!Words, Words, Atomic!NoDebt, NoDebt
<1>2. Atomic!Calls(w) = Calls(w)
  BY DEF Atomic!Calls, Calls
<1>3. Atomic!Refused(c, v) <=> Refused(c, v)
  BY DEF Atomic!Refused, Refused
<1>4. Atomic!NewValue(c, v) = NewValue(c, v)
  BY SameCounter, Zenon DEF Atomic!NewValue, NewValue
<1>5. Atomic!Returned(c, v, r) = Returned(c, v, r)
  BY SameCounter, Zenon DEF Atomic!Returned, Returned
<1>6. Atomic!Invoked(p, c, cl, calls, after) <=> Invoked(p, c, cl, calls, after)
  <2>1. Atomic!Claimed(cl, calls) = Claimed(cl, calls)
    BY Zenon DEF Atomic!Claimed, Claimed
  <2>2. Atomic!Total(Claimed(cl, calls)) = Total(Claimed(cl, calls))
    BY Zenon DEF Atomic!Total, Total, Atomic!Units, Units, Atomic!Cardinality, Cardinality
  <2> QED
    BY <2>1, <2>2, Zenon DEF Atomic!Invoked, Invoked
<1>7. Atomic!AfterReturn(p, c, cl, r) = AfterReturn(p, c, cl, r)
  BY Zenon DEF Atomic!AfterReturn, AfterReturn
<1> QED
  BY <1>1, <1>2, <1>3, <1>4, <1>5, <1>6, <1>7

(* How far a call has come in AtomicWords: invoked, and not yet effective, *)
(* as long as it reads, swaps or is about to execute its instruction.      *)
Phase == [p \in Proc |-> IF pc[p] \in {"idle", "done"} THEN pc[p] ELSE "called"]

(* A step that writes the word is the effect of the call, if the call is   *)
(* not one that must be refused there (Write).                             *)
LEMMA WriteIsEffect ==
    ASSUME ControlInv, NEW p \in Proc, Write(p, value), pc[p] \in {"swap", "instruction"},
           ~Refused(call[p], value), UNCHANGED <<word, client, call>>
    PROVE  Atomic!Effect(p)
<1>1. Phase[p] = "called" /\ Phase' = [Phase EXCEPT ![p] = "done"]
  BY DEF Write, Phase, ControlInv, TypeOK
<1> QED
  BY <1>1, SameCalls, Zenon DEF Write, Atomic!Effect, Phase

(* Every step of the loops is a step of an atomic call or changes nothing  *)
(* that the caller or the word can tell.                                   *)
LEMMA RefineStep == ControlInv /\ [Next]_vars => [Atomic!Next]_(Atomic!vars)
<1> SUFFICES ASSUME ControlInv, [Next]_vars PROVE Atomic!Next \/ UNCHANGED Atomic!vars
  OBVIOUS
<1>1. ASSUME NEW p \in Proc, NEW c \in Calls(word), Invoke(p, c) PROVE Atomic!Next
  <2>1. Phase[p] = "idle" /\ Phase' = [Phase EXCEPT ![p] = "called"]
    BY <1>1 DEF Invoke, Phase, ControlInv, TypeOK
  <2>2. Atomic!Invoke(p, c)
    BY <1>1, <2>1, SameCalls, Zenon DEF Invoke, Atomic!Invoke, Phase
  <2> QED
    BY <2>2, SameCalls, Zenon DEF Atomic!Next
<1>2. ASSUME NEW p \in Proc, Read(p) PROVE Atomic!Next \/ UNCHANGED Atomic!vars
  <2>1. CASE Refused(call[p], value) /\ pc' = [pc EXCEPT ![p] = "done"]
             /\ result' = [result EXCEPT ![p] = <<FALSE>>]
    <3>1. Phase[p] = "called" /\ Phase' = [Phase EXCEPT ![p] = "done"]
      BY <1>2, <2>1 DEF Read, Phase, ControlInv, TypeOK
    <3>2. Atomic!Effect(p)
      BY <1>2, <2>1, <3>1, SameCalls, Zenon DEF Read, Atomic!Effect, Phase
    <3> QED
      BY <3>2 DEF Atomic!Next
  <2>2. CASE pc' = [pc EXCEPT ![p] = "swap"] /\ UNCHANGED result
    <3>1. Phase' = Phase
      BY <1>2, <2>2 DEF Read, Phase, ControlInv, TypeOK
    <3> QED
      BY <1>2, <2>2, <3>1 DEF Read, Atomic!vars, Phase
  <2> QED
    BY <1>2, <2>1, <2>2 DEF Read
<1>3. ASSUME NEW p \in Proc, CompareAndSwap(p) PROVE Atomic!Next \/ UNCHANGED Atomic!vars
  <2>1. CASE value = old[p] /\ Write(p, old[p])
    <3>1. ~Refused(call[p], value)
      BY <1>3, <2>1 DEF CompareAndSwap, ControlInv, CallsInStep
    <3>2. Atomic!Effect(p)
      BY <1>3, <2>1, <3>1, WriteIsEffect DEF CompareAndSwap
    <3> QED
      BY <3>2 DEF Atomic!Next
  <2>2. CASE value # old[p] /\ pc' = [pc EXCEPT ![p] = "read"] /\ UNCHANGED <<value, result>>
    <3>1. Phase' = Phase
      BY <1>3, <2>2 DEF CompareAndSwap, Phase, ControlInv, TypeOK
    <3> QED
      BY <1>3, <2>2, <3>1 DEF CompareAndSwap, Atomic!vars, Phase
  <2> QED
    BY <1>3, <2>1, <2>2 DEF CompareAndSwap
<1>4. ASSUME NEW p \in Proc, Instruction(p) PROVE Atomic!Next
  <2>1. ~Refused(call[p], value)
    BY <1>4 DEF Instruction, Refused, IsLoop, ControlInv, CallsInStep
  <2>2. Atomic!Effect(p)
    BY <1>4, <2>1, WriteIsEffect DEF Instruction
  <2> QED
    BY <2>2 DEF Atomic!Next
<1>5. ASSUME NEW p \in Proc, Return(p) PROVE Atomic!Next
  <2>1. Phase[p] = "done" /\ Phase' = [Phase EXCEPT ![p] = "idle"]
    BY <1>5 DEF Return, Phase, ControlInv, TypeOK
  <2>2. Atomic!NoCall = NoCall
    BY DEF Atomic!NoCall, NoCall
  <2>3. client' = Atomic!AfterReturn(p, call[p], client, result[p])
    BY <1>5, SameCalls, Zenon DEF Return
  <2>4. Atomic!Return(p)
    BY <1>5, <2>1, <2>2, <2>3, Zenon DEF Return, Atomic!Return, Phase
  <2> QED
    BY <2>4 DEF Atomic!Next
<1>6. CASE UNCHANGED vars
  BY <1>6 DEF vars, Atomic!vars
<1> QED
  BY <1>1, <1>2, <1>3, <1>4, <1>5, <1>6 DEF Next, Step

(* The initial states are initial states of the atomic calls.              *)
LEMMA RefineInit == Init => Atomic!Init
<1> SUFFICES ASSUME Init PROVE Atomic!Init
  OBVIOUS
<1>1. Phase = [p \in Proc |-> "idle"]
  BY DEF Init, Phase
<1> QED
  BY <1>1, SameCalls, Zenon DEF Init, Atomic!Init, Phase, NoCall, Atomic!NoCall

(* Every call of mshlockfree.c is atomic (AtomicCalls).                    *)
THEOREM CallsAreAtomic == Spec => AtomicCalls
BY RefineInit, RefineStep, ControlInvariant, PTL DEF Spec, AtomicCalls, Atomic!Spec

------------------------------------------------------------------------------
(* An interval from one has as many elements as its end says.              *)
LEMMA IntervalFact ==
    ASSUME NEW j \in Nat PROVE IsFiniteSet(1 .. j) /\ Cardinality(1 .. j) = j
<1>1. 1 \in Int /\ j \in Int
  OBVIOUS
<1>2. IsFiniteSet(1 .. j) /\ Cardinality(1 .. j) = IF 1 > j THEN 0 ELSE j - 1 + 1
  BY <1>1, FS_Interval
<1> QED
  BY <1>2

(* Sums over the processes are finite counts (Units, Total).               *)
LEMMA TotalType ==
    ASSUME NEW B \in Nat, NEW n \in [Proc -> 0 .. B]
    PROVE  IsFiniteSet(Units(n)) /\ Total(n) \in Nat
<1>1. IsFiniteSet(Proc \X (1 .. B))
  <2>1. IsFiniteSet(1 .. B)
    BY IntervalFact
  <2> QED
    BY <2>1, LockFreeAssumption, FS_Product
<1>2. Units(n) \in SUBSET (Proc \X (1 .. B))
  <2> SUFFICES ASSUME NEW p \in Proc, NEW u \in {p} \X (1 .. n[p]) PROVE u \in Proc \X (1 .. B)
    BY DEF Units
  <2>1. 1 .. n[p] \subseteq 1 .. B
    OBVIOUS
  <2> QED
    BY <2>1
<1>3. IsFiniteSet(Units(n))
  BY <1>1, <1>2, FS_Subset
<1> QED
  BY <1>3, FS_CardinalityType DEF Total

(* A smaller sum, process by process.                                      *)
LEMMA TotalMonotonic ==
    ASSUME NEW B \in Nat, NEW n \in [Proc -> 0 .. B], NEW m \in [Proc -> 0 .. B],
           \A p \in Proc : m[p] =< n[p]
    PROVE  Total(m) =< Total(n)
<1>1. Units(m) \in SUBSET Units(n)
  <2> SUFFICES ASSUME NEW p \in Proc, NEW u \in {p} \X (1 .. m[p]) PROVE u \in Units(n)
    BY DEF Units
  <2>1. u \in {p} \X (1 .. n[p])
    OBVIOUS
  <2> QED
    BY <2>1 DEF Units
<1> QED
  BY <1>1, TotalType, FS_Subset DEF Total

(* The units of one process and those of the others.                       *)
OthersUnits(n, p) == UNION {{q} \X (1 .. n[q]) : q \in Proc \ {p}}

(* The units are those of one process and those of the others.             *)
LEMMA UnitsSplit ==
    ASSUME NEW n, NEW p \in Proc
    PROVE  Units(n) = OthersUnits(n, p) \cup ({p} \X (1 .. n[p]))
BY Zenon DEF Units, OthersUnits

(* Changing one summand changes the sum by the difference.                 *)
LEMMA TotalExcept ==
    ASSUME NEW B \in Nat, NEW n \in [Proc -> 0 .. B], NEW p \in Proc, NEW k \in 0 .. B
    PROVE  /\ Total([n EXCEPT ![p] = k]) = Total(n) - n[p] + k
           /\ n[p] =< Total(n)
<1> DEFINE m == [n EXCEPT ![p] = k]
           Own(j) == {p} \X (1 .. j)
           Rest == OthersUnits(n, p)
<1>1. m \in [Proc -> 0 .. B] /\ m[p] = k /\ \A q \in Proc \ {p} : m[q] = n[q]
  OBVIOUS
<1>2. ASSUME NEW j \in 0 .. B PROVE IsFiniteSet(Own(j)) /\ Cardinality(Own(j)) = j
  <2>1. IsFiniteSet({p}) /\ Cardinality({p}) = 1
    BY FS_Singleton
  <2>2. IsFiniteSet(1 .. j) /\ Cardinality(1 .. j) = j
    BY IntervalFact
  <2>3. IsFiniteSet(Own(j)) /\ Cardinality(Own(j)) = 1 * j
    <3>1. PICK S, T : S = {p} /\ T = 1 .. j
      OBVIOUS
    <3>2. IsFiniteSet(S) /\ Cardinality(S) = 1 /\ IsFiniteSet(T) /\ Cardinality(T) = j
      BY <2>1, <2>2, <3>1
    <3>3. IsFiniteSet(S \X T) /\ Cardinality(S \X T) = Cardinality(S) * Cardinality(T)
      BY <3>2, FS_Product
    <3> QED
      BY <3>1, <3>2, <3>3
  <2> QED
    BY <2>3
<1>3. Units(n) = Rest \cup Own(n[p])
  BY UnitsSplit
<1>4. Units(m) = Rest \cup Own(k)
  <2>1. OthersUnits(m, p) = Rest
    BY <1>1 DEF OthersUnits
  <2>2. Units(m) = OthersUnits(m, p) \cup Own(m[p])
    BY UnitsSplit
  <2> HIDE DEF m
  <2> QED
    BY <2>1, <2>2, <1>1
<1>5. \A j : Rest \cap Own(j) = {}
  BY DEF OthersUnits
<1>6. IsFiniteSet(Rest) /\ Cardinality(Rest) \in Nat
  <2>1. Rest \in SUBSET Units(n)
    BY <1>3
  <2> QED
    BY <2>1, TotalType, FS_Subset, FS_CardinalityType
<1> HIDE DEF Own, Rest, m
<1>7. ASSUME NEW j \in 0 .. B PROVE Cardinality(Rest \cup Own(j)) = Cardinality(Rest) + j
  BY <1>2, <1>5, <1>6, FS_Union, FS_EmptySet
<1>8. Total(n) = Cardinality(Rest) + n[p] /\ Total(m) = Cardinality(Rest) + k
  BY <1>3, <1>4, <1>7 DEF Total
<1> QED
  BY <1>6, <1>8 DEF m

(* Moving an amount from one process to another leaves the sum.            *)
Moved(n, p, q, k) ==
    [r \in Proc |-> n[r] - (IF r = q THEN k ELSE 0) + (IF r = p THEN k ELSE 0)]

(* Then the total is what it was.                                          *)
LEMMA TotalMove ==
    ASSUME NEW B \in Nat, NEW n \in [Proc -> 0 .. B], NEW p \in Proc, NEW q \in Proc,
           NEW k \in Nat, k =< n[q], Moved(n, p, q, k) \in [Proc -> 0 .. B]
    PROVE  Total(Moved(n, p, q, k)) = Total(n)
<1> DEFINE m == Moved(n, p, q, k)
<1>0. \A r \in Proc : m[r] = n[r] - (IF r = q THEN k ELSE 0) + (IF r = p THEN k ELSE 0)
  BY DEF Moved
<1> HIDE DEF m
<1> DEFINE less == [n EXCEPT ![q] = n[q] - k]
<1>1. n[q] - k \in 0 .. B /\ less \in [Proc -> 0 .. B]
  OBVIOUS
<1>2. Total(less) = Total(n) - n[q] + (n[q] - k)
  BY <1>1, TotalExcept, ZenonT(40)
<1>3. m = [less EXCEPT ![p] = m[p]] /\ m[p] = less[p] + k /\ m[p] \in 0 .. B
  <2>1. \A r \in Proc : less[r] = n[r] - (IF r = q THEN k ELSE 0)
    OBVIOUS
  <2>2. \A r \in Proc : m[r] = less[r] + (IF r = p THEN k ELSE 0)
    BY <1>0, <2>1
  <2>3. \A r \in Proc \ {p} : m[r] = less[r]
    BY <1>1, <2>2
  <2> HIDE DEF less
  <2>4. m \in [Proc -> 0 .. B]
    BY DEF m
  <2>5. m = [less EXCEPT ![p] = m[p]]
    BY <1>1, <2>3, <2>4
  <2> QED
    BY <2>2, <2>4, <2>5
<1> HIDE DEF less
<1>4. Total(m) = Total(less) - less[p] + m[p]
  BY <1>1, <1>3, TotalExcept, SMTT(30)
<1>5. Total(n) \in Nat /\ Total(less) \in Nat /\ less[p] \in Nat /\ n[q] \in Nat
  BY <1>1, TotalType
<1> QED
  BY <1>2, <1>3, <1>4, <1>5 DEF m

------------------------------------------------------------------------------
(* The inductive invariant for the exactness of the word (WordExact).      *)
ExactInv == ControlInv /\ ClientsInStep /\ WordExact

Reservations == [p \in Proc |-> Reservation(p)]

(* A process has reserved, and its call is about, an amount of the memory. *)
LEMMA AmountFact ==
    ASSUME ControlInv, NEW p \in Proc
    PROVE  /\ client.reserved[p] \in 0 .. Memory
           /\ call[p].op \in {"add", "subtract"} => call[p].by \in 0 .. Memory
<1>1. call[p] = NoCall \/ call[p] \in Calls(word)
  BY DEF ControlInv, TypeOK
<1>2. call[p].op \in {"add", "subtract"} => call[p].by \in Sizes
  BY <1>1, CallFact DEF ControlInv, TypeOK, NoCall, Words
<1>3. client.reserved[p] \in Sizes \cup {0}
  BY DEF ControlInv, TypeOK, Client
<1> QED
  BY <1>2, <1>3, SizesFact, Zenon

(* The same of what a call keeps reserved.                                 *)
LEMMA InCallFact == ASSUME ControlInv, NEW p \in Proc PROVE InCall(p) \in 0 .. Memory
<1>1. InCall(p) = 0 \/ (call[p].op \in {"add", "subtract"} /\ InCall(p) = call[p].by)
  BY DEF InCall, Written, Pending
<1> QED
  BY <1>1, AmountFact, SizesFact

(* No process has more than it claims: what counts as reserved in the word *)
(* is part of what the memory has been promised for.                       *)
LEMMA ReservationsType ==
    ASSUME ControlInv
    PROVE  /\ 2 * Memory \in Nat
           /\ Claimed(client, call) \in [Proc -> 0 .. (2 * Memory)]
           /\ Reservations \in [Proc -> 0 .. (2 * Memory)]
           /\ \A p \in Proc : Reservations[p] =< Claimed(client, call)[p]
<1>1. Memory \in Nat
  BY SizesFact
<1>2. \A p \in Proc : InCall(p) \in 0 .. Memory
  BY InCallFact
<1>3. ASSUME NEW p \in Proc
      PROVE  /\ Claimed(client, call)[p] \in 0 .. (2 * Memory)
             /\ Reservation(p) \in 0 .. (2 * Memory)
             /\ Reservation(p) =< Claimed(client, call)[p]
  <2> DEFINE r == client.reserved[p]
             claim == IF call[p].op \in {"add", "subtract"} THEN call[p].by ELSE 0
  <2>1. Claimed(client, call)[p] = r + claim /\ Reservation(p) = r + InCall(p)
    BY DEF Claimed, Reservation
  <2>2. r \in 0 .. Memory /\ claim \in 0 .. Memory
    BY <1>1, AmountFact
  <2>3. InCall(p) = 0 \/ InCall(p) = claim
    BY DEF InCall, Written, Pending
  <2> HIDE DEF r, claim
  <2> QED
    BY <1>1, <2>1, <2>2, <2>3
<1> QED
  BY <1>1, <1>3 DEF Claimed, Reservations

(* The holders are finitely many, and fit the count.                       *)
LEMMA HoldersFact ==
    ASSUME NEW S \in SUBSET Proc
    PROVE  IsFiniteSet(S) /\ Cardinality(S) \in Nat /\ Cardinality(S) < CountMod
<1>1. IsFiniteSet(S) /\ Cardinality(S) =< Cardinality(Proc)
  BY LockFreeAssumption, FS_Subset
<1> QED
  BY <1>1, LockFreeAssumption, CountModAssumption, FS_CardinalityType

(* Writing the word changes a count by the one process that holds it now,  *)
(* or no longer (Write).                                                   *)
LEMMA WriteCountExact ==
    ASSUME ExactInv, NEW p \in Proc, Write(p, value), pc[p] \in {"swap", "instruction"},
           UNCHANGED <<word, client, call>>, word \in {"counter", "long"}
    PROVE  WordExact'
<1>1. /\ call[p] \in Calls(word)
      /\ value \in Values(word)
      /\ \A q \in Proc : (pc[q] = "done") \in BOOLEAN
      /\ pc' = [pc EXCEPT ![p] = "done"] /\ pc \in [Proc -> {"idle", "read", "swap", "instruction", "done"}]
      /\ value' = NewValue(call[p], value)
  BY DEF ExactInv, ControlInv, TypeOK, CallsInStep, Write
<1>2. CASE call[p].op \in {"increment", "inc_long"}
  <2>1. ~client.holds[p]
    BY <1>2 DEF ExactInv, ClientsInStep
  <2>2. p \notin Holders /\ Holders' = Holders \cup {p}
    BY <1>1, <1>2, <2>1 DEF Holders, Written
  <2>3. Cardinality(Holders') = Cardinality(Holders) + 1
    BY <2>2, HoldersFact, FS_AddElement DEF Holders
  <2>4. Cardinality(Holders') < CountMod
    BY HoldersFact DEF Holders
  <2>5. CASE word = "counter"
    <3>1. value \in Counter /\ value.count = Cardinality(Holders) /\ call[p].op = "increment"
      BY <1>1, <1>2, <2>5, CallFact DEF Values, ExactInv, WordExact, Words
    <3>2. value' = IncrementCounter(value)
      BY <1>1, <3>1 DEF NewValue
    <3>3. value'.count = value.count + 1
      BY <2>3, <2>4, <3>1, <3>2, CounterFact
    <3> QED
      BY <2>3, <2>5, <3>1, <3>3 DEF WordExact
  <2>6. CASE word = "long"
    <3>1. value = Cardinality(Holders) /\ call[p].op = "inc_long"
      BY <1>1, <1>2, <2>6, CallFact DEF ExactInv, WordExact, Words
    <3>2. value' = value + 1
      BY <1>1, <3>1 DEF NewValue
    <3> QED
      BY <2>3, <2>6, <3>1, <3>2 DEF WordExact
  <2> QED
    BY <2>5, <2>6
<1>3. CASE call[p].op \in {"decrement", "dec_long"}
  <2>1. client.holds[p]
    BY <1>3 DEF ExactInv, ClientsInStep
  <2>2. p \in Holders /\ Holders' = Holders \ {p}
    BY <1>1, <1>3, <2>1 DEF Holders, Written
  <2>3. Cardinality(Holders') = Cardinality(Holders) - 1
    BY <2>2, HoldersFact, FS_RemoveElement DEF Holders
  <2>4. Cardinality(Holders') \in Nat /\ Cardinality(Holders) \in Nat
    BY HoldersFact DEF Holders
  <2>5. CASE word = "counter"
    <3>1. /\ value \in Counter /\ value.count = Cardinality(Holders)
          /\ call[p].op = "decrement" /\ call[p].set_flag \in BOOLEAN
      BY <1>1, <1>3, <2>5, CallFact DEF Values, ExactInv, WordExact, Words
    <3>2. value' = DecrementCounter(value, call[p].set_flag)
      BY <1>1, <3>1 DEF NewValue
    <3>3. value.count > 0
      BY <2>3, <2>4, <3>1
    <3>4. value'.count = value.count - 1
      BY <3>1, <3>2, <3>3, CounterFact
    <3> QED
      BY <2>3, <2>5, <3>1, <3>4 DEF WordExact
  <2>6. CASE word = "long"
    <3>1. value = Cardinality(Holders) /\ call[p].op = "dec_long"
      BY <1>1, <1>3, <2>6, CallFact DEF ExactInv, WordExact, Words
    <3>2. value' = value - 1
      BY <1>1, <3>1 DEF NewValue
    <3> QED
      BY <2>3, <2>6, <3>1, <3>2 DEF WordExact
  <2> QED
    BY <2>5, <2>6
<1>4. CASE call[p].op = "set_post"
  <2>1. Holders' = Holders
    BY <1>1, <1>4 DEF Holders, Written
  <2>2. value \in Counter /\ value.count = Cardinality(Holders) /\ word = "counter"
    BY <1>1, <1>4, CallFact DEF Values, ExactInv, WordExact, Words
  <2>3. value'.count = value.count
    BY <1>1, <1>4, <2>2, CounterFact DEF NewValue
  <2> QED
    BY <2>1, <2>2, <2>3 DEF WordExact
<1> QED
  BY <1>1, <1>2, <1>3, <1>4, CallFact DEF Words

(* What is below the modulus does not wrap.                                *)
LEMMA SmallMod ==
    ASSUME NEW a \in Nat, NEW b \in Nat, NEW m \in Nat, a + b < m PROVE (a + b) % m = a + b
OBVIOUS

(* Writing total_shared_size adds or takes away what the call is about,    *)
(* without wrapping around (Write).                                        *)
LEMMA WriteSizeExact ==
    ASSUME ExactInv, NEW p \in Proc, Write(p, value), pc[p] \in {"swap", "instruction"},
           UNCHANGED <<word, client, call>>, word = "size"
    PROVE  WordExact'
<1> DEFINE by == call[p].by
           own == client.reserved[p]
           all == Total(Reservations)
<1>1. /\ call[p].op \in {"add", "subtract"}
      /\ by \in Nat
      /\ value \in 0 .. (SizeMod - 1) /\ SizeMod \in Nat /\ Memory < SizeMod /\ Memory \in Nat
      /\ pc' = [pc EXCEPT ![p] = "done"] /\ pc \in [Proc -> {"idle", "read", "swap", "instruction", "done"}]
      /\ value' = NewValue(call[p], value)
      /\ own \in Nat
  <2>1. call[p] \in Calls(word)
    BY DEF ExactInv, ControlInv, TypeOK, CallsInStep
  <2>2. call[p].op \in {"add", "subtract"} /\ by \in Sizes
    BY <2>1, CallFact DEF Words
  <2>3. value \in 0 .. (SizeMod - 1)
    BY DEF ExactInv, ControlInv, TypeOK, Values
  <2>4. own \in Sizes \cup {0}
    BY DEF ExactInv, ControlInv, TypeOK, Client
  <2>5. SizeMod \in Nat /\ Memory \in Nat /\ Memory < SizeMod /\ \A s \in Sizes \cup {0} : s \in Nat
    BY LockFreeAssumption
  <2> QED
    BY <2>2, <2>3, <2>4, <2>5 DEF Write, ExactInv, ControlInv, TypeOK
<1>2. value = all /\ all \in Nat
  BY ReservationsType, TotalType DEF ExactInv, WordExact, Reservations
<1>3. \A q \in Proc \ {p} : Reservation(q)' = Reservation(q)
  BY <1>1 DEF Write, Reservation, InCall, Written, Pending, ExactInv, ControlInv, TypeOK
<1>4. CASE call[p].op = "add"
  <2>1. Reservation(p) = 0 /\ Reservation(p)' = by
    <3>1. own = 0 /\ pc[p] # "done" /\ result'[p] = <<TRUE>> /\ pc'[p] = "done"
      BY <1>1, <1>4 DEF Write, Returned, ExactInv, ControlInv, TypeOK, ClientsInStep
    <3>2. Reservation(p) = own + 0
      BY <1>4, <3>1 DEF Reservation, InCall, Written, Pending
    <3>3. Reservation(p)' = own + by
      BY <1>4, <3>1 DEF Reservation, InCall, Written
    <3> QED
      BY <1>1, <3>1, <3>2, <3>3
  <2>2. Reservations' = [Reservations EXCEPT ![p] = by]
    BY <1>3, <2>1 DEF Reservations
  <2>3. Claimed(client, call)[p] = by
    BY <1>1, <1>4 DEF Claimed, ExactInv, ClientsInStep
  <2>4. by \in 0 .. (2 * Memory)
    BY <2>3, ReservationsType DEF ExactInv
  <2>5. Total(Reservations') = all + by
    <3>1. Total(Reservations') = all - Reservations[p] + by
      BY <2>2, <2>4, ReservationsType, TotalExcept DEF ExactInv
    <3>2. Reservations[p] = 0
      BY <2>1 DEF Reservations
    <3> QED
      BY <1>1, <1>2, <3>1, <3>2
  <2>6. Total(Reservations') =< Total(Claimed(client, call))
    <3>1. /\ Reservations' \in [Proc -> 0 .. (2 * Memory)]
          /\ \A q \in Proc : Reservations'[q] =< Claimed(client, call)[q]
      BY <2>2, <2>3, <2>4, <1>1, ReservationsType DEF ExactInv
    <3> QED
      BY <3>1, ReservationsType, TotalMonotonic DEF ExactInv
  <2>7. Total(Claimed(client, call)) =< Memory /\ Total(Claimed(client, call)) \in Nat
    BY ReservationsType, TotalType DEF ExactInv, ClientsInStep
  <2>8. value + by < SizeMod
    BY <1>1, <1>2, <2>5, <2>6, <2>7
  <2>9. value' = value + by
    <3>1. value' = (value + by) % SizeMod
      BY <1>1, <1>4 DEF NewValue
    <3>2. value \in Nat /\ by \in Nat /\ SizeMod \in Nat
      BY <1>1
    <3>3. (value + by) % SizeMod = value + by
      BY <2>8, <3>2, SmallMod
    <3> QED
      BY <3>1, <3>3
  <2> QED
    BY <1>2, <2>5, <2>9 DEF WordExact, Reservations
<1>5. CASE call[p].op = "subtract"
  <2>1. Reservation(p) = own + by /\ Reservation(p)' = own
    BY <1>1, <1>5 DEF Write, Reservation, InCall, Written, Pending, ExactInv, ControlInv, TypeOK
  <2>2. Reservations' = [Reservations EXCEPT ![p] = own] /\ Reservations[p] = own + by
    BY <1>3, <2>1 DEF Reservations
  <2>3. own \in 0 .. (2 * Memory)
    <3>1. Reservations[p] \in 0 .. (2 * Memory)
      BY ReservationsType DEF ExactInv
    <3> QED
      BY <1>1, <2>2, <3>1
  <2>4. Total(Reservations') = all - Reservations[p] + own /\ Reservations[p] =< all
    BY <2>2, <2>3, ReservationsType, TotalExcept DEF ExactInv
  <2>5. Total(Reservations') = all - by /\ by =< all
    BY <1>1, <1>2, <2>2, <2>4
  <2>6. value' = value - by
    <3>1. value' = (value - by) % SizeMod
      BY <1>1, <1>5 DEF NewValue
    <3> QED
      BY <1>1, <1>2, <2>5, <3>1, SMTT(30)
  <2> QED
    BY <1>2, <2>5, <2>6 DEF WordExact, Reservations
<1> QED
  BY <1>1, <1>4, <1>5

(* What the size word depends on is the same before and after.             *)
LEMMA SizeSame ==
    ASSUME ExactInv, UNCHANGED <<word, value>>, word = "size",
           \A q \in Proc : Reservation(q)' = Reservation(q)
    PROVE  WordExact'
BY DEF ExactInv, WordExact

(* What the counts depend on is the same before and after.                 *)
LEMMA CountSame ==
    ASSUME ExactInv, UNCHANGED <<word, value>>, word \in {"counter", "long"}, Holders' = Holders
    PROVE  WordExact'
BY DEF ExactInv, WordExact

(* A process that does not move keeps what its call has reserved.          *)
LEMMA InCallLocal ==
    ASSUME NEW q \in Proc, pc'[q] = pc[q], call'[q] = call[q], result'[q] = result[q]
    PROVE  InCall(q)' = InCall(q)
BY Zenon DEF InCall, Written, Pending

(* A process for which nothing changes keeps what it has reserved.         *)
LEMMA ReservationLocal ==
    ASSUME NEW q \in Proc, pc'[q] = pc[q], call'[q] = call[q], result'[q] = result[q],
           client'.reserved[q] = client.reserved[q]
    PROVE  Reservation(q)' = Reservation(q)
<1>1. InCall(q)' = InCall(q)
  BY InCallLocal
<1> QED
  BY <1>1, Zenon DEF Reservation

(* A call that begins claims its size, which still fits (Invoked).         *)
LEMMA InvokeExact ==
    ASSUME ExactInv, NEW p \in Proc, NEW c \in Calls(word), Invoke(p, c)
    PROVE  ClientsInStep' /\ WordExact'
<1> DEFINE claimed == Claimed(client, call)
<1>1. /\ pc[p] = "idle" /\ pc'[p] # "done" /\ pc'[p] # "idle" /\ call[p].op = "none"
      /\ call' = [call EXCEPT ![p] = c] /\ call'[p] = c
      /\ \A q \in Proc \ {p} : pc'[q] = pc[q] /\ call'[q] = call[q]
      /\ UNCHANGED <<word, value, result>> /\ Invoked(p, c, client, call, client')
  <2>1. pc[p] = "idle" /\ call[p] = NoCall
    BY DEF Invoke, ExactInv, ControlInv, CallsInStep
  <2> QED
    BY <2>1 DEF Invoke, ExactInv, ControlInv, TypeOK, NoCall
<1>2. /\ claimed \in [Proc -> 0 .. (2 * Memory)] /\ 2 * Memory \in Nat /\ Memory \in Nat
      /\ Total(claimed) \in Nat /\ Total(claimed) =< Memory
  BY ReservationsType, TotalType, LockFreeAssumption DEF ExactInv, ClientsInStep
<1>3. claimed[p] = client.reserved[p] + 0
  BY <1>1 DEF Claimed
<1>4. CASE c.op \notin {"add", "subtract"}
  <2>1. client' = client
    BY <1>1, <1>4 DEF Invoked
  <2>2. Claimed(client, call)' = claimed
    BY <1>1, <1>4, <2>1 DEF Claimed
  <2>3. ClientsInStep'
    BY <1>1, <1>2, <1>4, <2>1, <2>2 DEF Invoked, ExactInv, ClientsInStep
  <2>4. Holders' = Holders
    BY <1>1, <2>1 DEF Holders, Written
  <2>5. word \in {"counter", "long"}
    BY <1>4, CallFact DEF ExactInv, ControlInv, TypeOK, Words
  <2> QED
    BY <1>1, <2>3, <2>4, <2>5, CountSame
<1>5. CASE c.op = "add"
  <2>1. client' = client /\ client.reserved[p] = 0 /\ Total(claimed) + c.by =< Memory
    BY <1>1, <1>5 DEF Invoked
  <2>2. word = "size" /\ c.by \in Sizes
    BY <1>5, CallFact DEF ExactInv, ControlInv, TypeOK, Words
  <2>3. c.by \in 0 .. (2 * Memory)
    BY <2>2, SizesFact
  <2>4. Claimed(client, call)' = [claimed EXCEPT ![p] = c.by]
    BY <1>1, <1>5, <2>1, <2>3 DEF Claimed
  <2>5. Total(Claimed(client, call)') = Total(claimed) + c.by
    <3>1. Total([claimed EXCEPT ![p] = c.by]) = Total(claimed) - claimed[p] + c.by
      BY <1>2, <2>3, TotalExcept
    <3>2. claimed[p] = 0
      BY <1>3, <2>1
    <3> QED
      BY <1>2, <2>3, <2>4, <3>1, <3>2
  <2>6. Total(Claimed(client, call))' =< Memory
    BY <1>2, <2>1, <2>3, <2>5
  <2>7. ClientsInStep'
    BY <1>1, <1>5, <2>1, <2>6 DEF ExactInv, ClientsInStep
  <2>8. \A q \in Proc : Reservation(q)' = Reservation(q)
    <3>1. ASSUME NEW q \in Proc \ {p} PROVE Reservation(q)' = Reservation(q)
      BY <1>1, <2>1, ReservationLocal
    <3>2. Reservation(p) = client.reserved[p] + 0
      BY <1>1 DEF Reservation, InCall, Written, Pending
    <3>3. Reservation(p)' = client.reserved[p] + 0
      BY <1>1, <1>5, <2>1 DEF Reservation, InCall, Written, Pending
    <3> QED
      BY <3>1, <3>2, <3>3
  <2> QED
    BY <1>1, <2>2, <2>7, <2>8, SizeSame
<1>6. CASE c.op = "subtract"
  <2>1. PICK q \in Proc : client.reserved[q] = c.by /\ client' = [client EXCEPT !.reserved[q] = 0]
    BY <1>1, <1>6 DEF Invoked
  <2>2. word = "size" /\ c.by \in Sizes
    BY <1>6, CallFact DEF ExactInv, ControlInv, TypeOK, Words
  <2>3. c.by \in 0 .. Memory /\ c.by \in Nat
    BY <2>2, SizesFact
  <2>4. /\ client'.holds = client.holds
        /\ client'.reserved = [client.reserved EXCEPT ![q] = 0]
        /\ client.reserved \in [Proc -> 0 .. Memory]
    <3>1. Sizes \cup {0} \subseteq 0 .. Memory
      BY SizesFact
    <3> QED
      BY <2>1, <3>1 DEF ExactInv, ControlInv, TypeOK, Client
  <2>5. \A r \in Proc : Claimed(client, call)'[r] = Moved(claimed, p, q, c.by)[r] /\ (r = q => c.by =< claimed[r])
    <3> SUFFICES ASSUME NEW r \in Proc
                 PROVE  Claimed(client, call)'[r] = Moved(claimed, p, q, c.by)[r] /\ (r = q => c.by =< claimed[r])
      OBVIOUS
    <3> DEFINE own == IF call[r].op \in {"add", "subtract"} THEN call[r].by ELSE 0
    <3>1. claimed[r] = client.reserved[r] + own /\ claimed[r] \in Nat /\ client.reserved[r] \in 0 .. Memory
      BY <1>2, <2>4 DEF Claimed
    <3>2. r # p => Claimed(client, call)'[r] = client'.reserved[r] + own
      BY <1>1 DEF Claimed
    <3>3. r = p => Claimed(client, call)'[r] = client'.reserved[r] + c.by /\ own = 0
      BY <1>1, <1>6 DEF Claimed
    <3>4. client'.reserved[r] = IF r = q THEN 0 ELSE client.reserved[r]
      BY <2>4
    <3>5. own \in Nat
      BY AmountFact, SizesFact DEF ExactInv
    <3> HIDE DEF own
    <3> QED
      BY <2>1, <2>3, <3>1, <3>2, <3>3, <3>4, <3>5 DEF Moved
  <2>6. Claimed(client, call)' \in [Proc -> 0 .. (2 * Memory)]
    <3>1. \A r \in Proc : client'.reserved[r] \in 0 .. Memory
      BY <1>2, <2>4
    <3>2. \A r \in Proc \ {p} : call'[r].op \in {"add", "subtract"} => call'[r].by \in 0 .. Memory
      BY <1>1, AmountFact DEF ExactInv
    <3>3. \A r \in Proc : (IF call'[r].op \in {"add", "subtract"} THEN call'[r].by ELSE 0) \in 0 .. Memory
      BY <1>1, <1>2, <2>3, <3>2
    <3> QED
      BY <1>2, <3>1, <3>3 DEF Claimed
  <2>7. Total(Claimed(client, call)') = Total(claimed)
    <3>1. Claimed(client, call)' = Moved(claimed, p, q, c.by)
      BY <2>5 DEF Claimed, Moved
    <3>2. c.by \in Nat /\ c.by =< claimed[q]
      BY <2>3, <2>5
    <3>3. Moved(claimed, p, q, c.by) \in [Proc -> 0 .. (2 * Memory)]
      BY <2>6, <3>1
    <3>4. Total(Moved(claimed, p, q, c.by)) = Total(claimed)
      <4> DEFINE B == 2 * Memory
                 k == c.by
      <4>1. /\ B \in Nat /\ claimed \in [Proc -> 0 .. B] /\ k \in Nat /\ k =< claimed[q]
            /\ Moved(claimed, p, q, k) \in [Proc -> 0 .. B]
        BY <1>2, <3>2, <3>3
      <4> HIDE DEF B, k, claimed
      <4>2. Total(Moved(claimed, p, q, k)) = Total(claimed)
        BY <4>1, TotalMove
      <4> QED
        BY <4>2 DEF k
    <3> QED
      BY <3>1, <3>4
  <2>8. ClientsInStep'
    <3>1. \A r \in Proc : call'[r].op = "add" => client'.reserved[r] = 0
      BY <1>1, <1>6, <2>4 DEF ExactInv, ClientsInStep
    <3>2. Total(Claimed(client, call))' =< Memory
      BY <1>2, <2>7
    <3> QED
      BY <1>1, <1>6, <2>4, <3>1, <3>2 DEF ExactInv, ClientsInStep
  <2>9. Total(Reservations') = Total(Reservations)
    <3>1. ASSUME NEW r \in Proc
          PROVE  Reservations'[r] = Moved(Reservations, p, q, c.by)[r] /\ Reservations[r] \in Nat
      <4>1. r # p => InCall(r)' = InCall(r)
        BY <1>1, InCallLocal
      <4>2. r = p => InCall(r)' = c.by /\ InCall(r) = 0
        BY <1>1, <1>6 DEF InCall, Written, Pending
      <4>3. client'.reserved[r] = IF r = q THEN 0 ELSE client.reserved[r]
        BY <2>4
      <4>4. /\ Reservations[r] = client.reserved[r] + InCall(r)
            /\ Reservations'[r] = client'.reserved[r] + InCall(r)'
        BY DEF Reservations, Reservation
      <4>5. InCall(r) \in 0 .. Memory /\ client.reserved[r] \in Nat /\ Reservations[r] \in Nat
        BY <2>4, <1>2, <4>4, InCallFact DEF ExactInv
      <4> QED
        BY <1>2, <2>1, <2>3, <4>1, <4>2, <4>3, <4>4, <4>5 DEF Moved, Reservations
    <3>2. Reservations' = Moved(Reservations, p, q, c.by)
      BY <3>1 DEF Reservations, Moved
    <3>3. c.by \in Nat /\ c.by =< Reservations[q]
      BY <2>1, <2>3, <1>2, InCallFact DEF ExactInv, Reservations, Reservation
    <3>4. \A r \in Proc : client'.reserved[r] \in 0 .. Memory /\ InCall(r)' \in 0 .. Memory
      <4>1. \A r \in Proc \ {p} : InCall(r)' = InCall(r)
        BY <1>1, InCallLocal
      <4>2. InCall(p)' = c.by
        BY <1>1, <1>6 DEF InCall, Written, Pending
      <4> QED
        BY <1>2, <2>3, <2>4, <4>1, <4>2, InCallFact DEF ExactInv
    <3>5. Reservations' \in [Proc -> 0 .. (2 * Memory)]
      BY <1>2, <3>4 DEF Reservations, Reservation
    <3> QED
      BY <1>2, <3>2, <3>3, <3>5, ReservationsType, TotalMove DEF ExactInv
  <2> QED
    BY <1>1, <2>2, <2>8, <2>9 DEF ExactInv, WordExact, Reservations
<1> QED
  BY <1>4, <1>5, <1>6

(* A call that returns hands over to the client state what it was about,   *)
(* and never claims more than before (Return).                             *)
LEMMA ReturnExact ==
    ASSUME ExactInv, NEW p \in Proc, Return(p)
    PROVE  ClientsInStep' /\ WordExact'
<1> DEFINE c == call[p]
           claimed == Claimed(client, call)
<1>1. /\ pc[p] = "done" /\ pc'[p] = "idle" /\ call'[p].op = "none" /\ c \in Calls(word)
      /\ \A q \in Proc \ {p} : pc'[q] = pc[q] /\ call'[q] = call[q] /\ result'[q] = result[q]
      /\ UNCHANGED <<word, value>> /\ client' = AfterReturn(p, c, client, result[p])
  <2>1. pc[p] = "done" /\ c \in Calls(word)
    BY DEF Return, ExactInv, ControlInv, TypeOK, CallsInStep
  <2> QED
    BY <2>1 DEF Return, ExactInv, ControlInv, TypeOK, NoCall
<1>2. /\ \A q \in Proc \ {p} : /\ client'.holds[q] = client.holds[q]
                               /\ client'.reserved[q] = client.reserved[q]
      /\ client'.holds[p] = IF c.op \in {"increment", "inc_long"} THEN TRUE
                            ELSE IF c.op \in {"decrement", "dec_long"} THEN FALSE ELSE client.holds[p]
      /\ client'.reserved[p] = IF c.op = "add" /\ result[p] = <<TRUE>> THEN c.by ELSE client.reserved[p]
  BY <1>1 DEF AfterReturn, ExactInv, ControlInv, TypeOK, Client
<1>3. client.reserved[p] \in Nat /\ (c.op \in {"add", "subtract"} => c.by \in Nat)
  BY AmountFact, SizesFact DEF ExactInv
<1>4. c.op = "add" => client.reserved[p] = 0
  BY DEF ExactInv, ClientsInStep
<1> DEFINE added == c.op = "add" /\ result[p] = <<TRUE>>
<1>5. \/ added /\ client'.reserved[p] = c.by /\ client.reserved[p] = 0 /\ c.by \in Nat
      \/ ~added /\ client'.reserved[p] = client.reserved[p]
  BY <1>2, <1>3, <1>4
<1>6. added => c.op = "add"
  OBVIOUS
<1> HIDE DEF added
<1>7. client'.reserved[p] \in Nat
  BY <1>3, <1>5
<1>8. ClientsInStep'
  <2>1. /\ 2 * Memory \in Nat /\ Memory \in Nat
        /\ claimed \in [Proc -> 0 .. (2 * Memory)]
        /\ Total(claimed) =< Memory
    BY ReservationsType, SizesFact DEF ExactInv, ClientsInStep
  <2>2. claimed[p] = client.reserved[p] + (IF c.op \in {"add", "subtract"} THEN c.by ELSE 0)
    BY DEF Claimed
  <2>3. Claimed(client, call)'[p] = client'.reserved[p] + 0
    BY <1>1 DEF Claimed
  <2>4. client'.reserved[p] \in Nat /\ client'.reserved[p] =< claimed[p]
    <3>1. CASE added
      BY <1>5, <1>6, <2>2, <3>1
    <3>2. CASE ~added
      <4> DEFINE claim == IF c.op \in {"add", "subtract"} THEN c.by ELSE 0
      <4>1. claim \in Nat
        BY <1>3
      <4> HIDE DEF claim
      <4> QED
        BY <1>3, <1>5, <2>2, <3>2, <4>1 DEF claim
    <3> QED
      BY <3>1, <3>2
  <2>5. \A q \in Proc \ {p} : Claimed(client, call)'[q] = claimed[q]
    BY <1>1, <1>2 DEF Claimed
  <2>6. /\ Claimed(client, call)' \in [Proc -> 0 .. (2 * Memory)]
        /\ \A q \in Proc : Claimed(client, call)'[q] =< claimed[q]
    <3> DEFINE m == Claimed(client, call)'
    <3>1. m = [q \in Proc |-> m[q]]
      BY DEF Claimed
    <3> HIDE DEF m, claimed
    <3>2. \A q \in Proc : m[q] \in 0 .. (2 * Memory) /\ m[q] =< claimed[q]
      BY <2>1, <2>3, <2>4, <2>5 DEF m
    <3> QED
      BY <3>1, <3>2 DEF m
  <2>7. Total(Claimed(client, call)') =< Total(claimed)
    BY <2>1, <2>6, TotalMonotonic
  <2>8. Total(Claimed(client, call)') \in Nat /\ Total(claimed) \in Nat
    BY <2>1, <2>6, TotalType
  <2>9. Total(Claimed(client, call))' =< Memory
    BY <2>1, <2>7, <2>8
  <2> QED
    BY <1>1, <1>2, <2>9 DEF ExactInv, ClientsInStep
<1>9. CASE word \in {"counter", "long"}
  <2>1. Holders' = Holders
    <3> DEFINE Holds(q) == \/ Written(q, "increment") \/ Written(q, "inc_long")
                           \/ client.holds[q] /\ ~Written(q, "decrement") /\ ~Written(q, "dec_long")
    <3>1. ASSUME NEW q \in Proc \ {p} PROVE Holds(q)' <=> Holds(q)
      BY <1>1, <1>2 DEF Written
    <3>2. Holds(p)' <=> Holds(p)
      BY <1>1, <1>2 DEF Written
    <3>3. \A q \in Proc : Holds(q)' <=> Holds(q)
      BY <3>1, <3>2
    <3>4. Holders = {q \in Proc : Holds(q)} /\ Holders' = {q \in Proc : Holds(q)'}
      BY DEF Holders
    <3> HIDE DEF Holds
    <3> QED
      BY <3>3, <3>4
  <2> QED
    BY <1>1, <1>8, <1>9, <2>1, CountSame
<1>10. CASE word = "size"
  <2>1. InCall(p)' = 0
    BY <1>1 DEF InCall, Written, Pending
  <2>2. client.reserved[p] + InCall(p) = client'.reserved[p]
    <3>1. CASE added
      BY <1>1, <1>5, <3>1 DEF InCall, Written, added
    <3>2. CASE ~added
      <4>1. InCall(p) = 0
        BY <1>1, <3>2 DEF InCall, Written, Pending, added
      <4> QED
        BY <1>3, <1>5, <3>2, <4>1
    <3> QED
      BY <3>1, <3>2
  <2>3. Reservation(p)' = Reservation(p)
    BY <1>7, <2>1, <2>2 DEF Reservation
  <2>4. \A q \in Proc \ {p} : Reservation(q)' = Reservation(q)
    BY <1>1, <1>2, ReservationLocal
  <2> QED
    BY <1>1, <1>8, <1>10, <2>3, <2>4, SizeSame
<1> QED
  BY <1>9, <1>10 DEF ExactInv, ControlInv, TypeOK, Words

(* Every step keeps the word exact (ExactInv).                             *)
LEMMA ExactStep == ExactInv /\ [Next]_vars => ExactInv'
<1> SUFFICES ASSUME ExactInv, [Next]_vars PROVE ExactInv'
  OBVIOUS
<1>1. ControlInv'
  BY ControlStep DEF ExactInv
<1>2. ASSUME NEW p \in Proc, Write(p, value), pc[p] \in {"swap", "instruction"},
             UNCHANGED <<word, client, call>>
      PROVE  ClientsInStep' /\ WordExact'
  <2>1. ClientsInStep'
    BY <1>2 DEF ExactInv, ClientsInStep, Claimed
  <2>2. WordExact'
    BY <1>2, WriteCountExact, WriteSizeExact DEF ExactInv, ControlInv, TypeOK, Words
  <2> QED
    BY <2>1, <2>2
<1>3. ASSUME NEW p \in Proc, pc[p] \in {"read", "swap"},
             \/ pc'[p] \in {"read", "swap"}
             \/ pc'[p] = "done" /\ call[p].op = "add" /\ result'[p] = <<FALSE>>,
             \A q \in Proc \ {p} : pc'[q] = pc[q] /\ result'[q] = result[q],
             UNCHANGED <<word, value, client, call>>
      PROVE  ClientsInStep' /\ WordExact'
  <2>1. ClientsInStep'
    BY <1>3 DEF ExactInv, ClientsInStep, Claimed
  <2>2. CASE word \in {"counter", "long"}
    <3>1. Holders' = Holders
      BY <1>3 DEF Holders, Written
    <3> QED
      BY <1>3, <2>1, <2>2, <3>1, CountSame
  <2>3. CASE word = "size"
    <3>1. IsLoop(call[p])
      BY <1>3 DEF ExactInv, ControlInv, CallsInStep
    <3>2. InCall(p) = 0
      BY <1>3, <3>1 DEF InCall, Written, Pending, IsLoop
    <3>3. InCall(p)' = 0
      <4>1. ~Pending(p, "subtract")'
        BY <1>3, <3>1 DEF Pending, IsLoop
      <4>2. <<FALSE>> # <<TRUE>>
        OBVIOUS
      <4>3. ~(Written(p, "add")' /\ result'[p] = <<TRUE>>)
        BY <1>3, <4>2 DEF Written
      <4> QED
        BY <4>1, <4>3, Zenon DEF InCall
    <3>4. \A q \in Proc : Reservation(q)' = Reservation(q)
      BY <1>3, <3>2, <3>3, ReservationLocal DEF Reservation
    <3> QED
      BY <1>3, <2>1, <2>3, <3>4, SizeSame
  <2> QED
    BY <2>2, <2>3 DEF ExactInv, ControlInv, TypeOK, Words
<1>4. ASSUME NEW p \in Proc, NEW c \in Calls(word), Invoke(p, c) PROVE ClientsInStep' /\ WordExact'
  BY <1>4, InvokeExact
<1>5. ASSUME NEW p \in Proc, Read(p) PROVE ClientsInStep' /\ WordExact'
  <2>1. \A q \in Proc \ {p} : pc'[q] = pc[q] /\ result'[q] = result[q]
    BY <1>5 DEF Read, ExactInv, ControlInv, TypeOK
  <2>2. \/ pc'[p] \in {"read", "swap"}
        \/ pc'[p] = "done" /\ call[p].op = "add" /\ result'[p] = <<FALSE>>
    BY <1>5 DEF Read, Refused, ExactInv, ControlInv, TypeOK
  <2> QED
    BY <1>3, <1>5, <2>1, <2>2 DEF Read
<1>6. ASSUME NEW p \in Proc, CompareAndSwap(p) PROVE ClientsInStep' /\ WordExact'
  <2>1. CASE value = old[p] /\ Write(p, old[p])
    BY <1>2, <1>6, <2>1 DEF CompareAndSwap
  <2>2. CASE value # old[p] /\ pc' = [pc EXCEPT ![p] = "read"] /\ UNCHANGED <<value, result>>
    <3>1. pc'[p] = "read" /\ \A q \in Proc \ {p} : pc'[q] = pc[q] /\ result'[q] = result[q]
      BY <2>2 DEF ExactInv, ControlInv, TypeOK
    <3> QED
      BY <1>3, <1>6, <2>2, <3>1 DEF CompareAndSwap
  <2> QED
    BY <1>6, <2>1, <2>2 DEF CompareAndSwap
<1>7. ASSUME NEW p \in Proc, Instruction(p) PROVE ClientsInStep' /\ WordExact'
  BY <1>2, <1>7 DEF Instruction
<1>8. ASSUME NEW p \in Proc, Return(p) PROVE ClientsInStep' /\ WordExact'
  BY <1>8, ReturnExact
<1>9. CASE UNCHANGED vars
  <2>1. ClientsInStep'
    BY <1>9 DEF vars, ExactInv, ClientsInStep, Claimed
  <2>2. Holders' = Holders /\ \A q \in Proc : Reservation(q)' = Reservation(q)
    BY <1>9, ReservationLocal DEF vars, Holders, Written
  <2> QED
    BY <1>1, <1>9, <2>1, <2>2, CountSame, SizeSame DEF vars, ExactInv, ControlInv, TypeOK, Words
<1> QED
  BY <1>1, <1>4, <1>5, <1>6, <1>7, <1>8, <1>9 DEF Next, Step, ExactInv

(* At first nobody holds or claims anything.                               *)
LEMMA ExactInit == Init => ExactInv
<1> SUFFICES ASSUME Init PROVE ExactInv
  OBVIOUS
<1>1. ControlInv
  BY ControlInit
<1>2. Holders = {}
  BY DEF Init, Holders, Written, NoDebt
<1>3. \A p \in Proc : Claimed(client, call)[p] = 0 /\ Reservation(p) = 0
  BY DEF Init, Claimed, Reservation, InCall, Written, Pending, NoDebt, NoCall
<1>4. ASSUME NEW n, \A p \in Proc : n[p] = 0 PROVE Total(n) = 0
  <2>1. Units(n) = {}
    BY <1>4 DEF Units
  <2> QED
    BY <2>1, FS_EmptySet DEF Total
<1>5. ClientsInStep
  <2>1. Total(Claimed(client, call)) = 0
    BY <1>3, <1>4
  <2>2. \A p \in Proc : call[p].op = "none"
    BY DEF Init, NoCall
  <2> QED
    BY <2>1, <2>2, SizesFact DEF ClientsInStep
<1>6. WordExact
  BY <1>2, <1>3, <1>4, FS_EmptySet DEF Init, WordExact, Fresh, ZeroCounter, Words
<1> QED
  BY <1>1, <1>5, <1>6 DEF ExactInv

(* In every behaviour a count is the number of processes that hold one and *)
(* the size the sum of what is reserved (WordExact).                       *)
THEOREM WordExactHolds == Spec => []WordExact
<1>1. ExactInv => WordExact
  BY DEF ExactInv
<1> QED
  BY <1>1, ExactInit, ExactStep, PTL DEF Spec
=============================================================================
