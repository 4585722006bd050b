-------------------------- MODULE SharedInfoProofs --------------------------
(***************************************************************************)
(* Proofs about SharedInfo, for any number of processes and objects.       *)
(***************************************************************************)
EXTENDS SharedInfo, FiniteSetTheorems, TLAPS

(* Incrementing a counter keeps its bits; the count grows by one unless    *)
(* the bit field wraps (msh_IncrementCounter).                             *)
LEMMA IncrementFact ==
    ASSUME NEW c \in Counter
    PROVE  /\ IncrementCounter(c) \in Counter
           /\ IncrementCounter(c).flag = c.flag
           /\ IncrementCounter(c).post = c.post
           /\ c.count + 1 < CountMod => IncrementCounter(c).count = c.count + 1
BY CountModAssumption DEF IncrementCounter, Counter

(* Decrementing with set_flag keeps post, and raises the flag of a counter *)
(* that has it lowered exactly when the count goes from one to zero        *)
(* (msh_DecrementCounter).                                                 *)
LEMMA DecrementFact ==
    ASSUME NEW c \in Counter
    PROVE  /\ DecrementCounter(c, TRUE) \in Counter
           /\ DecrementCounter(c, TRUE).post = c.post
           /\ c.flag => DecrementCounter(c, TRUE).flag
           /\ c.count > 0 => /\ DecrementCounter(c, TRUE).count = c.count - 1
                             /\ ~c.flag => (DecrementCounter(c, TRUE).flag <=> c.count = 1)
<1> DEFINE n == (c.count - 1) % CountMod
           d == DecrementCounter(c, TRUE)
<1>1. c.count \in 0 .. (CountMod - 1) /\ c.flag \in BOOLEAN /\ c.post \in BOOLEAN
  BY DEF Counter
<1>2. n \in 0 .. (CountMod - 1) /\ (c.count > 0 => n = c.count - 1)
  BY <1>1, CountModAssumption
<1> HIDE DEF n
<1>3. d = [c EXCEPT !.count = n, !.flag = c.flag \/ n = 0]
  BY DEF DecrementCounter, n
<1>4. d.count = n /\ d.flag = (c.flag \/ n = 0) /\ d.post = c.post /\ d \in Counter
  BY <1>2, <1>3, <1>1 DEF Counter
<1> HIDE DEF d
<1>5. c.flag => d.flag
  BY <1>4, Zenon
<1>6. c.count > 0 /\ ~c.flag => (d.flag <=> c.count = 1)
  <2>1. ~c.flag => (d.flag <=> n = 0)
    BY <1>4, Zenon
  <2>2. c.count > 0 => (n = 0 <=> c.count = 1)
    BY <1>1, <1>2, SMT
  <2> QED
    BY <2>1, <2>2, Zenon
<1> QED
  BY <1>1, <1>2, <1>4, <1>5, <1>6 DEF d

(* Setting post leaves the count and the flag alone (msh_SetCounterPost).  *)
LEMMA PostFact ==
    ASSUME NEW c \in Counter
    PROVE  /\ SetCounterPost(c, TRUE) \in Counter
           /\ SetCounterPost(c, TRUE).flag = c.flag
           /\ SetCounterPost(c, TRUE).count = c.count
BY DEF SetCounterPost, Counter

(* So the flags and counts of all objects are as they were.                *)
LEMMA PostFlags ==
    ASSUME num_procs \in [Obj -> Counter], NEW x \in Obj,
           num_procs' = [num_procs EXCEPT ![x] = SetCounterPost(@, TRUE)]
    PROVE  \A o \in Obj : /\ num_procs'[o].flag = num_procs[o].flag
                          /\ num_procs'[o].count = num_procs[o].count
<1>1. PICK c \in Counter : c = num_procs[x]
  OBVIOUS
<1>2. num_procs' = [num_procs EXCEPT ![x] = SetCounterPost(c, TRUE)]
  BY <1>1
<1>3. SetCounterPost(c, TRUE).flag = c.flag /\ SetCounterPost(c, TRUE).count = c.count
  BY PostFact
<1>4. PICK d : d = SetCounterPost(c, TRUE)
  OBVIOUS
<1> QED
  BY <1>1, <1>2, <1>3, <1>4

(* Zero-filled memory is a counter at zero with both bits lowered.         *)
LEMMA ZeroFact == /\ ZeroCounter \in Counter
                  /\ ~ZeroCounter.flag
                  /\ ZeroCounter.count = 0
BY CountModAssumption DEF ZeroCounter, Counter
(* The configuration file holds what is written to it, and reading it back *)
(* gives such a record or the defaults (msh_WriteConfiguration,            *)
(* msh_InitializeConfiguration).                                           *)
LEMMA ConfigFileFact ==
    ASSUME NEW S, DefaultConfig \in S, NEW file \in Seq(S), NEW c \in S
    PROVE  /\ ReadConfiguration(file) \in S
           /\ WriteConfiguration(file, c) \subseteq Seq(S)
<1>1. file # <<>> => file[1] \in S
  OBVIOUS
<1>2. <<c>> \in Seq(S) /\ <<>> \in Seq(S)
  OBVIOUS
<1>3. file # <<>> => <<file[1], c>> \in Seq(S)
  BY <1>1
<1>4. ReadConfiguration(file) \in S
  BY <1>1 DEF ReadConfiguration
<1>5. WriteConfiguration(file, c) \subseteq Seq(S)
  BY <1>2, <1>3, Zenon DEF WriteConfiguration
<1> QED
  BY <1>4, <1>5

(* The two halves of it at the type of the file.                           *)
LEMMA ReadFact ==
    ASSUME NEW file \in Seq(Config \cup {Zeroed})
    PROVE  ReadConfiguration(file) \in Config \cup {Zeroed}
BY ConfigFileFact, SharedInfoAssumption

(* Whatever msh_WriteConfiguration leaves in the file is again a sequence   *)
(* of records.                                                             *)
LEMMA WriteFact ==
    ASSUME NEW file \in Seq(Config \cup {Zeroed}), NEW c \in Config \cup {Zeroed}
    PROVE  WriteConfiguration(file, c) \subseteq Seq(Config \cup {Zeroed})
BY ConfigFileFact, SharedInfoAssumption

------------------------------------------------------------------------------
(* Every step of every process keeps the types (TypeOK).                   *)
LEMMA TypeStep == TypeOK /\ [Next]_vars => TypeOK'
<1> USE SharedInfoAssumption DEF TypeOK, Detached, PC, Goto, Close, shared, faults
<1> SUFFICES ASSUME TypeOK, [Next]_vars PROVE TypeOK'
  OBVIOUS
<1>1. ASSUME NEW p \in Proc, Open(p) PROVE TypeOK'
  <2>1. CASE name # NoObj
    BY <1>1, <2>1 DEF Open
  <2>2. CASE name = NoObj
    <3>1. PICK o \in FreeObj :
             /\ name' = o
             /\ handle' = [handle EXCEPT ![p] = o]
             /\ num_procs' = [num_procs EXCEPT ![o] = ZeroCounter]
             /\ is_initialized' = [is_initialized EXCEPT ![o] = FALSE]
             /\ user_defined' = [user_defined EXCEPT ![o] = Zeroed]
      BY <1>1, <2>2 DEF Open
    <3>2. o \in Obj
      BY DEF FreeObj
    <3>3. num_procs' \in [Obj -> Counter]
      BY <3>1, <3>2, ZeroFact
    <3> QED
      BY <1>1, <3>1, <3>2, <3>3 DEF Open
  <2> QED
    BY <2>1, <2>2
<1>2. ASSUME NEW p \in Proc, Increment(p) PROVE TypeOK'
  <2>1. handle[p] \in Obj /\ num_procs[handle[p]] \in Counter
    BY <1>2 DEF Increment
  <2>2. IncrementCounter(num_procs[handle[p]]) \in Counter
    BY <2>1, IncrementFact
  <2> QED
    BY <1>2, <2>1, <2>2 DEF Increment
<1>3. ASSUME NEW p \in Proc, CheckFlag(p) PROVE TypeOK'
  BY <1>3 DEF CheckFlag
<1>4. ASSUME NEW p \in Proc, WaitPost(p) PROVE TypeOK'
  BY <1>4 DEF WaitPost
<1>5. ASSUME NEW p \in Proc, InitConfig(p) PROVE TypeOK'
  BY <1>5, ReadFact DEF InitConfig
<1>6. ASSUME NEW p \in Proc, Publish(p) PROVE TypeOK'
  BY <1>6 DEF Publish
<1>7. ASSUME NEW p \in Proc, WaitInit(p) PROVE TypeOK'
  BY <1>7 DEF WaitInit
<1>8. ASSUME NEW p \in Proc, Resume(p) PROVE TypeOK'
  BY <1>8 DEF Resume
<1>9. ASSUME NEW p \in Proc, NEW c \in Config, SetConfig(p, c) PROVE TypeOK'
  BY <1>9 DEF SetConfig
<1>10. ASSUME NEW p \in Proc, ResetConfig(p) PROVE TypeOK'
  BY <1>10, WriteFact DEF ResetConfig
<1>11. ASSUME NEW p \in Proc, Decrement(p) PROVE TypeOK'
  <2>1. handle[p] \in Obj /\ num_procs[handle[p]] \in Counter
    BY <1>11 DEF Decrement
  <2>2. DecrementCounter(num_procs[handle[p]], TRUE) \in Counter
    BY <2>1, DecrementFact
  <2> QED
    BY <1>11, <2>1, <2>2 DEF Decrement
<1>12. ASSUME NEW p \in Proc, SaveConfig(p) PROVE TypeOK'
  <2>1. user_defined[handle[p]] \in Config \cup {Zeroed}
    BY <1>12 DEF SaveConfig
  <2> QED
    BY <1>12, <2>1, WriteFact DEF SaveConfig
<1>13. ASSUME NEW p \in Proc, Unlink(p) PROVE TypeOK'
  BY <1>13 DEF Unlink
<1>14. ASSUME NEW p \in Proc, Post(p) PROVE TypeOK'
  BY <1>14, PostFact DEF Post
<1>15. ASSUME NEW p \in Proc, Remap(p) \/ CloseUnmapped(p) PROVE TypeOK'
  BY <1>15 DEF Remap, CloseUnmapped
<1>16. ASSUME NEW p \in Proc, Fault(p) PROVE TypeOK'
  BY <1>16, SMTT(30) DEF Fault, FailOpen, FailInitConfig, FailExit, Fail, Crash
<1>17. CASE UNCHANGED vars
  BY <1>17 DEF vars
<1> QED
  BY <1>1, <1>2, <1>3, <1>4, <1>5, <1>6, <1>7, <1>8, <1>9, <1>10, <1>11, <1>12,
     <1>13, <1>14, <1>15, <1>16, <1>17 DEF Next, Step, User

(* The initial states have the types (TypeOK).                             *)
LEMMA TypeInit == Init => TypeOK
<1> SUFFICES ASSUME Init PROVE TypeOK
  OBVIOUS
<1>1. num_procs \in [Obj -> Counter]
  BY ZeroFact DEF Init
<1>2. config_file \in Seq(Config \cup {Zeroed})
  <2>1. \A c \in Config : <<c>> \in Seq(Config \cup {Zeroed})
    OBVIOUS
  <2>2. <<>> \in Seq(Config \cup {Zeroed})
    OBVIOUS
  <2> QED
    BY <2>1, <2>2, Zenon DEF Init
<1> QED
  BY <1>1, <1>2, SharedInfoAssumption DEF Init, TypeOK, Detached, PC

(* Every variable keeps its type in every behaviour, and a process holds a *)
(* handle exactly when its control point says so.                          *)
THEOREM TypeInvariant == Spec => []TypeOK
BY TypeInit, TypeStep, PTL DEF Spec

------------------------------------------------------------------------------
(* The processes counted on an object form a finite set.                   *)
LEMMA CountedFinite ==
    ASSUME NEW o \in Obj
    PROVE  /\ IsFiniteSet(CountedOn(o))
           /\ Cardinality(CountedOn(o)) \in Nat
           /\ Cardinality(CountedOn(o)) =< Cardinality(Proc)
BY SharedInfoAssumption, FS_Subset, FS_CardinalityType DEF CountedOn

(* If the processes counted on an object stay the same, so does their      *)
(* number.                                                                 *)
LEMMA CountedSame ==
    ASSUME NEW o \in Obj,
           \A q \in Proc : (pc[q] \in Counted /\ handle[q] = o)
                               <=> (pc'[q] \in Counted /\ handle'[q] = o)
    PROVE  CountedOn(o)' = CountedOn(o)
BY DEF CountedOn

(* One more process counted on an object.                                  *)
LEMMA CountedMore ==
    ASSUME NEW o \in Obj, NEW p \in Proc, p \notin CountedOn(o),
           CountedOn(o)' = CountedOn(o) \cup {p}
    PROVE  Cardinality(CountedOn(o))' = Cardinality(CountedOn(o)) + 1
<1>1. Cardinality(CountedOn(o) \cup {p}) = Cardinality(CountedOn(o)) + 1
  BY CountedFinite, FS_AddElement
<1>2. Cardinality(CountedOn(o))' = Cardinality(CountedOn(o)')
  OBVIOUS
<1> QED
  BY <1>1, <1>2

(* One process less counted on an object.                                  *)
LEMMA CountedLess ==
    ASSUME NEW o \in Obj, NEW p \in Proc, p \in CountedOn(o),
           CountedOn(o)' = CountedOn(o) \ {p}
    PROVE  Cardinality(CountedOn(o))' = Cardinality(CountedOn(o)) - 1
<1>1. Cardinality(CountedOn(o) \ {p}) = Cardinality(CountedOn(o)) - 1
  BY CountedFinite, FS_RemoveElement
<1>2. Cardinality(CountedOn(o))' = Cardinality(CountedOn(o)')
  OBVIOUS
<1> QED
  BY <1>1, <1>2

(* A process counted on an object makes the number at least one, and two   *)
(* processes make it at least two.                                         *)
LEMMA CountedPositive ==
    ASSUME NEW o \in Obj, NEW p \in CountedOn(o)
    PROVE  /\ Cardinality(CountedOn(o)) >= 1
           /\ \A q \in CountedOn(o) : q # p => Cardinality(CountedOn(o)) >= 2
<1>1. IsFiniteSet(CountedOn(o)) /\ Cardinality(CountedOn(o)) \in Nat
  BY CountedFinite
<1>2. /\ IsFiniteSet(CountedOn(o) \ {p})
      /\ Cardinality(CountedOn(o) \ {p}) = Cardinality(CountedOn(o)) - 1
  BY <1>1, FS_RemoveElement
<1>3. Cardinality(CountedOn(o) \ {p}) \in Nat
  BY <1>2, FS_CardinalityType
<1>4. ASSUME NEW q \in CountedOn(o), q # p
      PROVE  Cardinality(CountedOn(o) \ {p}) # 0
  <2>1. CountedOn(o) \ {p} # {}
    BY <1>4
  <2> QED
    BY <2>1, <1>2, FS_EmptySet
<1> QED
  BY <1>1, <1>2, <1>3, <1>4
------------------------------------------------------------------------------
(* The inductive invariant, one lemma for each group of actions.           *)

(* Steps that neither count a process in or out nor touch a counter.       *)
LEMMA QuietCount ==
    ASSUME TypeOK, CountExact, UNCHANGED <<num_procs, crashes>>,
           \A q \in Proc : handle[q] \in Obj /\ ~num_procs[handle[q]].flag
              => handle'[q] = handle[q] /\ (pc[q] \in Counted <=> pc'[q] \in Counted),
           \A q \in Proc : handle'[q] \in Obj /\ ~num_procs[handle'[q]].flag
              => handle'[q] = handle[q]
    PROVE  CountExact'
<1> SUFFICES ASSUME NEW o \in Obj, ~num_procs[o].flag
             PROVE  /\ Cardinality(CountedOn(o))' =< num_procs[o].count
                    /\ num_procs[o].count =< Cardinality(CountedOn(o))' + crashes
  BY DEF CountExact
<1>1. CountedOn(o)' = CountedOn(o)
  BY CountedSame DEF TypeOK
<1>2. Cardinality(CountedOn(o))' = Cardinality(CountedOn(o))
  BY <1>1
<1> QED
  BY <1>2 DEF CountExact

(* Reading the flag sorts the processes that were counted in time from     *)
(* those that came too late.                                               *)
LEMMA CheckFlagStep ==
    ASSUME AttachInv, NEW p \in Proc, CheckFlag(p), TypeOK'
    PROVE  AttachInv'
<1> USE DEF AttachInv, CheckFlag, Goto, TypeOK, Detached, PC, shared, faults
<1>1. CountExact'
  BY QuietCount DEF Counted
<1>2. UnflaggedIsNamed' /\ FlagKnown'
  BY DEF UnflaggedIsNamed, FlagKnown
<1>3. FirstUnique' /\ FirstInitializes'
  BY DEF FirstUnique, FirstInitializes, Counted, FlagKnown
<1>4. InitializedIsCounted' /\ ConfigLoaded'
  BY DEF InitializedIsCounted, ConfigLoaded
<1>5. SameSharedInfo' /\ LastOneOutAlone'
  BY DEF SameSharedInfo, LastOneOutAlone, UnflaggedIsNamed, FlagKnown, Live
<1> QED
  BY <1>1, <1>2, <1>3, <1>4, <1>5
(* Giving up on a segment that has been unlinked.                          *)
LEMMA WaitPostStep ==
    ASSUME AttachInv, NEW p \in Proc, WaitPost(p), TypeOK'
    PROVE  AttachInv'
<1> USE DEF AttachInv, WaitPost, Goto, TypeOK, Detached, PC, shared, faults
<1>1. CountExact'
  BY QuietCount, SharedInfoAssumption DEF Counted, FlagKnown
<1>2. UnflaggedIsNamed' /\ FlagKnown'
  BY DEF UnflaggedIsNamed, FlagKnown
<1>3. FirstUnique' /\ FirstInitializes'
  BY DEF FirstUnique, FirstInitializes, Counted, FlagKnown
<1>4. InitializedIsCounted' /\ ConfigLoaded'
  BY DEF InitializedIsCounted, ConfigLoaded
<1>5. SameSharedInfo' /\ LastOneOutAlone'
  BY DEF SameSharedInfo, LastOneOutAlone, UnflaggedIsNamed, FlagKnown, Live
<1> QED
  BY <1>1, <1>2, <1>3, <1>4, <1>5

(* The initializer loads a configuration from the file or the defaults.    *)
LEMMA InitConfigStep ==
    ASSUME AttachInv, NEW p \in Proc, InitConfig(p), TypeOK'
    PROVE  AttachInv'
<1> USE DEF AttachInv, InitConfig, Goto, TypeOK, Detached, PC, shared, faults
<1>1. CountExact'
  BY QuietCount DEF Counted, FlagKnown
<1>2. UnflaggedIsNamed' /\ FlagKnown'
  BY DEF UnflaggedIsNamed, FlagKnown
<1>3. FirstUnique' /\ FirstInitializes'
  BY DEF FirstUnique, FirstInitializes, Counted, FlagKnown
<1>4. InitializedIsCounted' /\ ConfigLoaded'
  BY ConfigFileFact, SharedInfoAssumption DEF InitializedIsCounted, ConfigLoaded, FirstInitializes
<1>5. SameSharedInfo' /\ LastOneOutAlone'
  BY DEF SameSharedInfo, LastOneOutAlone, UnflaggedIsNamed, FlagKnown, Live
<1> QED
  BY <1>1, <1>2, <1>3, <1>4, <1>5

(* Moving on once the segment is initialized.                              *)
LEMMA WaitInitStep ==
    ASSUME AttachInv, NEW p \in Proc, WaitInit(p), TypeOK'
    PROVE  AttachInv'
<1> USE DEF AttachInv, WaitInit, Goto, TypeOK, Detached, PC, shared, faults
<1>1. CountExact'
  BY QuietCount DEF Counted, FlagKnown
<1>2. UnflaggedIsNamed' /\ FlagKnown'
  BY DEF UnflaggedIsNamed, FlagKnown
<1>3. FirstUnique' /\ FirstInitializes'
  BY DEF FirstUnique, FirstInitializes, Counted, FlagKnown
<1>4. InitializedIsCounted' /\ ConfigLoaded'
  BY DEF InitializedIsCounted, ConfigLoaded
<1>5. SameSharedInfo' /\ LastOneOutAlone'
  BY DEF SameSharedInfo, LastOneOutAlone, UnflaggedIsNamed, FlagKnown, Live
<1> QED
  BY <1>1, <1>2, <1>3, <1>4, <1>5

(* The first call after an error.                                          *)
LEMMA ResumeStep ==
    ASSUME AttachInv, NEW p \in Proc, Resume(p), TypeOK'
    PROVE  AttachInv'
<1> USE DEF AttachInv, Resume, Goto, TypeOK, Detached, PC, shared, faults
<1>1. CountExact'
  BY QuietCount DEF Counted, FlagKnown
<1>2. UnflaggedIsNamed' /\ FlagKnown'
  BY DEF UnflaggedIsNamed, FlagKnown
<1>3. FirstUnique' /\ FirstInitializes'
  BY DEF FirstUnique, FirstInitializes, Counted, FlagKnown
<1>4. InitializedIsCounted' /\ ConfigLoaded'
  BY DEF InitializedIsCounted, ConfigLoaded
<1>5. SameSharedInfo' /\ LastOneOutAlone'
  BY DEF SameSharedInfo, LastOneOutAlone, UnflaggedIsNamed, FlagKnown, Live
<1> QED
  BY <1>1, <1>2, <1>3, <1>4, <1>5

(* Restoring and saving the defaults.                                      *)
LEMMA ResetConfigStep ==
    ASSUME AttachInv, NEW p \in Proc, ResetConfig(p), TypeOK'
    PROVE  AttachInv'
<1> USE DEF AttachInv, ResetConfig, Goto, TypeOK, Detached, PC, shared, faults
<1>1. CountExact'
  BY QuietCount DEF Counted, FlagKnown
<1>2. UnflaggedIsNamed' /\ FlagKnown'
  BY DEF UnflaggedIsNamed, FlagKnown
<1>3. FirstUnique' /\ FirstInitializes'
  BY DEF FirstUnique, FirstInitializes, Counted, FlagKnown
<1>4. InitializedIsCounted' /\ ConfigLoaded'
  BY ConfigFileFact, SharedInfoAssumption DEF InitializedIsCounted, ConfigLoaded
<1>5. SameSharedInfo' /\ LastOneOutAlone'
  BY DEF SameSharedInfo, LastOneOutAlone, UnflaggedIsNamed, FlagKnown, Live
<1> QED
  BY <1>1, <1>2, <1>3, <1>4, <1>5

(* The last one out saves the configuration.                               *)
LEMMA SaveConfigStep ==
    ASSUME AttachInv, NEW p \in Proc, SaveConfig(p), TypeOK'
    PROVE  AttachInv'
<1> USE DEF AttachInv, SaveConfig, Goto, TypeOK, Detached, PC, shared, faults
<1>1. CountExact'
  BY QuietCount DEF Counted, FlagKnown
<1>2. UnflaggedIsNamed' /\ FlagKnown'
  BY DEF UnflaggedIsNamed, FlagKnown
<1>3. FirstUnique' /\ FirstInitializes'
  BY DEF FirstUnique, FirstInitializes, Counted, FlagKnown
<1>4. InitializedIsCounted' /\ ConfigLoaded'
  <2>1. user_defined[handle[p]] \in Config /\ config_file \in Seq(Config)
    BY DEF ConfigLoaded
  <2>2. config_file' \in Seq(Config)
    BY <2>1, ConfigFileFact, SharedInfoAssumption
  <2> QED
    BY <2>1, <2>2 DEF InitializedIsCounted, ConfigLoaded
<1>5. SameSharedInfo' /\ LastOneOutAlone'
  BY DEF SameSharedInfo, LastOneOutAlone, UnflaggedIsNamed, FlagKnown, Live
<1> QED
  BY <1>1, <1>2, <1>3, <1>4, <1>5

(* The last one out fails to save or to unlink.                            *)
LEMMA FailExitStep ==
    ASSUME AttachInv, NEW p \in Proc, FailExit(p), TypeOK'
    PROVE  AttachInv'
<1> USE DEF AttachInv, FailExit, Goto, TypeOK, Detached, PC, shared, faults, Fail
<1>1. CountExact'
  BY QuietCount DEF Counted, FlagKnown
<1>2. UnflaggedIsNamed' /\ FlagKnown'
  BY DEF UnflaggedIsNamed, FlagKnown
<1>3. FirstUnique' /\ FirstInitializes'
  BY DEF FirstUnique, FirstInitializes, Counted, FlagKnown
<1>4. InitializedIsCounted' /\ ConfigLoaded'
  BY DEF InitializedIsCounted, ConfigLoaded
<1>5. SameSharedInfo' /\ LastOneOutAlone'
  BY DEF SameSharedInfo, LastOneOutAlone, UnflaggedIsNamed, FlagKnown, Live
<1> QED
  BY <1>1, <1>2, <1>3, <1>4, <1>5

(* The initializer fails after it has written the defaults.                *)
LEMMA FailInitConfigStep ==
    ASSUME AttachInv, NEW p \in Proc, FailInitConfig(p), TypeOK'
    PROVE  AttachInv'
<1> USE DEF AttachInv, FailInitConfig, Goto, TypeOK, Detached, PC, shared, faults, Fail
<1>1. CountExact'
  BY QuietCount DEF Counted, FlagKnown
<1>2. UnflaggedIsNamed' /\ FlagKnown'
  BY DEF UnflaggedIsNamed, FlagKnown
<1>3. FirstUnique' /\ FirstInitializes'
  BY DEF FirstUnique, FirstInitializes, Counted, FlagKnown
<1>4. InitializedIsCounted' /\ ConfigLoaded'
  BY SharedInfoAssumption DEF InitializedIsCounted, ConfigLoaded, FirstInitializes
<1>5. SameSharedInfo' /\ LastOneOutAlone'
  BY DEF SameSharedInfo, LastOneOutAlone, UnflaggedIsNamed, FlagKnown, Live
<1> QED
  BY <1>1, <1>2, <1>3, <1>4, <1>5

(* Publishing the segment: its initializer is still counted, so the count  *)
(* is positive.                                                            *)
LEMMA PublishStep ==
    ASSUME AttachInv, NEW p \in Proc, Publish(p), TypeOK'
    PROVE  AttachInv'
<1> USE DEF AttachInv, Publish, Goto, TypeOK, Detached, PC, shared, faults
<1>1. CountExact'
  BY QuietCount DEF Counted, FlagKnown
<1>2. UnflaggedIsNamed' /\ FlagKnown'
  BY DEF UnflaggedIsNamed, FlagKnown
<1>3. FirstUnique' /\ FirstInitializes'
  BY DEF FirstUnique, FirstInitializes, Counted, FlagKnown
<1>4. num_procs[handle[p]].count > 0
  <2>1. handle[p] \in Obj /\ ~num_procs[handle[p]].flag
    BY DEF FlagKnown
  <2>2. p \in CountedOn(handle[p])
    BY DEF CountedOn, Counted
  <2>3. Cardinality(CountedOn(handle[p])) \in Nat /\ num_procs[handle[p]].count \in Nat
    BY <2>1, CountedFinite, CountModAssumption DEF Counter
  <2> QED
    BY <2>1, <2>2, <2>3, CountedPositive DEF CountExact
<1>5. InitializedIsCounted' /\ ConfigLoaded'
  BY <1>4 DEF InitializedIsCounted, ConfigLoaded
<1>6. SameSharedInfo' /\ LastOneOutAlone'
  BY DEF SameSharedInfo, LastOneOutAlone, Live
<1> QED
  BY <1>1, <1>2, <1>3, <1>5, <1>6

(* Setting a configuration parameter.                                      *)
LEMMA SetConfigStep ==
    ASSUME AttachInv, NEW p \in Proc, NEW c \in Config, SetConfig(p, c), TypeOK'
    PROVE  AttachInv'
<1> USE DEF AttachInv, SetConfig, TypeOK, Detached, PC, faults
<1>1. CountExact'
  BY QuietCount
<1>2. /\ UnflaggedIsNamed' /\ FlagKnown' /\ FirstUnique' /\ FirstInitializes'
      /\ InitializedIsCounted' /\ SameSharedInfo' /\ LastOneOutAlone'
  BY DEF UnflaggedIsNamed, FlagKnown, FirstUnique, FirstInitializes,
         InitializedIsCounted, SameSharedInfo, LastOneOutAlone
<1>3. ConfigLoaded'
  BY DEF ConfigLoaded
<1> QED
  BY <1>1, <1>2, <1>3

(* Unlinking: the name belongs to the last one out's own object, and       *)
(* nobody else is on it.                                                   *)
LEMMA UnlinkStep ==
    ASSUME AttachInv, NEW p \in Proc, Unlink(p), TypeOK'
    PROVE  AttachInv'
<1> USE DEF AttachInv, Unlink, Goto, TypeOK, Detached, PC, shared, faults
<1>1. CountExact'
  BY QuietCount DEF Counted
<1>2. UnflaggedIsNamed'
  BY DEF UnflaggedIsNamed, FlagKnown, SameSharedInfo, Live
<1>3. FlagKnown' /\ FirstUnique' /\ FirstInitializes'
  BY DEF FlagKnown, FirstUnique, FirstInitializes, Counted
<1>4. InitializedIsCounted' /\ ConfigLoaded'
  BY DEF InitializedIsCounted, ConfigLoaded
<1>5. SameSharedInfo' /\ LastOneOutAlone'
  BY DEF SameSharedInfo, LastOneOutAlone, Live
<1> QED
  BY <1>1, <1>2, <1>3, <1>4, <1>5
(* Setting post on the object just unlinked, and closing it.               *)
LEMMA PostStep ==
    ASSUME AttachInv, NEW p \in Proc, Post(p), TypeOK'
    PROVE  AttachInv'
<1> USE DEF AttachInv, Post, Goto, Close, TypeOK, Detached, PC, faults
<1>1. handle[p] \in Obj /\ num_procs[handle[p]].flag
  BY DEF FlagKnown
<1>2. \A o \in Obj : /\ num_procs'[o].flag = num_procs[o].flag
                     /\ num_procs'[o].count = num_procs[o].count
  <2>1. num_procs \in [Obj -> Counter]
    OBVIOUS
  <2>2. num_procs' = [num_procs EXCEPT ![handle[p]] = SetCounterPost(@, TRUE)]
    OBVIOUS
  <2> HIDE DEF AttachInv, Post, Goto, Close, TypeOK, Detached, PC, faults
  <2> QED
    BY <1>1, <2>1, <2>2, PostFlags
<1>3. CountExact'
  <2> SUFFICES ASSUME NEW o \in Obj, ~num_procs'[o].flag
               PROVE  /\ Cardinality(CountedOn(o))' =< num_procs'[o].count
                      /\ num_procs'[o].count =< Cardinality(CountedOn(o))' + crashes'
    BY DEF CountExact
  <2>1. CountedOn(o)' = CountedOn(o)
    BY CountedSame, SharedInfoAssumption DEF Counted
  <2> QED
    BY <1>2, <2>1 DEF CountExact
<1>4. UnflaggedIsNamed' /\ FlagKnown'
  BY <1>2, SharedInfoAssumption, ZenonT(40) DEF UnflaggedIsNamed, FlagKnown
<1>5. FirstUnique' /\ FirstInitializes'
  <2>1. FirstUnique'
    <3>1. \A q \in Proc : pc'[q] \in Counted =>
             /\ pc[q] \in Counted
             /\ handle'[q] = handle[q] /\ handle[q] \in Obj
             /\ first'[q] = first[q]
      BY DEF Counted
    <3>2. ASSUME NEW q \in Proc, NEW r \in Proc,
                 pc'[q] \in Counted, pc'[r] \in Counted, handle'[q] = handle'[r],
                 ~num_procs'[handle'[q]].flag, first'[q], first'[r]
          PROVE  q = r
      <4>1. ~num_procs[handle[q]].flag
        <5> HIDE DEF AttachInv, Post, Goto, Close, TypeOK, Detached, PC, faults
        <5> QED
          BY <1>2, <3>1, <3>2
      <4> QED
        BY <3>1, <3>2, <4>1 DEF FirstUnique
    <3> QED
      BY <3>2 DEF FirstUnique
  <2>2. FirstInitializes'
    BY <1>2, ZenonT(40) DEF FirstInitializes
  <2> QED
    BY <2>1, <2>2
<1>6. InitializedIsCounted' /\ ConfigLoaded'
  BY <1>2 DEF InitializedIsCounted, ConfigLoaded
<1>7. SameSharedInfo' /\ LastOneOutAlone'
  BY DEF SameSharedInfo, LastOneOutAlone, Live
<1> QED
  BY <1>3, <1>4, <1>5, <1>6, <1>7

(* A failure before being counted.                                         *)
LEMMA FailOpenStep ==
    ASSUME AttachInv, NEW p \in Proc, FailOpen(p), TypeOK'
    PROVE  AttachInv'
<1> USE DEF AttachInv, FailOpen, Goto, TypeOK, Detached, PC, shared, faults, Fail
<1>1. CountExact'
  BY QuietCount DEF Counted
<1>2. UnflaggedIsNamed' /\ FlagKnown'
  BY DEF UnflaggedIsNamed, FlagKnown
<1>3. FirstUnique' /\ FirstInitializes'
  BY DEF FirstUnique, FirstInitializes, Counted, FlagKnown
<1>4. InitializedIsCounted' /\ ConfigLoaded'
  BY DEF InitializedIsCounted, ConfigLoaded
<1>5. SameSharedInfo' /\ LastOneOutAlone'
  BY DEF SameSharedInfo, LastOneOutAlone, Live
<1> QED
  BY <1>1, <1>2, <1>3, <1>4, <1>5

(* Mapping a handle that an earlier call has left behind.                  *)
LEMMA RemapStep ==
    ASSUME AttachInv, NEW p \in Proc, Remap(p), TypeOK'
    PROVE  AttachInv'
<1> USE DEF AttachInv, Remap, Goto, TypeOK, Detached, PC, shared, faults, Fail
<1>1. CountExact'
  BY QuietCount DEF Counted
<1>2. UnflaggedIsNamed' /\ FlagKnown'
  BY DEF UnflaggedIsNamed, FlagKnown
<1>3. FirstUnique' /\ FirstInitializes'
  BY DEF FirstUnique, FirstInitializes, Counted, FlagKnown
<1>4. InitializedIsCounted' /\ ConfigLoaded'
  BY DEF InitializedIsCounted, ConfigLoaded
<1>5. SameSharedInfo' /\ LastOneOutAlone'
  BY DEF SameSharedInfo, LastOneOutAlone, Live
<1> QED
  BY <1>1, <1>2, <1>3, <1>4, <1>5

(* Giving up before being counted.                                         *)
LEMMA CloseUnmappedStep ==
    ASSUME AttachInv, NEW p \in Proc, CloseUnmapped(p), TypeOK'
    PROVE  AttachInv'
<1> USE DEF AttachInv, CloseUnmapped, faults, Goto, Close, TypeOK, Detached, PC, shared
<1>1. CountExact'
  <2> SUFFICES ASSUME NEW o \in Obj, ~num_procs'[o].flag
               PROVE  /\ Cardinality(CountedOn(o))' =< num_procs'[o].count
                      /\ num_procs'[o].count =< Cardinality(CountedOn(o))' + crashes'
    BY DEF CountExact
  <2>1. CountedOn(o)' = CountedOn(o)
    BY CountedSame, SharedInfoAssumption DEF Counted
  <2> QED
    BY <2>1 DEF CountExact
<1>2. UnflaggedIsNamed' /\ FlagKnown'
  BY SharedInfoAssumption DEF UnflaggedIsNamed, FlagKnown
<1>3. FirstUnique' /\ FirstInitializes'
  BY DEF FirstUnique, FirstInitializes, Counted
<1>4. InitializedIsCounted' /\ ConfigLoaded'
  BY DEF InitializedIsCounted, ConfigLoaded
<1>5. SameSharedInfo' /\ LastOneOutAlone'
  BY DEF SameSharedInfo, LastOneOutAlone, Live
<1> QED
  BY <1>1, <1>2, <1>3, <1>4, <1>5

(* A crash takes a process away but leaves its increment in the counter.   *)
LEMMA CrashStep ==
    ASSUME AttachInv, NEW p \in Proc, Crash(p), TypeOK'
    PROVE  AttachInv'
<1> USE DEF AttachInv, Crash, Goto, Close, TypeOK, Detached, PC, shared
<1>1. CountExact'
  <2> SUFFICES ASSUME NEW o \in Obj, ~num_procs[o].flag
               PROVE  /\ Cardinality(CountedOn(o))' =< num_procs[o].count
                      /\ num_procs[o].count =< Cardinality(CountedOn(o))' + (crashes + 1)
    BY DEF CountExact
  <2>1. Cardinality(CountedOn(o)) \in Nat /\ num_procs[o].count \in Nat /\ crashes \in Nat
    BY CountedFinite, CountModAssumption, SharedInfoAssumption DEF Counter
  <2>2. CASE p \in CountedOn(o)
    <3>1. CountedOn(o)' = CountedOn(o) \ {p}
      BY <2>2, SharedInfoAssumption DEF CountedOn, Counted
    <3>2. Cardinality(CountedOn(o))' = Cardinality(CountedOn(o)) - 1
      BY <2>2, <3>1, CountedLess
    <3> QED
      BY <2>1, <3>2 DEF CountExact
  <2>3. CASE p \notin CountedOn(o)
    <3>1. CountedOn(o)' = CountedOn(o)
      BY <2>3, SharedInfoAssumption DEF CountedOn, Counted
    <3> QED
      BY <2>1, <3>1 DEF CountExact
  <2> QED
    BY <2>2, <2>3
<1>2. UnflaggedIsNamed' /\ FlagKnown'
  BY SharedInfoAssumption DEF UnflaggedIsNamed, FlagKnown
<1>3. FirstUnique' /\ FirstInitializes'
  BY DEF FirstUnique, FirstInitializes, Counted
<1>4. InitializedIsCounted' /\ ConfigLoaded'
  BY DEF InitializedIsCounted, ConfigLoaded
<1>5. SameSharedInfo' /\ LastOneOutAlone'
  BY DEF SameSharedInfo, LastOneOutAlone, Live
<1> QED
  BY <1>1, <1>2, <1>3, <1>4, <1>5

(* Counting a process in.  Only the first on an unflagged object sees one. *)
LEMMA IncrementStep ==
    ASSUME AttachInv, NEW p \in Proc, Increment(p), TypeOK'
    PROVE  AttachInv'
<1> DEFINE h == handle[p]
<1> USE DEF AttachInv, Increment, Goto, TypeOK, Detached, PC, faults
<1>1. h \in Obj /\ num_procs[h] \in Counter /\ num_procs[h].count \in Nat
  BY CountModAssumption DEF Counter
<1>2. p \notin CountedOn(h) /\ Cardinality(CountedOn(h)) \in Nat
  BY <1>1, CountedFinite DEF CountedOn, Counted
<1>3. CountedOn(h)' = CountedOn(h) \cup {p}
  BY DEF CountedOn, Counted
<1>4. Cardinality(CountedOn(h))' = Cardinality(CountedOn(h)) + 1
  BY <1>1, <1>2, <1>3, CountedMore
<1>5. ~num_procs[h].flag => num_procs[h].count + 1 < CountMod
  <2>1. (\A q \in CountedOn(h) : q # p) /\ CountedOn(h) \cup {p} \subseteq Proc
    BY <1>2 DEF CountedOn
  <2>2. Cardinality(CountedOn(h) \cup {p}) =< Cardinality(Proc)
    BY <2>1, SharedInfoAssumption, FS_Subset
  <2>3. Cardinality(CountedOn(h) \cup {p}) = Cardinality(CountedOn(h)) + 1
    BY <1>1, <1>2, CountedFinite, FS_AddElement
  <2>4. Cardinality(Proc) \in Nat
    BY SharedInfoAssumption, FS_CardinalityType
  <2> QED
    BY <1>1, <1>2, <2>2, <2>3, <2>4, SharedInfoAssumption, CountModAssumption DEF CountExact
<1>6. /\ num_procs' = [num_procs EXCEPT ![h] = IncrementCounter(num_procs[h])]
      /\ \A o \in Obj : num_procs'[o].flag = num_procs[o].flag
      /\ ~num_procs[h].flag => num_procs'[h].count = num_procs[h].count + 1
      /\ \A o \in Obj : o # h => num_procs'[o] = num_procs[o]
  BY <1>1, <1>5, IncrementFact
<1>7. first'[p] <=> num_procs'[h].count = 1
  BY <1>1, <1>6, ZenonT(40)
<1>8. CountExact'
  <2> SUFFICES ASSUME NEW o \in Obj, ~num_procs[o].flag
               PROVE  /\ Cardinality(CountedOn(o))' =< num_procs'[o].count
                      /\ num_procs'[o].count =< Cardinality(CountedOn(o))' + crashes
    BY <1>6 DEF CountExact
  <2>1. CASE o = h
    BY <1>1, <1>2, <1>4, <1>6, <2>1, SharedInfoAssumption DEF CountExact
  <2>2. CASE o # h
    <3>1. CountedOn(o)' = CountedOn(o)
      BY <2>2 DEF CountedOn, Counted
    <3> QED
      BY <1>6, <2>2, <3>1 DEF CountExact
  <2> QED
    BY <2>1, <2>2
<1>9. UnflaggedIsNamed' /\ FlagKnown'
  BY <1>6 DEF UnflaggedIsNamed, FlagKnown
<1>10. ASSUME ~num_procs[h].flag, first'[p]
       PROVE  /\ \A q \in Proc : ~(pc[q] \in Counted /\ handle[q] = h)
              /\ ~is_initialized[h]
  <2>1. num_procs[h].count = 0
    BY <1>1, <1>6, <1>7, <1>10
  <2>2. \A q \in CountedOn(h) : FALSE
    BY <1>1, <1>2, <1>10, <2>1, CountedPositive DEF CountExact
  <2> QED
    BY <1>1, <1>10, <2>1, <2>2 DEF CountedOn, InitializedIsCounted
<1>11. FirstUnique'
  BY <1>6, <1>10 DEF FirstUnique, Counted
<1>12. FirstInitializes'
  BY <1>6, <1>10 DEF FirstInitializes
<1>13. InitializedIsCounted'
  BY <1>1, <1>6 DEF InitializedIsCounted
<1>14. ConfigLoaded' /\ SameSharedInfo' /\ LastOneOutAlone'
  BY DEF ConfigLoaded, SameSharedInfo, LastOneOutAlone, Live
<1> QED
  BY <1>8, <1>9, <1>11, <1>12, <1>13, <1>14
(* Opening: either the named object, or a fresh one that nobody has.       *)
LEMMA OpenStep ==
    ASSUME AttachInv, NEW p \in Proc, Open(p), TypeOK'
    PROVE  AttachInv'
<1> USE DEF AttachInv, Open, Goto, TypeOK, Detached, PC, faults
<1>1. CASE name # NoObj
  <2> USE <1>1 DEF shared
  <2>1. CountExact'
    <3> SUFFICES ASSUME NEW o \in Obj, ~num_procs[o].flag
                 PROVE  /\ Cardinality(CountedOn(o))' =< num_procs[o].count
                        /\ num_procs[o].count =< Cardinality(CountedOn(o))' + crashes
      BY DEF CountExact
    <3>1. CountedOn(o)' = CountedOn(o)
      BY CountedSame DEF Counted
    <3> QED
      BY <3>1 DEF CountExact
  <2>2. UnflaggedIsNamed' /\ FlagKnown'
    BY DEF UnflaggedIsNamed, FlagKnown
  <2>3. FirstUnique' /\ FirstInitializes'
    BY DEF FirstUnique, FirstInitializes, Counted
  <2>4. InitializedIsCounted' /\ ConfigLoaded'
    BY DEF InitializedIsCounted, ConfigLoaded
  <2>5. SameSharedInfo' /\ LastOneOutAlone'
    BY DEF SameSharedInfo, LastOneOutAlone, Live
  <2> QED
    BY <2>1, <2>2, <2>3, <2>4, <2>5
<1>2. CASE name = NoObj
  <2>1. PICK o \in FreeObj :
           /\ name' = o
           /\ handle' = [handle EXCEPT ![p] = o]
           /\ num_procs' = [num_procs EXCEPT ![o] = ZeroCounter]
           /\ is_initialized' = [is_initialized EXCEPT ![o] = FALSE]
           /\ user_defined' = [user_defined EXCEPT ![o] = Zeroed]
    BY <1>2
  <2>2. o \in Obj /\ \A q \in Proc : handle[q] # o
    BY DEF FreeObj
  <2>3. \A q \in Proc : q # p => /\ pc'[q] = pc[q] /\ handle'[q] = handle[q]
                                 /\ handle[q] # o
    BY <2>1, <2>2
  <2>4. \A n \in Obj : n # o => /\ num_procs'[n] = num_procs[n]
                                /\ is_initialized'[n] = is_initialized[n]
                                /\ user_defined'[n] = user_defined[n]
    BY <2>1, <2>2
  <2>5. /\ num_procs'[o] = ZeroCounter /\ ~is_initialized'[o]
        /\ pc'[p] = "opened" /\ handle'[p] = o
    BY <2>1, <2>2
  <2>6. \A q \in Proc : handle[q] # NoObj => /\ num_procs[handle[q]].flag
                                             /\ num_procs'[handle[q]].flag
    BY <1>2, <2>2, <2>4 DEF UnflaggedIsNamed
  <2>7. CountExact'
    <3> SUFFICES ASSUME NEW n \in Obj, ~num_procs'[n].flag
                 PROVE  /\ Cardinality(CountedOn(n))' =< num_procs'[n].count
                        /\ num_procs'[n].count =< Cardinality(CountedOn(n))' + crashes
      BY DEF CountExact
    <3>1. CountedOn(n)' = CountedOn(n)
      BY <2>2, <2>3, <2>5 DEF CountedOn, Counted
    <3>2. CASE n = o
      <4>1. CountedOn(o)' = {}
        BY <2>2, <3>1, <3>2 DEF CountedOn
      <4>2. Cardinality(CountedOn(o))' = 0
        BY <4>1, FS_EmptySet
      <4> QED
        BY <2>5, <3>2, <4>2, ZeroFact, SharedInfoAssumption
    <3>3. CASE n # o
      BY <2>4, <3>1, <3>3 DEF CountExact
    <3> QED
      BY <3>2, <3>3
  <2>8. UnflaggedIsNamed'
    BY <2>1, <2>3, <2>5, <2>6 DEF UnflaggedIsNamed
  <2>9. \A q \in Proc : pc[q] \notin Live
    BY <1>2, SharedInfoAssumption DEF SameSharedInfo, Live
  <2>10. FlagKnown'
    BY <2>3, <2>5, <2>6, <2>9, SharedInfoAssumption DEF FlagKnown, Live
  <2>11. FirstUnique'
    BY <2>3, <2>5, <2>6 DEF FirstUnique, Counted
  <2>12. FirstInitializes'
    BY <2>3, <2>5, <2>6, <2>9 DEF FirstInitializes, Live
  <2>13. InitializedIsCounted'
    BY <2>4, <2>5 DEF InitializedIsCounted
  <2>14. SameSharedInfo' /\ LastOneOutAlone'
    BY <2>3, <2>5, <2>9 DEF SameSharedInfo, LastOneOutAlone, Live
  <2>15. ConfigLoaded'
    BY <2>2, <2>3, <2>4, <2>5, <2>9 DEF ConfigLoaded, Live
  <2> QED
    BY <2>7, <2>8, <2>10, <2>11, <2>12, <2>13, <2>14, <2>15
<1> QED
  BY <1>1, <1>2

(* Counting a process out.  The flag goes up only if nobody else is        *)
(* counted on the object, so the last one out is alone.                    *)
LEMMA DecrementStep ==
    ASSUME AttachInv, NEW p \in Proc, Decrement(p), TypeOK'
    PROVE  AttachInv'
<1> DEFINE h == handle[p]
           old == num_procs[h]
           new == DecrementCounter(old, TRUE)
<1> USE DEF AttachInv, Decrement, Goto, Close, TypeOK, Detached, PC, faults
<1>1. h \in Obj /\ old \in Counter /\ old.count \in Nat /\ crashes \in Nat
  BY CountModAssumption, SharedInfoAssumption DEF Counter
<1>0. pc[p] \in {"up", "failed"} /\ handle[p] = h
  OBVIOUS
<1>2. p \in CountedOn(h) /\ Cardinality(CountedOn(h)) \in Nat
  BY <1>1, CountedFinite DEF CountedOn, Counted
<1>3. /\ num_procs' = [num_procs EXCEPT ![h] = new]
      /\ num_procs'[h] = new
      /\ \A o \in Obj : o # h => num_procs'[o] = num_procs[o]
  BY <1>1
<1>4. ~old.flag => old.count > 0
  BY <1>1, <1>2, CountedPositive DEF CountExact
<1>5. /\ new \in Counter /\ (old.flag => new.flag)
      /\ ~old.flag => /\ new.count = old.count - 1
                      /\ new.flag <=> old.count = 1
  BY <1>1, <1>4, DecrementFact, Zenon
<1>6. \/ /\ ~old.flag /\ new.flag
         /\ pc' = [pc EXCEPT ![p] = "write_config"] /\ handle' = handle
      \/ /\ old.flag <=> new.flag
         /\ pc' = [pc EXCEPT ![p] = "out"] /\ handle' = [handle EXCEPT ![p] = NoObj]
  BY <1>1, <1>5 DEF RaisedFlag, Counter
<1> HIDE DEF Decrement, h, old, new
<1>7. ASSUME ~old.flag, new.flag
      PROVE  \A q \in Proc : pc[q] \in Counted /\ handle[q] = h => q = p
  <2>1. old.count = 1
    BY <1>5, <1>7, Zenon
  <2>2. Cardinality(CountedOn(h)) =< 1
    BY <1>1, <1>7, <2>1 DEF CountExact, old
  <2>3. \A q \in CountedOn(h) : q = p
    BY <1>1, <1>2, <2>2, CountedPositive
  <2> QED
    BY <2>3 DEF CountedOn
<1>8. /\ \A q \in Proc : q # p => pc'[q] = pc[q] /\ handle'[q] = handle[q]
      /\ pc'[p] \notin Counted
      /\ UNCHANGED <<name, is_initialized, user_defined, config_file, first, crashes>>
  BY <1>6 DEF Counted, Decrement
<1>9. CountExact'
  <2> SUFFICES ASSUME NEW o \in Obj, ~num_procs'[o].flag
               PROVE  /\ Cardinality(CountedOn(o))' =< num_procs'[o].count
                      /\ num_procs'[o].count =< Cardinality(CountedOn(o))' + crashes
    BY <1>8 DEF CountExact
  <2>1. CASE o = h
    <3>1. CountedOn(o)' = CountedOn(o) \ {p}
      BY <1>6, <1>8, <2>1 DEF CountedOn
    <3>2. Cardinality(CountedOn(o))' = Cardinality(CountedOn(o)) - 1
      BY <1>2, <2>1, <3>1, CountedLess
    <3>3. ~old.flag
      BY <1>3, <1>5, <2>1
    <3> QED
      <4>1. num_procs'[o].count = num_procs[o].count - 1
        BY <1>3, <1>5, <2>1, <3>3, Zenon DEF old
      <4>2. /\ Cardinality(CountedOn(o)) =< num_procs[o].count
            /\ num_procs[o].count =< Cardinality(CountedOn(o)) + crashes
        BY <2>1, <3>3 DEF CountExact, old
      <4> QED
        BY <1>1, <1>2, <2>1, <3>2, <4>1, <4>2 DEF old
  <2>2. CASE o # h
    <3>1. CountedOn(o)' = CountedOn(o)
      <4>1. handle[p] # o /\ handle'[p] # o
        BY <1>0, <1>6, <2>2, SharedInfoAssumption
      <4> QED
        BY <4>1, <1>8, CountedSame
    <3> QED
      BY <1>3, <2>2, <3>1 DEF CountExact
  <2> QED
    BY <2>1, <2>2
<1>10. \A o \in Obj : num_procs[o].flag => num_procs'[o].flag
  BY <1>3, <1>5 DEF old
<1>11. UnflaggedIsNamed'
  BY <1>6, <1>8, <1>10 DEF UnflaggedIsNamed
<1>12. FlagKnown'
  <2>1. ASSUME NEW q \in Proc, q # p, pc'[q] \in {"init", "publish", "wait_init"}
        PROVE  ~num_procs'[handle'[q]].flag
    <3>1. pc[q] \in Counted /\ handle[q] \in Obj /\ ~num_procs[handle[q]].flag
      BY <1>8, <2>1 DEF FlagKnown, Counted
    <3>2. CASE handle[q] = h
      BY <1>3, <1>5, <1>6, <1>7, <1>8, <2>1, <3>1, <3>2 DEF old
    <3>3. CASE handle[q] # h
      BY <1>3, <1>8, <2>1, <3>1, <3>3
    <3> QED
      BY <3>2, <3>3
  <2>2. ASSUME NEW q \in Proc, q # p,
               pc'[q] \in {"wait_post", "write_config", "unlink", "post"}
        PROVE  num_procs'[handle'[q]].flag
    BY <1>8, <1>10, <2>2 DEF FlagKnown
  <2>3. /\ pc'[p] \notin {"init", "publish", "wait_init"}
        /\ pc'[p] \in {"wait_post", "write_config", "unlink", "post"}
              => num_procs'[handle'[p]].flag
    BY <1>0, <1>3, <1>6
  <2> QED
    BY <2>1, <2>2, <2>3 DEF FlagKnown
<1>13. FirstUnique'
  <2>1. ASSUME NEW q \in Proc, NEW r \in Proc,
               pc'[q] \in Counted, pc'[r] \in Counted, handle'[q] = handle'[r],
               ~num_procs'[handle'[q]].flag, first'[q], first'[r]
        PROVE  q = r
    <3>1. /\ pc[q] \in Counted /\ pc[r] \in Counted /\ handle[q] = handle[r]
          /\ handle[q] \in Obj /\ handle'[q] = handle[q] /\ first[q] /\ first[r]
      BY <1>8, <2>1 DEF Counted
    <3>2. ~num_procs[handle[q]].flag
      BY <1>10, <2>1, <3>1
    <3> QED
      BY <3>1, <3>2 DEF FirstUnique
  <2> QED
    BY <2>1 DEF FirstUnique
<1>14. FirstInitializes'
  BY <1>6, <1>8, <1>10 DEF FirstInitializes
<1>15. InitializedIsCounted'
  BY <1>1, <1>3, <1>4, <1>5, <1>8 DEF InitializedIsCounted
<1>16. SameSharedInfo'
  BY <1>0, <1>6, <1>8 DEF SameSharedInfo, Live
<1>17. LastOneOutAlone'
  <2>1. CASE ~old.flag /\ new.flag
    <3>1. \A q \in Proc : q # p => pc[q] \notin Live
      <4>1. SUFFICES ASSUME NEW q \in Proc, q # p, pc[q] \in Live PROVE FALSE
        OBVIOUS
      <4>2. name = h /\ handle[q] = h
        BY <1>0, <4>1 DEF SameSharedInfo, Live
      <4>3. pc[q] \in Counted
        BY <2>1, <4>1, <4>2 DEF Live, Counted, FlagKnown, old
      <4> QED
        BY <1>7, <2>1, <4>1, <4>2, <4>3
    <3> QED
      BY <1>8, <3>1 DEF LastOneOutAlone, Live
  <2>2. CASE old.flag <=> new.flag
    BY <1>6, <1>8, <2>2 DEF LastOneOutAlone, Live
  <2> QED
    BY <1>5, <2>1, <2>2
<1>18. ConfigLoaded'
  BY <1>6, <1>8 DEF ConfigLoaded, Decrement
<1> QED
  BY <1>9, <1>11, <1>12, <1>13, <1>14, <1>15, <1>16, <1>17, <1>18
(* Every step of every process keeps the inductive invariant.              *)
LEMMA AttachInvStep == AttachInv /\ [Next]_vars => AttachInv'
<1> SUFFICES ASSUME AttachInv, [Next]_vars PROVE AttachInv'
  OBVIOUS
<1>1. TypeOK'
  BY TypeStep DEF AttachInv
<1>2. CASE Next
  <2>1. PICK p \in Proc : Step(p) \/ User(p) \/ Fault(p)
    BY <1>2 DEF Next
  <2>2. CASE Step(p)
    BY <1>1, <2>2, IncrementStep, CheckFlagStep, WaitPostStep, InitConfigStep, PublishStep,
       WaitInitStep, SaveConfigStep, UnlinkStep, PostStep DEF Step
  <2>3. CASE User(p)
    BY <1>1, <2>3, OpenStep, ResumeStep, RemapStep, DecrementStep,
       CloseUnmappedStep, SetConfigStep, ResetConfigStep DEF User
  <2>4. CASE Fault(p)
    BY <1>1, <2>4, FailOpenStep, FailInitConfigStep, FailExitStep, CrashStep DEF Fault
  <2> QED
    BY <2>1, <2>2, <2>3, <2>4
<1>3. CASE UNCHANGED vars
  <2> USE <1>3 DEF vars, AttachInv
  <2>1. CountExact'
    BY QuietCount
  <2>2. /\ UnflaggedIsNamed' /\ FlagKnown' /\ FirstUnique' /\ FirstInitializes'
        /\ InitializedIsCounted' /\ SameSharedInfo' /\ LastOneOutAlone' /\ ConfigLoaded'
    BY DEF UnflaggedIsNamed, FlagKnown, FirstUnique, FirstInitializes,
           InitializedIsCounted, SameSharedInfo, LastOneOutAlone, ConfigLoaded
  <2> QED
    BY <1>1, <2>1, <2>2
<1> QED
  BY <1>2, <1>3

(* The inductive invariant holds in every behaviour, whatever the numbers  *)
(* of processes, objects, crashes and failures.                            *)
THEOREM AttachInvariant == Spec => []AttachInv
<1>1. Init => AttachInv
  <2> SUFFICES ASSUME Init PROVE AttachInv
    OBVIOUS
  <2>1. TypeOK
    BY TypeInit
  <2>2. CountExact
    <3>1. \A o \in Obj : CountedOn(o) = {}
      BY DEF Init, CountedOn, Counted
    <3>2. \A o \in Obj : Cardinality(CountedOn(o)) = 0
      BY <3>1, FS_EmptySet
    <3> QED
      BY <3>2, ZeroFact DEF Init, CountExact
  <2>3. config_file \in Seq(Config)
    <3>1. <<>> \in Seq(Config) /\ \A c \in Config : <<c>> \in Seq(Config)
      OBVIOUS
    <3> QED
      BY <3>1, Zenon DEF Init
  <2> QED
    BY <2>1, <2>2, <2>3, ZeroFact DEF Init, AttachInv, UnflaggedIsNamed, FlagKnown,
       FirstUnique, FirstInitializes, InitializedIsCounted, SameSharedInfo,
       LastOneOutAlone, ConfigLoaded, Counted, Live
<1> QED
  BY <1>1, AttachInvStep, PTL DEF Spec

(* Processes that use the shared info segment all use the one object that  *)
(* bears its name, and shm_unlink never hits another (SameSharedInfo).     *)
THEOREM SameSharedInfoHolds == Spec => []SameSharedInfo
<1>1. AttachInv => SameSharedInfo
  BY DEF AttachInv
<1> QED
  BY <1>1, AttachInvariant, PTL

(* The last one out saves the configuration and unlinks the segment while  *)
(* no other process uses it (LastOneOutAlone).                             *)
THEOREM LastOneOutAloneHolds == Spec => []LastOneOutAlone
<1>1. AttachInv => LastOneOutAlone
  BY DEF AttachInv
<1> QED
  BY <1>1, AttachInvariant, PTL

(* Nobody runs on, publishes or saves a configuration that is still        *)
(* zero-filled memory (ConfigLoaded).                                      *)
THEOREM ConfigLoadedHolds == Spec => []ConfigLoaded
<1>1. AttachInv => ConfigLoaded
  BY DEF AttachInv
<1> QED
  BY <1>1, AttachInvariant, PTL

(* A segment has one initializer, and nobody uses it meanwhile             *)
(* (OneInitializer).                                                       *)
THEOREM OneInitializerHolds == Spec => []OneInitializer
<1>1. AttachInv => OneInitializer
  <2> SUFFICES ASSUME AttachInv, NEW p \in Proc, NEW q \in Proc, p # q,
                      pc[p] \in {"init", "publish"}, handle[p] = handle[q]
               PROVE  pc[q] \in {"opened", "unmapped", "counted", "wait_post", "wait_init"}
    BY DEF OneInitializer
  <2>1. /\ ~num_procs[handle[p]].flag /\ ~is_initialized[handle[p]] /\ first[p]
        /\ pc[p] \in Counted
    BY DEF AttachInv, FlagKnown, FirstInitializes, Counted
  <2>2. pc[q] \in PC /\ pc[q] \notin {"out", "retry"}
    BY DEF AttachInv, TypeOK, Detached
  <2>3. pc[q] \notin {"write_config", "unlink", "post"}
    BY <2>1 DEF AttachInv, FlagKnown
  <2>4. pc[q] \in {"init", "publish", "up", "failed"} => first[q] /\ pc[q] \in Counted
    BY <2>1 DEF AttachInv, FirstInitializes, Counted
  <2>5. pc[q] \notin {"init", "publish", "up", "failed"}
    BY <2>1, <2>4 DEF AttachInv, FirstUnique
  <2> QED
    BY <2>2, <2>3, <2>5 DEF PC
<1> QED
  BY <1>1, AttachInvariant, PTL

(* A step that takes nothing from those that hold the name leaves it held. *)
LEMMA HeldSame ==
    ASSUME NamedIsHeld, UNCHANGED <<name, faults>>,
           \A q \in Proc : Holds(q) => Holds(q)'
    PROVE  NamedIsHeld'
BY DEF NamedIsHeld, Undisturbed, faults

(* Opening: who gives an object the name holds it.                         *)
LEMMA OpenHeld ==
    ASSUME AttachInv, NamedIsHeld, NEW p \in Proc, Open(p)
    PROVE  NamedIsHeld'
<1> USE DEF AttachInv, TypeOK, Detached, Goto
<1>1. CASE name # NoObj
  <2>1. \A q \in Proc : Holds(q) => q # p
    BY <1>1 DEF Holds, Open
  <2>2. /\ UNCHANGED <<name, num_procs, faults>>
        /\ \A q \in Proc : q # p => handle'[q] = handle[q] /\ pc'[q] = pc[q]
    BY <1>1 DEF Open, shared
  <2>3. \A q \in Proc : Holds(q) => Holds(q)'
    BY <2>1, <2>2 DEF Holds
  <2> QED
    BY <2>2, <2>3, HeldSame
<1>2. CASE name = NoObj
  <2>1. PICK o \in FreeObj : /\ name' = o
                             /\ handle' = [handle EXCEPT ![p] = o]
                             /\ num_procs' = [num_procs EXCEPT ![o] = ZeroCounter]
    BY <1>2 DEF Open
  <2>2. o \in Obj /\ pc' = [pc EXCEPT ![p] = "opened"]
    BY DEF FreeObj, Open
  <2>3. Holds(p)'
    BY <2>1, <2>2, ZeroFact DEF Holds
  <2> QED
    BY <2>3 DEF NamedIsHeld
<1> QED
  BY <1>1, <1>2

(* Counting out: who leaves is either the last one, and stays to take the  *)
(* name away, or leaves somebody behind who counts.                        *)
LEMMA DecrementHeld ==
    ASSUME AttachInv, NamedIsHeld, NEW p \in Proc, Decrement(p)
    PROVE  NamedIsHeld'
<1> DEFINE h == handle[p]
           old == num_procs[h]
           new == DecrementCounter(old, TRUE)
<1> USE DEF AttachInv, TypeOK, Detached, Goto
<1>0. pc[p] \in {"up", "failed"} /\ handle[p] = h
  BY DEF Decrement
<1>1. /\ h \in Obj /\ old \in Counter /\ old.count \in Nat /\ pc[p] \in Counted
      /\ pc[p] \notin {"write_config", "unlink"}
  <2>1. h \in Obj /\ old \in Counter
    BY <1>0
  <2>2. old.count \in Nat
    BY <2>1, CountModAssumption DEF Counter
  <2> QED
    BY <1>0, <2>1, <2>2 DEF Counted
<1>2. p \in CountedOn(h) /\ Cardinality(CountedOn(h)) \in Nat
  BY <1>1, CountedFinite DEF CountedOn
<1>3. ~old.flag => old.count > 0
  BY <1>1, <1>2, CountedPositive DEF CountExact
<1>4. /\ new \in Counter /\ (old.flag => new.flag)
      /\ ~old.flag => (new.flag <=> old.count = 1)
  BY <1>1, <1>3, DecrementFact, Zenon
<1>5. \/ /\ ~old.flag /\ new.flag
         /\ pc' = [pc EXCEPT ![p] = "write_config"] /\ handle' = handle
      \/ /\ old.flag <=> new.flag
         /\ pc' = [pc EXCEPT ![p] = "out"] /\ handle' = [handle EXCEPT ![p] = NoObj]
  BY <1>1, <1>4 DEF Decrement, Close, RaisedFlag, Counter
<1>6. /\ num_procs'[h] = new
      /\ \A o \in Obj : o # h => num_procs'[o] = num_procs[o]
      /\ UNCHANGED <<name, faults>>
      /\ \A q \in Proc : q # p => handle'[q] = handle[q] /\ pc'[q] = pc[q]
  BY <1>1, <1>5 DEF Decrement
<1> SUFFICES ASSUME Undisturbed, name # NoObj PROVE \E q \in Proc : Holds(q)'
  BY <1>6 DEF NamedIsHeld, Undisturbed, faults
<1>7. PICK w \in Proc : Holds(w)
  BY DEF NamedIsHeld
<1> HIDE DEF h, old, new
<1>8. CASE name # h
  <2>1. w # p
    BY <1>7, <1>8 DEF Holds, h
  <2>2. Holds(w)'
    BY <1>6, <1>7, <1>8, <2>1 DEF Holds
  <2> QED
    BY <2>2
<1>9. CASE name = h /\ old.flag
  <2>1. w # p
    BY <1>0, <1>1, <1>7, <1>9 DEF Holds, old, Counter
  <2>2. Holds(w)'
    BY <1>4, <1>6, <1>7, <1>9, <2>1 DEF Holds, old
  <2> QED
    BY <2>2
<1>10. CASE name = h /\ ~old.flag /\ new.flag
  <2>1. Holds(p)'
    BY <1>5, <1>6, <1>10 DEF Holds, h
  <2> QED
    BY <2>1
<1>11. CASE name = h /\ ~old.flag /\ ~new.flag
  <2>1. old.count >= 2 /\ old.count =< Cardinality(CountedOn(h))
    BY <1>1, <1>2, <1>3, <1>4, <1>11 DEF CountExact, Undisturbed, old
  <2>2. PICK q \in CountedOn(h) : q # p
    <3>1. ASSUME CountedOn(h) = {p} PROVE FALSE
      <4>1. Cardinality(CountedOn(h)) = 1
        BY <3>1, FS_Singleton
      <4> QED
        BY <1>1, <2>1, <4>1
    <3> QED
      BY <1>2, <3>1
  <2>3. q \in Proc /\ pc[q] \in Counted /\ handle[q] = h
    BY DEF CountedOn
  <2>4. Holds(q)'
    BY <1>6, <1>11, <2>2, <2>3 DEF Holds
  <2> QED
    BY <2>3, <2>4
<1> QED
  BY <1>8, <1>9, <1>10, <1>11

(* The last one out takes the name away, and who is told of it holds none. *)
LEMMA UnlinkHeld ==
    ASSUME AttachInv, NamedIsHeld, NEW p \in Proc, Unlink(p) \/ Post(p) \/ WaitPost(p)
    PROVE  NamedIsHeld'
<1> USE DEF AttachInv, TypeOK, Detached, Goto, Close
<1>1. CASE Unlink(p)
  BY <1>1 DEF Unlink, NamedIsHeld
<1>2. CASE Post(p) \/ WaitPost(p)
  <2>1. /\ handle[p] \in Obj /\ num_procs[handle[p]] \in Counter
        /\ num_procs[handle[p]].flag /\ pc[p] \notin {"write_config", "unlink"}
    BY <1>2 DEF Post, WaitPost, FlagKnown
  <2>2. /\ UNCHANGED <<name, faults>>
        /\ \A q \in Proc : q # p => handle'[q] = handle[q] /\ pc'[q] = pc[q]
        /\ \A o \in Obj : num_procs'[o].flag = num_procs[o].flag
    <3>1. UNCHANGED <<name, faults>>
      BY <1>2 DEF Post, WaitPost
    <3>2. \A q \in Proc : q # p => handle'[q] = handle[q] /\ pc'[q] = pc[q]
      BY <1>2 DEF Post, WaitPost
    <3>3. \/ num_procs' = [num_procs EXCEPT ![handle[p]] = SetCounterPost(@, TRUE)]
          \/ UNCHANGED num_procs
      BY <1>2 DEF Post, WaitPost, shared
    <3>4. num_procs \in [Obj -> Counter]
      OBVIOUS
    <3> HIDE DEF AttachInv, TypeOK, Detached, Goto, Close
    <3>5. \A o \in Obj : num_procs'[o].flag = num_procs[o].flag
      BY <2>1, <3>3, <3>4, PostFlags
    <3> QED
      BY <3>1, <3>2, <3>5
  <2>3. ASSUME NEW q \in Proc, Holds(q) PROVE Holds(q)'
    <3>1. q # p
      BY <2>1, <2>3 DEF Holds
    <3>2. name \in Obj
      BY <2>3 DEF Holds, Counted
    <3> QED
      BY <2>2, <2>3, <3>1, <3>2 DEF Holds
  <2> QED
    BY <2>2, <2>3, HeldSame
<1> QED
  BY <1>1, <1>2

(* The other steps, and those in which something fails.                    *)
LEMMA NamedIsHeldStep ==
    AttachInv /\ NamedIsHeld /\ [Next]_vars => NamedIsHeld'
<1> SUFFICES ASSUME AttachInv, NamedIsHeld, [Next]_vars PROVE NamedIsHeld'
  OBVIOUS
<1> USE DEF Goto, Close, shared
<1>1. TypeOK
  BY DEF AttachInv
<1>2. CASE Next
  <2>1. PICK p \in Proc : Step(p) \/ User(p) \/ Fault(p)
    BY <1>2 DEF Next
  <2>2. CASE WaitPost(p) \/ Unlink(p) \/ Post(p)
    BY <2>2, UnlinkHeld
  <2>3. CASE Open(p)
    BY <2>3, OpenHeld
  <2>4. CASE Decrement(p)
    BY <2>4, DecrementHeld
  <2>5. CASE Increment(p)
    <3>1. /\ handle[p] \in Obj /\ num_procs[handle[p]] \in Counter /\ pc[p] = "opened"
      BY <1>1, <2>5 DEF Increment, TypeOK, Detached
    <3>2. \A o \in Obj : num_procs'[o].flag = num_procs[o].flag
      BY <1>1, <2>5, <3>1, IncrementFact DEF Increment, TypeOK
    <3>3. /\ UNCHANGED <<name, handle, faults>>
          /\ \A q \in Proc : q # p => pc'[q] = pc[q]
          /\ pc'[p] \in Counted
      BY <1>1, <2>5 DEF Increment, TypeOK, Counted
    <3>4. ASSUME NEW q \in Proc, Holds(q) PROVE Holds(q)'
      <4>1. name \in Obj
        BY <1>1, <3>4 DEF Holds, TypeOK, Detached, Counted
      <4>2. num_procs'[name].flag = num_procs[name].flag
        BY <3>2, <4>1
      <4> QED
        BY <3>1, <3>3, <3>4, <4>2 DEF Holds
    <3> QED
      BY <3>3, <3>4, HeldSame
  <2>6. CASE CheckFlag(p)
    <3>1. \A q \in Proc : Holds(q) => Holds(q)'
      BY <1>1, <2>6 DEF CheckFlag, Holds, TypeOK, Counted
    <3> QED
      BY <2>6, <3>1, HeldSame DEF CheckFlag
  <2>7. CASE InitConfig(p) \/ Publish(p) \/ WaitInit(p) \/ Resume(p)
    <3>1. \A q \in Proc : Holds(q) => Holds(q)'
      BY <1>1, <2>7 DEF InitConfig, Publish, WaitInit, Resume, Holds, TypeOK, Counted
    <3> QED
      BY <2>7, <3>1, HeldSame DEF InitConfig, Publish, WaitInit, Resume
  <2>8. CASE SaveConfig(p) \/ Remap(p)
    <3>1. \A q \in Proc : Holds(q) => Holds(q)'
      BY <1>1, <2>8 DEF SaveConfig, Remap, Holds, TypeOK, Counted
    <3> QED
      BY <2>8, <3>1, HeldSame DEF SaveConfig, Remap
  <2>9. CASE CloseUnmapped(p)
    <3>1. \A q \in Proc : Holds(q) => Holds(q)'
      BY <1>1, <2>9 DEF CloseUnmapped, Holds, TypeOK, Counted
    <3> QED
      BY <2>9, <3>1, HeldSame DEF CloseUnmapped
  <2>10. CASE (\E c \in Config : SetConfig(p, c)) \/ ResetConfig(p)
    <3>1. UNCHANGED <<name, num_procs, handle, pc, faults>>
      BY <2>10 DEF SetConfig, ResetConfig
    <3> QED
      BY <3>1, HeldSame DEF Holds
  <2>11. CASE Fault(p)
    <3>1. crashes \in Nat /\ failures \in Nat
      BY <1>1, SharedInfoAssumption DEF TypeOK
    <3>2. crashes' = crashes + 1 \/ failures' = failures + 1
      BY <2>11 DEF Fault, FailOpen, FailInitConfig, FailExit, Crash, Fail
    <3> QED
      BY <3>1, <3>2 DEF NamedIsHeld, Undisturbed
  <2> QED
    BY <2>1, <2>2, <2>3, <2>4, <2>5, <2>6, <2>7, <2>8, <2>9, <2>10, <2>11 DEF Step, User
<1>3. CASE UNCHANGED vars
  <2>1. UNCHANGED <<name, num_procs, handle, pc, faults>>
    BY <1>3 DEF vars, faults
  <2> QED
    BY <2>1, HeldSame DEF Holds
<1> QED
  BY <1>2, <1>3

(* When every process has left in an orderly way, nothing remains under    *)
(* the segment's name (NothingLeftBehind): while it is linked somebody is  *)
(* there who will take it away.                                            *)
THEOREM NothingLeftBehindHolds == Spec => []NothingLeftBehind
<1>1. Init => NamedIsHeld
  BY DEF Init, NamedIsHeld
<1>2. NamedIsHeld => NothingLeftBehind
  BY DEF NamedIsHeld, NothingLeftBehind, Undisturbed, Holds, Counted
<1> QED
  BY <1>1, <1>2, AttachInvariant, NamedIsHeldStep, PTL DEF Spec
=============================================================================
