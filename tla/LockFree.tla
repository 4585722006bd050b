------------------------------ MODULE LockFree ------------------------------
(***************************************************************************)
(* The functions of mshlockfree.c as the steps other processes can come    *)
(* between: a loop reads the word, computes its successor and retries a    *)
(* compare-and-swap until the word is still what it read; subtracting a    *)
(* size and counting a long up or down are single instructions.            *)
(***************************************************************************)
EXTENDS LockFreeCalls

VARIABLES
    word,       \* which kind of word this is about
    value,      \* what it holds
    client,     \* the callers' obligations
    pc,         \* where each process is
    call,       \* the call it is in
    old,        \* old_value, old_counter
    result      \* what it will return, once that is known

vars == <<word, value, client, pc, call, old, result>>

NoCall == [op |-> "none"]

Init ==
    /\ word \in Words
    /\ value = Fresh(word)
    /\ client = NoDebt
    /\ pc = [p \in Proc |-> "idle"]
    /\ call = [p \in Proc |-> NoCall]
    /\ old = [p \in Proc |-> Fresh(word)]
    /\ result = [p \in Proc |-> <<>>]

\* The calls that are loops around a compare-and-swap.
IsLoop(c) == c.op \in {"increment", "decrement", "set_post", "add"}

Invoke(p, c) ==
    /\ pc[p] = "idle"
    /\ Invoked(p, c, client, call, client')
    /\ call' = [call EXCEPT ![p] = c]
    /\ pc' = [pc EXCEPT ![p] = IF IsLoop(c) THEN "read" ELSE "instruction"]
    /\ UNCHANGED <<word, value, old, result>>

\* old_value = *dest, and the early return of msh_AtomicAddSizeWithMax.
Read(p) ==
    /\ pc[p] = "read"
    /\ \/ /\ Refused(call[p], value)
          /\ result' = [result EXCEPT ![p] = <<FALSE>>]
          /\ pc' = [pc EXCEPT ![p] = "done"]
          /\ UNCHANGED old
       \/ /\ ~Refused(call[p], value)
          /\ old' = [old EXCEPT ![p] = value]
          /\ pc' = [pc EXCEPT ![p] = "swap"]
          /\ UNCHANGED result
    /\ UNCHANGED <<word, value, client, call>>

\* The word becomes what call c makes of v, and the call is over.
Write(p, v) ==
    LET new == NewValue(call[p], v) IN
    /\ value' = new
    /\ result' = [result EXCEPT ![p] = Returned(call[p], v, new)]
    /\ pc' = [pc EXCEPT ![p] = "done"]
    /\ old' = [old EXCEPT ![p] = Fresh(word)]

\* Mutation: the swap is a plain store.
Store(p) ==
    /\ pc[p] = "swap"
    /\ Write(p, old[p])
    /\ UNCHANGED <<word, client, call>>

\* Mutation: a failed swap is retried with the value read before.
SwapAgain(p) ==
    /\ pc[p] = "swap"
    /\ IF value = old[p] THEN Write(p, old[p])
       ELSE pc' = [pc EXCEPT ![p] = "swap"] /\ UNCHANGED <<value, result, old>>
    /\ UNCHANGED <<word, client, call>>

\* Mutation: a failed swap of msh_AtomicAddSizeWithMax is taken for a refusal.
SwapOrRefuse(p) ==
    /\ pc[p] = "swap"
    /\ \/ value = old[p] /\ Write(p, old[p])
       \/ /\ value # old[p]
          /\ pc' = [pc EXCEPT ![p] = IF call[p].op = "add" THEN "done" ELSE "read"]
          /\ result' = [result EXCEPT ![p] = IF call[p].op = "add" THEN <<FALSE>> ELSE @]
          /\ old' = [old EXCEPT ![p] = Fresh(word)]
          /\ UNCHANGED value
    /\ UNCHANGED <<word, client, call>>

\* The compare-and-swap; a miss goes back to reading.
CompareAndSwap(p) ==
    /\ pc[p] = "swap"
    /\ \/ /\ value = old[p]
          /\ Write(p, old[p])
       \/ /\ value # old[p]
          /\ pc' = [pc EXCEPT ![p] = "read"]
          /\ old' = [old EXCEPT ![p] = Fresh(word)]
          /\ UNCHANGED <<value, result>>
    /\ UNCHANGED <<word, client, call>>

\* __sync_sub_and_fetch, __sync_add_and_fetch
Instruction(p) ==
    /\ pc[p] = "instruction"
    /\ Write(p, value)
    /\ UNCHANGED <<word, client, call>>

Return(p) ==
    /\ pc[p] = "done"
    /\ client' = AfterReturn(p, call[p], client, result[p])
    /\ pc' = [pc EXCEPT ![p] = "idle"]
    /\ call' = [call EXCEPT ![p] = NoCall]
    /\ result' = [result EXCEPT ![p] = <<>>]
    /\ UNCHANGED <<word, value, old>>

Step(p) == Read(p) \/ CompareAndSwap(p) \/ Instruction(p) \/ Return(p)

Next == \E p \in Proc : (\E c \in Calls(word) : Invoke(p, c)) \/ Step(p)

\* A process in a call keeps running; none ever has to make a call.
Fairness == \A p \in Proc : WF_vars(Step(p))

Spec == Init /\ [][Next]_vars /\ Fairness
------------------------------------------------------------------------------
(* Properties.                                                             *)

Values(w) == CASE w = "counter" -> Counter
               [] w = "long"    -> Int
               [] w = "size"    -> 0 .. (SizeMod - 1)

(* Types of the variables.                                                 *)
TypeOK ==
    /\ word \in Words
    /\ value \in Values(word)
    /\ client \in Client
    /\ pc \in [Proc -> {"idle", "read", "swap", "instruction", "done"}]
    /\ call \in [Proc -> Calls(word) \cup {NoCall}]
    /\ old \in [Proc -> Values(word)]
    /\ DOMAIN result = Proc

(* Where a process is decides which call it is in: only loops read and     *)
(* swap, what is to be swapped has not been refused, and nothing is        *)
(* returned before the call has taken effect.                              *)
CallsInStep ==
    \A p \in Proc :
        /\ pc[p] = "idle" <=> call[p] = NoCall
        /\ pc[p] \in {"read", "swap"} => IsLoop(call[p])
        /\ pc[p] = "instruction" => ~IsLoop(call[p])
        /\ pc[p] = "swap" => ~Refused(call[p], old[p])
        /\ pc[p] # "done" => result[p] = <<>>
        /\ pc[p] = "done" /\ call[p].op = "add" => result[p] \in {<<TRUE>>, <<FALSE>>}

Atomic == INSTANCE AtomicWords
             WITH phase <- [p \in Proc |-> IF pc[p] \in {"idle", "done"} THEN pc[p] ELSE "called"]

(* Every call of mshlockfree.c is atomic: it takes effect at the swap that *)
(* hits, a refused msh_AtomicAddSizeWithMax at its last read, and what it  *)
(* returns (whether this very decrement raised the flag, whether the size  *)
(* fits) was true at that moment, whatever other processes did to the word *)
(* between its read and its swap.                                          *)
AtomicCalls == Atomic!Spec

\* p has written the word for a call of kind op, or is yet to do so.
Written(p, op) == pc[p] = "done" /\ call[p].op = op
Pending(p, op) == pc[p] # "done" /\ call[p].op = op

Holders == {p \in Proc :
              \/ Written(p, "increment") \/ Written(p, "inc_long")
              \/ client.holds[p] /\ ~Written(p, "decrement") /\ ~Written(p, "dec_long")}

\* What p's call keeps reserved: added and not yet returned, or not yet subtracted.
InCall(p) == IF (Written(p, "add") /\ result[p] = <<TRUE>>) \/ Pending(p, "subtract")
             THEN call[p].by ELSE 0

Reservation(p) == client.reserved[p] + InCall(p)

(* The shared word says what the calls so far amount to: a count is the    *)
(* number of processes that hold one, total_shared_size is the sum of the  *)
(* sizes reserved and not given back, and it never wraps around, although  *)
(* msh_AtomicAddSizeWithMax adds before it compares and its limit may be   *)
(* the largest size_t there is.                                            *)
WordExact ==
    CASE word = "counter" -> value.count = Cardinality(Holders)
      [] word = "long"    -> value = Cardinality(Holders)
      [] word = "size"    -> value = Total([p \in Proc |-> Reservation(p)])

(* What the exactness of the word rests on: a process counts itself up and *)
(* down in turn, adds a size only when it has none, and all the sizes that *)
(* are reserved or about to be fit the memory there is.                    *)
ClientsInStep ==
    /\ \A p \in Proc :
          /\ call[p].op \in {"increment", "inc_long"} => ~client.holds[p]
          /\ call[p].op \in {"decrement", "dec_long"} => client.holds[p]
          /\ call[p].op = "add" => client.reserved[p] = 0
    /\ Total(Claimed(client, call)) =< Memory

(* Lock-freedom: where some process is in a loop of mshlockfree.c, some    *)
(* call comes to its end.  It need not be that process's call: the loops   *)
(* have no bound on their retries and nothing makes them fair.             *)
SomeCallEnds ==
    (\E p \in Proc : pc[p] \in {"read", "swap"}) ~> (\E p \in Proc : pc[p] = "done")
=============================================================================
