--------------------------- MODULE LockFreeCounter ---------------------------
(***************************************************************************)
(* The lock-free counter of mshlockfree.c: one machine word holding a      *)
(* 30-bit count and two bits, flag ("being unlinked") and post ("has been  *)
(* unlinked").  Every C function here is a loop that reads the word,       *)
(* computes its successor and retries a compare-and-swap until it hits, so *)
(* it takes effect at the successful swap.  The operators below are those  *)
(* successor functions.                                                    *)
(***************************************************************************)
EXTENDS Integers

CONSTANT CountMod   \* the count is a bit field and wraps modulo this; 2^30 in the code

ASSUME CountModAssumption == CountMod \in Nat /\ CountMod > 1

Counter == [count : 0 .. (CountMod - 1), flag : BOOLEAN, post : BOOLEAN]

\* Fresh shared memory is zero-filled by the operating system.
ZeroCounter == [count |-> 0, flag |-> FALSE, post |-> FALSE]

IncrementCounter(c) == [c EXCEPT !.count = (c.count + 1) % CountMod]

\* Mutation: set_flag is ignored.
DecrementCounterPlain(c, set_flag) == [c EXCEPT !.count = (c.count - 1) % CountMod]

\* set_flag asks for the flag to be raised in the same swap that takes the
\* count to zero.
DecrementCounter(c, set_flag) ==
    LET n == (c.count - 1) % CountMod
    IN  [c EXCEPT !.count = n, !.flag = c.flag \/ (set_flag /\ n = 0)]

\* msh_DecrementCounter returns whether this very call changed the flag.
RaisedFlag(old, new) == old.flag # new.flag

SetCounterPost(c, val) == [c EXCEPT !.post = val]
=============================================================================
