------------------------------ MODULE MCVarOps ------------------------------
(* The work of the processes for checking VarOps with TLC.                 *)
EXTENDS VarOps, TLC

CONSTANTS p1, p2, p3

\* Operations that do not commute, so that a wrong order would show.
MixedWork ==
    (p1 :> [op |-> "add", in |-> 1]) @@ (p2 :> [op |-> "neg", in |-> 0])
      @@ (p3 :> [op |-> "cpy", in |-> 5])

\* One process adds something, the other only changes the sign of a zero.
FloatWork ==
    (p1 :> [op |-> "add", in |-> 1]) @@ (p2 :> [op |-> "neg", in |-> 0])

AtomicOptions == [Proc -> {{"atomic"}}]

AgreedOptions == {o \in [Proc -> SUBSET {"sync", "atomic"}] : Synchronous(o)}
=============================================================================
