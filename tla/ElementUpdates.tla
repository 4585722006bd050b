--------------------------- MODULE ElementUpdates ---------------------------
(***************************************************************************)
(* What the variable operations promise about the elements of a shared     *)
(* variable: every element update of every process happens at one instant  *)
(* and none is lost.  count is how many element updates each process has   *)
(* been told are done.                                                     *)
(***************************************************************************)
EXTENDS Naturals

CONSTANTS
    Proc,               \* MATLAB processes
    Elem,               \* elements of the variable
    Result(_, _),       \* Result(p, v): what p's operation makes of value v
    StartValue          \* value of the elements at the start

VARIABLES data, count

Init ==
    /\ data = [e \in Elem |-> StartValue]
    /\ count = [p \in Proc |-> 0]

Update(p, e) ==
    /\ data' = [data EXCEPT ![e] = Result(p, @)]
    /\ count' = [count EXCEPT ![p] = @ + 1]

Next == \E p \in Proc, e \in Elem : Update(p, e)

Spec == Init /\ [][Next]_<<data, count>>
=============================================================================
