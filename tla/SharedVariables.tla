--------------------------- MODULE SharedVariables ---------------------------
(***************************************************************************)
(* What the list of shared segments promises to the processes: one         *)
(* sequence of variables, in the order in which they were shared.  A       *)
(* variable enters at the end and only within the limit then in force, and *)
(* leaves from wherever it is without disturbing the order of the others.  *)
(* No process that has not looked since the last change takes itself to    *)
(* be up to date, so no change can be missed.                              *)
(***************************************************************************)
EXTENDS SequencesExt

CONSTANTS
    Proc,       \* processes
    Var,        \* variables
    Limits      \* limits the users set for the number of variables

VARIABLES
    shared,     \* the variables, in the order in which they were shared
    current,    \* processes that take themselves to be up to date
    limit       \* how many variables there may be when one more is shared

Init ==
    /\ shared = <<>>
    /\ current = Proc
    /\ limit \in Limits

Share(v) ==
    /\ current' = {}
    /\ v \notin ToSet(shared)
    /\ Len(shared) < limit
    /\ shared' = Append(shared, v)
    /\ UNCHANGED limit

Clear(i) ==
    /\ current' = {}
    /\ shared' = RemoveAt(shared, i)
    /\ UNCHANGED limit

Update(p) ==
    /\ current' = current \cup {p}
    /\ UNCHANGED <<shared, limit>>

Leave(p) ==
    /\ current' = current \ {p}
    /\ UNCHANGED <<shared, limit>>

\* With the last process the revision number goes, and with it the last variable
\* has to be gone.
LeaveLast ==
    /\ shared = <<>>
    /\ current' = Proc
    /\ UNCHANGED <<shared, limit>>

Configure ==
    /\ limit' \in Limits
    /\ UNCHANGED <<shared, current>>

Next ==
    \/ \E v \in Var : Share(v)
    \/ \E i \in DOMAIN shared : Clear(i)
    \/ \E p \in Proc : Update(p) \/ Leave(p)
    \/ LeaveLast \/ Configure

Spec == Init /\ [][Next]_<<shared, current, limit>>
=============================================================================
