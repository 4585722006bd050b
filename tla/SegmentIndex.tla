---------------------------- MODULE SegmentIndex ----------------------------
(***************************************************************************)
(* What a process's list of segments promises to the commands: the         *)
(* segments in their order, the segment with a given number, and all the   *)
(* segments with a given name in the order in which they were added.       *)
(* Moving a segment to the end changes the first only.                     *)
(***************************************************************************)
EXTENDS SequencesExt

CONSTANTS
    Node, NoNode,   \* segment nodes, and none
    SegNum,         \* number of each segment
    Name, NoName,   \* variable names, and none
    VarName         \* name of the variable in each segment

VARIABLES order, numbered, named

Init ==
    /\ order = <<>>
    /\ numbered = [k \in {SegNum[n] : n \in Node} |-> NoNode]
    /\ named = [x \in Name |-> <<>>]

Add(n) ==
    /\ n \notin ToSet(order)
    /\ order' = Append(order, n)
    /\ numbered' = [numbered EXCEPT ![SegNum[n]] = n]
    /\ named' = [x \in Name |-> IF x = VarName[n] THEN Append(named[x], n) ELSE named[x]]

Delete(n) ==
    /\ n \in ToSet(order)
    /\ order' = RemoveFirst(order, n)
    /\ numbered' = [numbered EXCEPT ![SegNum[n]] = NoNode]
    /\ named' = [x \in Name |-> RemoveFirst(named[x], n)]

MoveToEnd(n) ==
    /\ n \in ToSet(order)
    /\ order' = Append(RemoveFirst(order, n), n)
    /\ UNCHANGED <<numbered, named>>

Next == \E n \in Node : Add(n) \/ Delete(n) \/ MoveToEnd(n)

Spec == Init /\ [][Next]_<<order, numbered, named>>
=============================================================================
