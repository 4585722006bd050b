----------------------------- MODULE SegmentList -----------------------------
(***************************************************************************)
(* The local list of segments of one process (mshsegments.c) and its two   *)
(* hash tables, by number and by variable name (mshtable.c).  The list is  *)
(* doubly linked; the tables grow while segments are added and never       *)
(* shrink.  A chain of table nodes is a sequence here.                     *)
(***************************************************************************)
EXTENDS Integers, SequencesExt

CONSTANTS
    Node, NoNode,   \* segment nodes, and NULL
    SegNum,         \* number of each segment
    Name, NoName,   \* variable names, and the empty one
    VarName,        \* name of the variable in each segment
    NameHash,       \* hash of each name, before it is reduced to the table
    InitTableSize   \* MSH_INIT_TABLE_SIZE

ASSUME SegmentListAssumption ==
    /\ NoNode \notin Node
    /\ NoName \notin Name
    /\ SegNum \in [Node -> Nat] /\ IsInjective(SegNum)
    /\ VarName \in [Node -> Name \cup {NoName}]
    /\ NameHash \in [Name -> Nat]
    /\ InitTableSize \in Nat /\ InitTableSize > 1

VARIABLES
    first, last,        \* ends of the list
    next, prev,         \* links of the segment nodes
    num_segs, num_named,
    seg_table,          \* chains by segment number
    name_table          \* chains by variable name

vars == <<first, last, next, prev, num_segs, num_named, seg_table, name_table>>

------------------------------------------------------------------------------
(* mshtable.c; a table is a function from 0 .. table_sz - 1 to chains      *)

Null == [b \in {} |-> <<>>]     \* no table is allocated
Size(t) == Cardinality(DOMAIN t)

\* The nodes of the chain s that are in S, in their order (the SelectSeq of a
\* membership, as a function that can be reasoned about).
Keep(s, S) ==
    LET kept[i \in 0 .. Len(s)] ==
            IF i = 0 THEN <<>>
            ELSE IF s[i] \in S THEN Append(kept[i - 1], s[i]) ELSE kept[i - 1]
    IN  kept[Len(s)]

InitializeTable == [b \in 0 .. (InitTableSize - 1) |-> <<>>]

\* Hash and comparison of the two kinds of keys.
NumKey == SegNum
NameKey == [n \in Node |-> IF VarName[n] = NoName THEN 0 ELSE NameHash[VarName[n]]]

FindNewTableSize(n) == IF n < InitTableSize THEN InitTableSize ELSE 2 * n

AddNodeToTable(t, n, key) == [t EXCEPT ![key[n] % Size(t)] = Append(@, n)]

\* Mutation: the chains of the new table are built from the back.
ResizeTableReversed(t, num, key) ==
    LET size  == FindNewTableSize(num)
        nodes == Reverse(FlattenSeq([b \in 1 .. Size(t) |-> t[b - 1]]))
    IN  [b \in 0 .. (size - 1) |-> Keep(nodes, {n \in Node : key[n] % size = b})]

\* The chains are emptied into a new table, in order.
ResizeTable(t, num, key) ==
    LET size  == FindNewTableSize(num)
        nodes == FlattenSeq([b \in 1 .. Size(t) |-> t[b - 1]])
    IN  [b \in 0 .. (size - 1) |-> Keep(nodes, {n \in Node : key[n] % size = b})]

\* num is the length of the list, which already counts the new segment.
AddSegmentToTable(t, n, num, key) ==
    AddNodeToTable(IF num >= Size(t) \div 2 THEN ResizeTable(t, num, key) ELSE t, n, key)

\* A node that is not in its chain is a fatal TableLogicError.
InTable(t, n, key) == Contains(t[key[n] % Size(t)], n)
RemoveSegmentFromTable(t, n, key) == [t EXCEPT ![key[n] % Size(t)] = RemoveFirst(@, n)]

\* First node of the chain with the number k.
FindSegmentNode(k) ==
    IF seg_table = Null THEN NoNode
    ELSE LET found == Keep(seg_table[k % Size(seg_table)], {n \in Node : SegNum[n] = k})
         IN  IF found = <<>> THEN NoNode ELSE Head(found)

\* All the nodes of the chain with the name x.
FindAllSegmentNodes(x) ==
    IF name_table = Null THEN <<>>
    ELSE Keep(name_table[NameHash[x] % Size(name_table)], {n \in Node : VarName[n] = x})

------------------------------------------------------------------------------
(* The linked list                                                         *)

\* A field of node n is set, if there is such a node.
Set(f, n, v) == IF n = NoNode THEN f ELSE [f EXCEPT ![n] = v]

Named(n) == VarName[n] # NoName

\* The nodes in the order of the links.
Follow(node1, link, len) ==
    LET node[j \in 1 .. len] == IF j = 1 THEN node1 ELSE link[node[j - 1]]
    IN  [j \in 1 .. len |-> node[j]]

Walk == Follow(first, next, num_segs)

Listed(n) == n \in ToSet(Walk)

Init ==
    /\ first = NoNode /\ last = NoNode
    /\ next = [n \in Node |-> NoNode]
    /\ prev = [n \in Node |-> NoNode]
    /\ num_segs = 0 /\ num_named = 0
    /\ seg_table = Null /\ name_table = Null

\* msh_InitializeMatshare allocates the tables that are not there.
Initialize ==
    /\ seg_table = Null
    /\ seg_table' = InitializeTable
    /\ name_table' = InitializeTable
    /\ UNCHANGED <<first, last, next, prev, num_segs, num_named>>

\* A segment that was just created or opened is added.
AddSegmentToList(n) ==
    /\ seg_table # Null /\ ~Listed(n)
    /\ next' = Set(Set(next, n, NoNode), IF num_segs = 0 THEN NoNode ELSE last, n)
    /\ prev' = [prev EXCEPT ![n] = last]
    /\ first' = IF num_segs = 0 THEN n ELSE first
    /\ last' = n
    /\ num_segs' = num_segs + 1
    /\ seg_table' = AddSegmentToTable(seg_table, n, num_segs + 1, NumKey)
    /\ IF Named(n)
       THEN /\ name_table' = AddSegmentToTable(name_table, n, num_segs + 1, NameKey)
            /\ num_named' = num_named + 1
       ELSE UNCHANGED <<name_table, num_named>>

\* Mutation: the node after it keeps its link back.
PlaceSegmentAtEndOneWay(n) ==
    /\ Listed(n) /\ last # n
    /\ next' = Set(Set(Set(next, prev[n], next[n]), last, n), n, NoNode)
    /\ prev' = Set(prev, n, last)
    /\ first' = IF first = n THEN next[n] ELSE first
    /\ last' = n
    /\ UNCHANGED <<num_segs, num_named, seg_table, name_table>>

\* The tables are left as they are.
PlaceSegmentAtEnd(n) ==
    /\ Listed(n) /\ last # n
    /\ next' = Set(Set(Set(next, prev[n], next[n]), last, n), n, NoNode)
    /\ prev' = Set(Set(prev, next[n], prev[n]), n, last)
    /\ first' = IF first = n THEN next[n] ELSE first
    /\ last' = n
    /\ UNCHANGED <<num_segs, num_named, seg_table, name_table>>

RemoveSegmentFromList(n) ==
    /\ Listed(n)
    /\ InTable(seg_table, n, NumKey)
    /\ IF Named(n)
       THEN /\ InTable(name_table, n, NameKey)
            /\ name_table' = RemoveSegmentFromTable(name_table, n, NameKey)
            /\ num_named' = num_named - 1
       ELSE UNCHANGED <<name_table, num_named>>
    /\ seg_table' = RemoveSegmentFromTable(seg_table, n, NumKey)
    /\ next' = Set(Set(next, prev[n], next[n]), n, NoNode)
    /\ prev' = Set(Set(prev, next[n], prev[n]), n, NoNode)
    /\ first' = IF first = n THEN next[n] ELSE first
    /\ last' = IF last = n THEN prev[n] ELSE last
    /\ num_segs' = num_segs - 1

\* msh_OnExit: msh_DetachSegmentList removes one segment after the other, until
\* there is no first one, and then the tables are freed.
DestroyTables ==
    /\ first = NoNode /\ seg_table # Null
    /\ seg_table' = Null /\ name_table' = Null
    /\ UNCHANGED <<first, last, next, prev, num_segs, num_named>>

Next ==
    \/ Initialize \/ DestroyTables
    \/ \E n \in Node : AddSegmentToList(n) \/ PlaceSegmentAtEnd(n) \/ RemoveSegmentFromList(n)

Spec == Init /\ [][Next]_vars

------------------------------------------------------------------------------
(* Properties.                                                             *)

(* The links lead from the first node to the last and back, through all    *)
(* the listed nodes, after every sequence of additions, moves to the end   *)
(* and removals; num_named counts the named ones, on which the loop of     *)
(* msh_CreateOutputNamed relies to end.                                    *)
ListLinked ==
    /\ first = (IF num_segs = 0 THEN NoNode ELSE Walk[1])
    /\ last = (IF num_segs = 0 THEN NoNode ELSE Walk[num_segs])
    /\ \A n \in Node : Listed(n) =>
        /\ next[n] = NoNode <=> n = last
        /\ prev[n] = NoNode <=> n = first
        /\ next[n] # NoNode => prev[next[n]] = n
    /\ num_named = Cardinality({n \in Node : Listed(n) /\ Named(n)})

(* Looking a segment up by number or by name finds what the list has,      *)
(* whatever collisions and resizes of the tables there were in between:    *)
(* the list implements SegmentIndex.                                       *)
Index == INSTANCE SegmentIndex WITH
    order    <- Walk,
    numbered <- [k \in {SegNum[n] : n \in Node} |-> FindSegmentNode(k)],
    named    <- [x \in Name |-> FindAllSegmentNodes(x)]
LookupExact == Index!Spec

(***************************************************************************)
(* The inductive invariant behind ListLinked.                              *)
(***************************************************************************)

\* The links are those of the sequence w of different nodes.
Chained(w) ==
    /\ w \in [1 .. num_segs -> Node]
    /\ IsInjective(w)
    /\ first = (IF num_segs = 0 THEN NoNode ELSE w[1])
    /\ last = (IF num_segs = 0 THEN NoNode ELSE w[num_segs])
    /\ \A i \in 1 .. num_segs :
        /\ next[w[i]] = IF i = num_segs THEN NoNode ELSE w[i + 1]
        /\ prev[w[i]] = IF i = 1 THEN NoNode ELSE w[i - 1]

ListInv ==
    /\ num_segs \in Nat
    /\ next \in [Node -> Node \cup {NoNode}]
    /\ prev \in [Node -> Node \cup {NoNode}]
    /\ Chained(Walk)
    /\ num_named = Cardinality({n \in Node : Listed(n) /\ Named(n)})

(***************************************************************************)
(* The inductive invariant behind LookupExact.                             *)
(***************************************************************************)

\* The table t holds each node of M once, in the chain of its key, and no other.
Hashed(t, key, M) ==
    /\ Size(t) \in Nat /\ Size(t) > 0
    /\ t \in [0 .. (Size(t) - 1) -> Seq(Node)]
    /\ \A b \in DOMAIN t : IsInjective(t[b])
    /\ \A b \in DOMAIN t, n \in Node : Contains(t[b], n) <=> n \in M /\ key[n] % Size(t) = b

TableInv ==
    \/ num_segs = 0 /\ seg_table = Null /\ name_table = Null
    \/ /\ Hashed(seg_table, NumKey, {n \in Node : Listed(n)})
       /\ Hashed(name_table, NameKey, {n \in Node : Listed(n) /\ Named(n)})
=============================================================================
