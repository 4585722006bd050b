----------------------------- MODULE Subscripts -----------------------------
(***************************************************************************)
(* One variable operation of mshvarops.c from its subscripts to its        *)
(* elements: msh_ParseSubscriptStruct walks from the shared variable to    *)
(* the array that is meant and turns a last '()' into slices of contiguous *)
(* elements, msh_CheckValidInput compares the input with it, and           *)
(* msh_UnaryVariableOperation or msh_BinaryVariableOperation runs over the *)
(* slices.  What happens to one element is in IntOps and VarOps.           *)
(*                                                                         *)
(* An array is a record of its class, its dims and, for a cell or struct,  *)
(* its fields and kids: kids[i][f] is field f of element i.  A cell is an  *)
(* array with the one field "".  Elements are numbered from 0 as in C,     *)
(* dimensions and subscripts from 1.                                       *)
(***************************************************************************)
EXTENDS Integers, Sequences, SequencesExt

CONSTANTS
    Parents,    \* shared variables
    Chains,     \* subscript structs: sequences of levels [type, name, subs]
    Inputs,     \* inputs of binary operations
    VarOps,     \* operations: members of {"abs", "neg", "add", "cpy"}
    SizeMod     \* size_t wraps modulo this; 2^64 in the code

ASSUME SubscriptsAssumption == SizeMod \in Nat /\ SizeMod > 1

VARIABLES
    phase,      \* parse, check, apply, done, error, or undefined behaviour
    varop,      \* the operation
    levels,     \* subscript struct; no levels if the whole variable is meant
    in_var,     \* its input
    level,      \* level that is parsed next
    dest_var,   \* array the levels parsed so far lead to
    path,       \* where it is in the shared variable
    indices,    \* slices of a last '()', or whole
    written     \* element updates in order: where, and from which input element

vars == <<phase, varop, levels, in_var, level, dest_var, path, indices, written>>

Product(s) == FoldLeft(LAMBDA x, y : x * y, 1, s)
\* Elements in the first n dimensions.
Leading(dims, n) == Product(SubSeq(dims, 1, IF n < Len(dims) THEN n ELSE Len(dims)))
Numel(a) == Product(a.dims)
IsParent(a) == a.class \in {"cell", "struct"}
IsFloat(c) == c \in {"double", "single"}

\* A subscript is [type, elems]: a char, which should be ':', or doubles.
IsColon(s) == s.type = "char" /\ s.elems = <<":">>
Lowest(S) == CHOOSE x \in S : \A y \in S : x <= y

\* No slices: start_idxs is NULL.
Whole == [whole |-> TRUE, starts |-> <<>>, lens |-> <<>>]

\* An entry of start_idxs that has been allocated and not set.
Unset == -1

\* msh_GetNumVarOpArgs
IsUnary == varop \in {"abs", "neg"}
NoInput == [class |-> "none"]

Init ==
    /\ phase = "parse"
    /\ varop \in VarOps
    /\ levels \in Chains
    /\ in_var \in IF IsUnary THEN {NoInput} ELSE Inputs
    /\ level = 1
    /\ dest_var \in Parents
    /\ path = <<>>
    /\ indices = Whole
    /\ written = <<>>

------------------------------------------------------------------------------
(* msh_ParseIndices                                                        *)

\* A subscript that selects all of its dimension in order.
IsComplete(s, dim) ==
    s.type = "char" \/ (Len(s.elems) = dim /\ \A j \in 1 .. dim : s.elems[j] = j)

\* Number of leading dimensions that are selected completely.  A last char stands
\* for all the dimensions left.
BaseDim(subs, dims) ==
    LET most == IF Len(subs) < Len(dims) THEN Len(subs) ELSE Len(dims)
        stop == Lowest({d \in 1 .. most : ~IsComplete(subs[d], dims[d])} \cup {most + 1})
    IN  IF stop > Len(subs) /\ subs[Len(subs)].type = "char" THEN Len(dims) ELSE stop - 1

\* Positions where a run of consecutive indices begins, and the end.
RunStarts(at) ==
    SetToSortSeq({i \in 1 .. Len(at) : i = 1 \/ at[i] # at[i - 1] + 1} \cup {Len(at) + 1}, <)

\* Mutation: the runs are not scaled to the elements of the leading dimensions.
SliceLensUnscaled(subs, dims, base) ==
    IF base = Len(dims) THEN <<Product(dims)>>
    ELSE LET r == RunStarts(subs[IF base < Len(subs) THEN base + 1 ELSE Len(subs)].elems)
         IN  [j \in 1 .. Len(r) - 1 |-> r[j + 1] - r[j]]

\* Lengths of the slices, from the runs of the subscript the loop over the leading
\* dimensions has stopped at.
SliceLens(subs, dims, base) ==
    IF base = Len(dims) THEN <<Product(dims)>>
    ELSE LET r == RunStarts(subs[IF base < Len(subs) THEN base + 1 ELSE Len(subs)].elems)
         IN  [j \in 1 .. Len(r) - 1 |-> (r[j + 1] - r[j]) * Leading(dims, base)]

\* Elements between neighbours in dimension d, as curr_mult is divided down to it.
Stride(dims, d) == Leading(dims, (IF d < Len(dims) THEN d ELSE Len(dims)) - 1)

\* Number of steps the worker takes in a dimension above the base.
Steps(subs, dims, d) ==
    IF subs[d].type # "char" THEN Len(subs[d].elems)
    ELSE IF d <= Len(dims) THEN dims[d] ELSE 1

\* Offset of step k there; dimensions the variable does not have are ignored.
Offset(subs, dims, d, k) ==
    IF d > Len(dims) THEN 0
    ELSE ((IF subs[d].type = "char" THEN k ELSE subs[d].elems[k]) - 1) * Stride(dims, d)

\* Anchors of the worker at the base, the highest dimension varying slowest.
RECURSIVE Anchors(_, _, _)
Anchors(subs, dims, d) ==
    IF d > Len(subs) THEN <<0>>
    ELSE LET above == Anchors(subs, dims, d + 1)
         IN  FlattenSeq([a \in 1 .. Len(above) |->
                 [k \in 1 .. Steps(subs, dims, d) |-> above[a] + Offset(subs, dims, d, k)]])

\* Indices the loop at the base visits: after slice j it goes on by its length.
RECURSIVE Visited(_, _, _)
Visited(num, lens, i) ==
    IF i > num THEN <<>>
    ELSE <<i>> \o (IF lens = <<>> THEN <<>> ELSE Visited(num, Tail(lens), i + Head(lens)))

\* msh_ParseIndicesWorker: what it puts into start_idxs.
ParseIndicesWorker(subs, dims, base, lens) ==
    LET d == IF Len(subs) > base THEN base + 1 ELSE Len(subs)
        anchors == Anchors(subs, dims, base + 2)
        at == IF subs[d].type = "char" THEN <<1>> ELSE subs[d].elems
        visited == IF subs[d].type = "char" THEN <<1>> ELSE Visited(Len(at), lens, 1)
    IN  FlattenSeq([a \in 1 .. Len(anchors) |->
            [v \in 1 .. Len(visited) |->
                [start |-> (anchors[a] + (at[visited[v]] - 1) * Stride(dims, d)) % SizeMod, slice |-> v]]])

\* Mutation: the length of the slice does not count.
ExceedsStart(dims, lens, p) == Product(dims) < (p.start + 1) % SizeMod

\* The comparison with the number of elements, in size_t.
Exceeds(dims, lens, p) == Product(dims) < (p.start + lens[p.slice]) % SizeMod

\* What ends the loop: an index out of bounds, or a slice there is no length for,
\* when the loop has left the array of lengths.
ParseOutcome(dims, lens, parsed) ==
    LET bad == {k \in 1 .. Len(parsed) : parsed[k].slice > Len(lens) \/ Exceeds(dims, lens, parsed[k])}
    IN  IF bad = {} THEN "ok"
        ELSE IF parsed[Lowest(bad)].slice > Len(lens) THEN "undefined" ELSE "error"

\* Number of entries allocated for start_idxs.
NumIdxs(subs, dims, base, lens) ==
    Len(lens) * Product([k \in 1 .. Len(subs) - base - 1 |-> Steps(subs, dims, base + 1 + k)])

\* Slices and outcome of a last '()'.  mxMalloc may give NULL for no entries, and
\* NULL means the whole variable.
ParseIndices(subs, dims) ==
    LET base == BaseDim(subs, dims)
        lens == SliceLens(subs, dims, base)
        parsed == ParseIndicesWorker(subs, dims, base, lens)
        num_idxs == NumIdxs(subs, dims, base, lens)
        entry == [k \in 1 .. num_idxs |-> IF k <= Len(parsed) THEN parsed[k].start ELSE Unset]
    IN  {[outcome |-> ParseOutcome(dims, lens, parsed),
          indices |-> [whole |-> null, starts |-> entry, lens |-> lens]] :
            null \in IF num_idxs = 0 THEN BOOLEAN ELSE {FALSE}}

\* msh_ParseSingleIndex: one index per subscript, or a ':' on a single element.
ParseSingleIndex(subs, dims) ==
    LET parsed == ParseIndicesWorker(subs, dims, 0, <<1>>)
    IN  IF \A d \in 1 .. Len(subs) :
               /\ Len(subs[d].elems) = 1
               /\ subs[d].type = "char" => IsColon(subs[d]) /\ (d > Len(dims) \/ dims[d] <= 1)
        THEN [outcome |-> ParseOutcome(dims, <<1>>, parsed), index |-> parsed[1].start]
        ELSE [outcome |-> "error", index |-> 0]

------------------------------------------------------------------------------
(* msh_ParseSubscriptStruct: one action per kind of level.  An error ends  *)
(* the command; an array that is asked for an element it does not have     *)
(* gives a null pointer, which is tested for structs and not for cells.    *)

\* The walk goes on n levels further, into field name of element i.
Descend(i, name, n) ==
    /\ IF name \notin ToSet(dest_var.fields) \/ i \notin 0 .. Numel(dest_var) - 1
       THEN /\ phase' = IF dest_var.class = "struct" THEN "error" ELSE "undefined"
            /\ UNCHANGED <<dest_var, path, level>>
       ELSE /\ dest_var' = dest_var.kids[i][name]
            /\ path' = Append(path, <<i, name>>)
            /\ level' = level + n
            /\ UNCHANGED phase
    /\ UNCHANGED <<varop, levels, in_var, indices, written>>

Stop(outcome) ==
    /\ phase' = outcome
    /\ UNCHANGED <<varop, levels, in_var, level, dest_var, path, indices, written>>

AtLevel(type) == phase = "parse" /\ level <= Len(levels) /\ levels[level].type = type

ParseField ==
    /\ AtLevel(".")
    /\ IF dest_var.class = "struct" /\ Numel(dest_var) = 1
       THEN Descend(0, levels[level].name, 1) ELSE Stop("error")

ParseCell ==
    /\ AtLevel("{")
    /\ LET single == ParseSingleIndex(levels[level].subs, dest_var.dims)
       IN  IF dest_var.class = "cell" /\ single.outcome = "ok"
           THEN Descend(single.index, "", 1) ELSE Stop("error")

\* '()' before the last level: the next level must name a field.
ParseStructElement ==
    /\ AtLevel("(") /\ level < Len(levels)
    /\ LET single == ParseSingleIndex(levels[level].subs, dest_var.dims)
       IN  IF /\ dest_var.class = "struct" /\ single.outcome = "ok"
              /\ levels[level + 1].type = "."
           THEN Descend(single.index, levels[level + 1].name, 2) ELSE Stop("error")

ParseLast ==
    /\ AtLevel("(") /\ level = Len(levels)
    /\ \E p \in ParseIndices(levels[level].subs, dest_var.dims) :
           /\ phase' = IF p.outcome = "ok" THEN "parse" ELSE p.outcome
           /\ indices' = p.indices
    /\ level' = level + 1
    /\ UNCHANGED <<varop, levels, in_var, dest_var, path, written>>

------------------------------------------------------------------------------
(* msh_CheckValidInput                                                     *)

IsSignificant(subs, dims, d) ==
    IF subs[d].type = "char" THEN d <= Len(dims) /\ dims[d] > 1 ELSE Len(subs[d].elems) > 1

IsValidSub(s) == Len(s.elems) >= 1 /\ (s.type = "char" => IsColon(s))

\* Size the input must have in the dimension of subscript d.
ExpectedDim(subs, dims, d) ==
    IF subs[d].type # "char" THEN Len(subs[d].elems)
    ELSE IF d > Len(dims) THEN 1
    ELSE IF d = Len(subs) THEN Product(SubSeq(dims, d, Len(dims))) ELSE dims[d]

\* msh_CheckInputSize: between the first and the last significant subscript only
\* the first one is looked at.
CheckInputSize(subs, in, dims) ==
    LET sig == {d \in 1 .. Len(subs) : IsSignificant(subs, dims, d)}
        first == Lowest(sig \cup {Len(subs) + 1})
        last == IF sig = {} THEN Len(subs) ELSE -Lowest({-d : d \in sig})
        from == Lowest({k \in 1 .. Len(in.dims) : in.dims[k] > 1} \cup {Len(in.dims)})
    IN  IF Numel(in) > 1
        THEN /\ \A d \in (1 .. first) \cup (last .. Len(subs)) : d <= Len(subs) => IsValidSub(subs[d])
             /\ last - first >= 2 => subs[first].type # "char"
             /\ Len(in.dims) - from >= last - first
             /\ \A k \in from .. Len(in.dims) :
                    in.dims[k] = IF k - from > last - first THEN 1
                                 ELSE ExpectedDim(subs, dims, first + k - from)
        ELSE /\ Numel(in) = 1
             /\ \A d \in 1 .. Len(subs) : IsValidSub(subs[d]) /\ subs[d].type # "char"

\* Elements of the slices, in the order they are gone through.
SliceElems(idx) ==
    FlattenSeq([k \in 1 .. Len(idx.starts) |->
        LET len == idx.lens[((k - 1) % Len(idx.lens)) + 1]
        IN  [e \in 1 .. len |-> IF idx.starts[k] = Unset THEN Unset ELSE idx.starts[k] + e - 1]])

\* Elements of dest and of in that belong together; without slices, the first n.
Matched(idx, in, n) ==
    IF idx.whole THEN [k \in 1 .. n |-> <<k - 1, k - 1>>]
    ELSE LET elems == SliceElems(idx)
         IN  [k \in 1 .. Len(elems) |-> <<elems[k], IF Numel(in) = 1 THEN 0 ELSE k - 1>>]

\* Do the arrays have those elements?
HaveElems(dest, in, matched) ==
    \A m \in ToSet(matched) : m[1] \in 0 .. Numel(dest) - 1 /\ m[2] \in 0 .. Numel(in) - 1

\* Mutation: the bytes compared are too few for more than the first dimension.
SizesAgreeFirst(dest, in) ==
    IF Numel(dest) = 0 THEN Numel(in) = 0 ELSE Numel(in) = 1 \/ dest.dims[1] = in.dims[1]

\* Same number of dimensions, all of them equal.
SizesAgree(dest, in) ==
    IF Numel(dest) = 0 THEN Numel(in) = 0 ELSE Numel(in) = 1 \/ dest.dims = in.dims

FieldsAgree(dest, in) ==
    Len(dest.fields) = Len(in.fields) /\ ToSet(dest.fields) \subseteq ToSet(in.fields)

\* Classes and storage of arrays of numbers, characters or logicals.
IsCompatible(dest, idx, in, op) ==
    /\ ~IsParent(in)
    /\ dest.complex = in.complex
    /\ dest.sparse =>
           /\ op = "cpy" /\ in.sparse /\ dest.nzmax >= in.nzmax
           /\ ~idx.whole \/ Numel(in) = 1 => dest.dims = in.dims
    /\ ~dest.sparse => ~in.sparse
    /\ ~dest.sparse /\ op # "cpy" =>
           /\ dest.class # "char" /\ ~dest.complex /\ ~in.complex
           /\ ~IsFloat(dest.class) =>
                  dest.class = in.class \/ (in.class \in {"double", "char"} /\ Numel(in) = 1)
           /\ IsFloat(dest.class) =>
                  \/ IsFloat(in.class) \/ in.class = "char"
                  \/ dest.class # "single" /\ Numel(dest) = 1

\* The worst of several outcomes; the comparison stops at the first one that is
\* not ok, and all come before the first write.
Joint(outcomes) ==
    IF "undefined" \in outcomes THEN "undefined" ELSE IF "error" \in outcomes THEN "error" ELSE "ok"

\* A cell or struct that is asked for an element it does not have gives a null
\* pointer, which is compared next.
RECURSIVE CompareVariableSize(_, _, _, _)
CompareVariableSize(dest, idx, in, op) ==
    LET matched == Matched(idx, in, Numel(dest)) IN
    IF idx.whole /\ ~SizesAgree(dest, in) THEN "error"
    ELSE IF ~IsParent(dest) THEN IF IsCompatible(dest, idx, in, op) THEN "ok" ELSE "error"
    ELSE IF dest.class # in.class \/ ~FieldsAgree(dest, in) THEN "error"
    ELSE IF ~HaveElems(dest, in, matched) THEN "undefined"
    ELSE Joint({CompareVariableSize(dest.kids[m[1]][f], Whole, in.kids[m[2]][f], op) :
                    m \in ToSet(matched), f \in ToSet(dest.fields)})

\* The level that is looked at is the one with the number of elements of the
\* input.  msh_ParseIndices leaves no subscript struct behind a last '()'.
CheckSubscripts ==
    levels # <<>> /\ levels[Len(levels)].type # "(" =>
        LET k == Numel(in_var) IN
        /\ k \in 1 .. Len(levels)
        /\ levels[k].type = "(" => CheckInputSize(levels[k].subs, in_var, dest_var.dims)

CheckValidInput ==
    /\ phase = "parse" /\ level > Len(levels)
    /\ phase' = IF IsUnary THEN "apply"
                ELSE IF ~CheckSubscripts THEN "error"
                ELSE LET outcome == CompareVariableSize(dest_var, indices, in_var, varop)
                     IN  IF outcome = "ok" THEN "apply" ELSE outcome
    /\ UNCHANGED <<varop, levels, in_var, level, dest_var, path, indices, written>>

------------------------------------------------------------------------------
(* The operation.  An update goes to an element of the array at a path and *)
(* comes from an element of the input at a path, or from nowhere.          *)

\* msh_UnaryVariableOperation: a sparse variable is taken whole.
UnaryUpdates(dest, at, idx) ==
    LET elems == IF dest.sparse THEN [k \in 1 .. dest.nzmax |-> k - 1]
                 ELSE IF idx.whole THEN [k \in 1 .. Numel(dest) |-> k - 1]
                 ELSE SliceElems(idx)
    IN  [k \in 1 .. Len(elems) |-> [to |-> <<at, elems[k]>>, from |-> <<>>]]

\* An array of numbers: a single input goes into every element, and a sparse array
\* is copied as it is stored.
LeafUpdates(dest, at, idx, in, from) ==
    LET pairs == IF dest.sparse THEN [k \in 1 .. in.nzmax |-> <<k - 1, k - 1>>]
                 ELSE IF idx.whole /\ Numel(in) = 1 THEN [k \in 1 .. Numel(dest) |-> <<k - 1, 0>>]
                 ELSE Matched(idx, in, Numel(dest))
    IN  [k \in 1 .. Len(pairs) |-> [to |-> <<at, pairs[k][1]>>, from |-> <<from, pairs[k][2]>>]]

\* msh_BinaryVariableOperation: field by field, element by element; without slices
\* over the elements of the input.
RECURSIVE BinaryUpdates(_, _, _, _, _)
BinaryUpdates(dest, at, idx, in, from) ==
    IF ~IsParent(dest) THEN LeafUpdates(dest, at, idx, in, from)
    ELSE LET matched == Matched(idx, in, Numel(in))
         IN  FlattenSeq([g \in 1 .. Len(dest.fields) |-> FlattenSeq([k \in 1 .. Len(matched) |->
                 LET f == dest.fields[g]
                     d == matched[k][1]
                     i == matched[k][2]
                 IN  BinaryUpdates(dest.kids[d][f], Append(at, <<d, f>>), Whole,
                                   in.kids[i][f], Append(from, <<i, f>>))])])

\* Nothing is found to apply to a cell or struct by a unary operation.
VariableOperation ==
    /\ phase = "apply"
    /\ phase' = IF IsUnary /\ IsParent(dest_var) THEN "error" ELSE "done"
    /\ written' = IF ~IsUnary THEN BinaryUpdates(dest_var, path, indices, in_var, <<>>)
                  ELSE IF IsParent(dest_var) THEN <<>>
                  ELSE UnaryUpdates(dest_var, path, indices)
    /\ UNCHANGED <<varop, levels, in_var, level, dest_var, path, indices>>

Returned == phase \in {"done", "error", "undefined"} /\ UNCHANGED vars

Next ==
    \/ ParseField \/ ParseCell \/ ParseStructElement \/ ParseLast
    \/ CheckValidInput \/ VariableOperation \/ Returned

Spec == Init /\ [][Next]_vars

------------------------------------------------------------------------------
(* Reference: what MATLAB selects with a '()'.                             *)

LastSubs == levels[Len(levels)].subs

IsIndexed == levels # <<>> /\ levels[Len(levels)].type = "("

\* Size of the dimension subscript d ranges over: the last subscript has all the
\* dimensions that are left.
Extent(subs, dims, d) ==
    IF d > Len(dims) THEN 1
    ELSE IF d = Len(subs) THEN Product(SubSeq(dims, d, Len(dims))) ELSE dims[d]

IndexList(subs, dims, d) ==
    IF subs[d].type = "char" THEN [k \in 1 .. Extent(subs, dims, d) |-> k] ELSE subs[d].elems

InRange(subs, dims) ==
    \A d \in 1 .. Len(subs) :
        /\ Len(subs[d].elems) > 0
        /\ \A k \in 1 .. Len(IndexList(subs, dims, d)) :
               IndexList(subs, dims, d)[k] \in 1 .. Extent(subs, dims, d)

\* The k-th element selected, the first subscript varying fastest.
SelectedElem(subs, dims, k) ==
    LET num == [d \in 1 .. Len(subs) |-> Len(IndexList(subs, dims, d))]
        nth == [d \in 1 .. Len(subs) |->
                   IndexList(subs, dims, d)[(((k - 1) \div Leading(num, d - 1)) % num[d]) + 1]]
        term == [d \in 1 .. Len(subs) |-> (nth[d] - 1) * Leading(dims, d - 1)]
    IN  FoldLeft(LAMBDA x, y : x + y, 0, term)

NumSelected(subs, dims) == Product([d \in 1 .. Len(subs) |-> Len(IndexList(subs, dims, d))])

\* One run of indices, or no complete dimension in front of the runs: otherwise the
\* loop skips all but the first run, and their starts are never set.
StartsSet(subs, dims) ==
    LET base == BaseDim(subs, dims) IN Len(SliceLens(subs, dims, base)) = 1 \/ Leading(dims, base) = 1

NoIndexZero(subs) == \A d \in 1 .. Len(subs) : subs[d].type = "char" \/ 0 \notin ToSet(subs[d].elems)

\* Where the slices are those MATLAB selects: not for
\* - several runs behind a complete dimension (StartsSet);
\* - a last list that is the first dimension in order: it counts as that dimension;
\* - a last ':' for several dimensions behind an incomplete one: it is the first of them;
\* - a list of several behind all the dimensions, if they are complete: it is not gone through.
Sliceable(subs, dims) ==
    LET base == BaseDim(subs, dims) IN
    /\ StartsSet(subs, dims)
    /\ base = Len(dims) \/ base < Len(subs) \/ Product(SubSeq(dims, Len(subs), Len(dims))) = 1
    /\ \/ base = Len(dims) \/ Len(subs) >= Len(dims) \/ subs[Len(subs)].type # "char"
       \/ dims[Len(subs)] = Extent(subs, dims, Len(subs))
    /\ base = Len(dims) /\ Len(subs) > base => Len(subs[base + 1].elems) = 1

------------------------------------------------------------------------------
(* Properties                                                              *)

\* The array at a path.
RECURSIVE ArrayAt(_, _)
ArrayAt(a, at) == IF at = <<>> THEN a ELSE ArrayAt(a.kids[Head(at)[1]][Head(at)[2]], Tail(at))

DestAt(at) == ArrayAt(dest_var, SubSeq(at, Len(path) + 1, Len(at)))

\* Elements that are stored for an array of numbers.
Stored(a) == 0 .. (IF a.sparse THEN a.nzmax ELSE Numel(a)) - 1

\* All elements of the arrays of numbers in an array that are stored one by one.
RECURSIVE FullElems(_, _)
FullElems(a, at) ==
    IF IsParent(a)
    THEN UNION {FullElems(a.kids[i][f], Append(at, <<i, f>>)) : i \in 0 .. Numel(a) - 1, f \in ToSet(a.fields)}
    ELSE IF a.sparse THEN {} ELSE {<<at, e>> : e \in Stored(a)}

Targets == {written[k].to : k \in DOMAIN written}

ReadsInput == \A k \in DOMAIN written :
    LET from == written[k].from IN from # <<>> => from[2] \in Stored(ArrayAt(in_var, from[1]))

\* A '()' with indices that exist, and an input of as many elements or of one.
IsSized ==
    /\ InRange(LastSubs, dest_var.dims)
    /\ Sliceable(LastSubs, dest_var.dims)
    /\ ~IsUnary => Numel(in_var) \in {1, NumSelected(LastSubs, dest_var.dims)}

StaysWithin == \A t \in Targets : t[2] \in Stored(DestAt(t[1]))

(* No element is written outside of the array, although                    *)
(* msh_ParseIndicesWorker compares only the end of a slice with the number *)
(* of elements and no index with its own dimension: for any indices from 1 *)
(* on, except where the worker leaves starts unset, as for A(:,[1 3]).     *)
(* There it is false, as WithinUnset shows.                                *)
WithinVariable ==
    phase = "done" /\ (IsIndexed => NoIndexZero(LastSubs) /\ StartsSet(LastSubs, dest_var.dims))
        => StaysWithin

(* The same for any indices from 1 on.  It does not hold: the loop at the  *)
(* base skips the second run of A(:,[1 3]), and the operation writes at    *)
(* whatever its entry of start_idxs contains.                              *)
WithinUnset == phase = "done" /\ (IsIndexed => NoIndexZero(LastSubs)) => StaysWithin

(* The slices of msh_ParseIndices are gone through in the order of the     *)
(* elements MATLAB selects with the same subscripts, and each is updated   *)
(* from its own element of the input (subsover.m compares them for some).  *)
SelectedUpdated ==
    phase = "done" /\ IsIndexed /\ ~IsParent(dest_var) /\ ~dest_var.sparse /\ IsSized
        => /\ Len(written) = NumSelected(LastSubs, dest_var.dims)
           /\ \A k \in DOMAIN written :
                  /\ written[k].to = <<path, SelectedElem(LastSubs, dest_var.dims, k)>>
                  /\ ~IsUnary => written[k].from = <<<<>>, IF Numel(in_var) = 1 THEN 0 ELSE k - 1>>

(* "recursively overwrites the contents" (object.m): an operation on a     *)
(* whole variable, or on elements of a cell or struct, reaches every       *)
(* element of every array in it (once, if there is no '()') and reads only *)
(* elements the input has, as msh_CompareVariableSize has compared them all beforehand.       *)
RecursivelyUpdated ==
    phase = "done" /\ (IsIndexed => IsParent(dest_var) /\ IsSized)
        => /\ ~IsIndexed => \A j, k \in DOMAIN written : written[j].to = written[k].to => j = k
           /\ ReadsInput
           /\ LET reached == IF IsIndexed
                             THEN {SelectedElem(LastSubs, dest_var.dims, k) :
                                       k \in 1 .. NumSelected(LastSubs, dest_var.dims)}
                             ELSE 0 .. Numel(dest_var) - 1
              IN  {t \in FullElems(dest_var, path) :
                      IsParent(dest_var) => t[1][Len(path) + 1][1] \in reached} \subseteq Targets

(* "in the other case, the sizes will already be checked" (mshvarops.c):   *)
(* with slices, too, an operation reads only elements the input has.       *)
InputCovered == phase = "done" => ReadsInput

(* "on a subset of elements when S is a struct" (object.m): an operation   *)
(* with subscripts that exist updates selected elements only.              *)
SubsetOnly ==
    phase = "done" /\ IsIndexed /\ ~IsParent(dest_var) /\ InRange(LastSubs, dest_var.dims)
        => \A t \in Targets : \E k \in 1 .. NumSelected(LastSubs, dest_var.dims) :
               t[2] = SelectedElem(LastSubs, dest_var.dims, k)
=============================================================================
