---------------------------- MODULE MCSubscripts ----------------------------
(* Arrays, subscripts and inputs for model checking Subscripts.            *)
EXTENDS Subscripts

Num(dims) ==
    [class |-> "double", dims |-> dims, complex |-> FALSE, sparse |-> FALSE, nzmax |-> 0]
Int8(dims) == [Num(dims) EXCEPT !.class = "int8"]
Sparse(dims, n) == [Num(dims) EXCEPT !.sparse = TRUE, !.nzmax = n]
Cell(dims, kids) == [class |-> "cell", dims |-> dims, fields |-> <<"">>, complex |-> FALSE,
                     sparse |-> FALSE, nzmax |-> 0,
                     kids |-> [i \in 0 .. Len(kids) - 1 |-> [f \in {""} |-> kids[i + 1]]]]
Struct(dims, kids) == [class |-> "struct", dims |-> dims, fields |-> <<"f", "g">>, complex |-> FALSE,
                       sparse |-> FALSE, nzmax |-> 0,
                       kids |-> [i \in 0 .. Len(kids) - 1 |-> kids[i + 1]]]

Scalar == Num(<<1, 1>>)

\* Matrices with two and three rows, an array of three dimensions, and a row.
Matrices == {Num(<<2, 3>>), Num(<<3, 2>>), Num(<<2, 2, 2>>), Int8(<<1, 3>>)}

\* Arrays inside arrays.
Inner == Cell(<<1, 2>>, <<Scalar, Num(<<2, 2>>)>>)
Elem(f, g) == [x \in {"f", "g"} |-> IF x = "f" THEN f ELSE g]
Nested == {Cell(<<3, 1>>, <<Scalar, Inner, Sparse(<<2, 2>>, 3)>>),
           Struct(<<1, 1>>, <<Elem(Num(<<1, 2>>), Inner)>>),
           Struct(<<1, 2>>, <<Elem(Num(<<1, 2>>), Inner), Elem(Scalar, Num(<<0, 0>>))>>)}

MCParents == Matrices \cup Nested

All == [type |-> "char", elems |-> <<":">>]
At(s) == [type |-> "double", elems |-> s]
Lists == {At(s) : s \in {<<1>>, <<2>>, <<3>>, <<4>>, <<1, 2>>, <<2, 3>>, <<1, 3>>, <<2, 1>>,
                         <<1, 2, 3>>, <<1, 2, 2>>, <<2, 3, 1>>, <<>>, <<0>>}}
Level(type, name, subs) == [type |-> type, name |-> name, subs |-> subs]
Paren(subs) == Level("(", "", subs)

\* All subscripts for one and two dimensions, fewer for three and four.
Few == {All, At(<<2>>), At(<<1, 2>>), At(<<2, 1>>)}
MatrixSubs ==
    {<<s>> : s \in Lists \cup {All}}
        \cup {<<s, t>> : s, t \in Lists \cup {All}}
        \cup {<<s, t, u>> : s, t, u \in Few}
        \cup {<<s, t, u, v>> : s \in Few, t \in Few, u \in {All, At(<<1>>)}, v \in {All, At(<<1, 1>>)}}

OneSub == {<<At(<<1>>)>>, <<At(<<2>>)>>, <<At(<<0>>)>>, <<All>>, <<At(<<1, 2>>)>>, <<At(<<2, 1>>)>>}

NestedChains ==
    {<<>>}
        \cup {<<Level("{", "", s)>> : s \in OneSub}
        \cup {<<Level("{", "", s), Paren(t)>> : s \in OneSub, t \in OneSub}
        \cup {<<Level("{", "", s), Level("{", "", t), Paren(u)>> : s \in OneSub, t \in OneSub, u \in OneSub}
        \cup {<<Level(".", f, <<>>)>> : f \in {"f", "h"}}
        \cup {<<Level(".", "g", <<>>), Level("{", "", s), Paren(t)>> : s \in OneSub, t \in OneSub}
        \cup {<<Paren(s), Level(".", f, <<>>)>> : s \in OneSub, f \in {"f", "g", "h"}}
        \cup {<<Paren(s), Level(".", "f", <<>>), Paren(t)>> : s \in OneSub, t \in OneSub}
        \cup {<<Paren(s), Level(".", "g", <<>>), Paren(t), Level("{", "", t)>> : s \in OneSub, t \in OneSub}

MCChains == {<<Paren(s)>> : s \in MatrixSubs} \cup NestedChains

MCInputs ==
    {Scalar, Int8(<<1, 1>>), Num(<<1, 2>>), Num(<<2, 1>>), Num(<<2, 2>>), Num(<<2, 3>>), Num(<<4, 1>>)}
        \cup Nested \cup {Inner, Cell(<<1, 2>>, <<Scalar, Scalar>>), Cell(<<1, 1>>, <<Scalar>>)}
=============================================================================
