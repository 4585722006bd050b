--------------------------- MODULE MCSharedLayout ---------------------------
(* Arrays for checking SharedLayout with TLC: empty, scalar and longer     *)
(* ones around the alignment, sparse ones, and cells and structs of them.  *)
EXTENDS SharedLayout

Full(dims, n, sz, c) ==
    [class |-> "full", num_dims |-> dims, num_elems |-> n, elem_size |-> sz, complex |-> c,
     nzmax |-> 0, cols |-> 0, fields |-> <<>>, children |-> <<>>]

Sparse(nz, n, c) ==
    [Full(2, n, 8, c) EXCEPT !.class = "sparse", !.nzmax = nz, !.cols = n]

Cell(children) ==
    [Full(2, Len(children), 8, FALSE) EXCEPT !.class = "cell", !.children = children]

Struct(fields, children) ==
    [Full(2, Len(children) \div Len(fields), 8, FALSE)
        EXCEPT !.class = "struct", !.fields = fields, !.children = children]

Leaves ==
    {Full(dims, n, sz, c) : dims \in 2 .. 3, n \in {0, 1, 2, 5, 33}, sz \in {1, 8}, c \in BOOLEAN}
      \cup {Sparse(nz, n, c) : nz \in {1, 5}, n \in {0, 3}, c \in BOOLEAN}

Few == {Full(2, 0, 8, TRUE), Full(3, 1, 8, TRUE), Full(2, 5, 1, FALSE), Sparse(1, 0, TRUE)}

Parents ==
    {Cell(<<>>)} \cup {Cell(<<a>>) : a \in Leaves} \cup {Cell(<<a, b>>) : a, b \in Few}
      \cup {Struct(<<3>>, <<a, b>>) : a, b \in Few}
      \cup {Struct(<<1, 30>>, <<a, b>>) : a, b \in Few}

Nested == {Cell(<<a, b>>) : a \in Parents, b \in Few}
            \cup {Struct(<<7, 9>>, <<a, b>>) : a \in Few, b \in Parents}

MCVar == Leaves \cup Parents \cup Nested

MCDepth == [v \in MCVar |-> IF v \in Leaves \cup Few THEN 0 ELSE IF v \in Parents THEN 1 ELSE 2]
=============================================================================
