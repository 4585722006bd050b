---------------------------- MODULE SharedLayout ----------------------------
(***************************************************************************)
(* How a MATLAB array is packed into a segment (headers/opaque/            *)
(* mshheader.c): msh_FindSharedSize computes the size of the segment that  *)
(* is asked for, msh_CopyVariable then writes headers, dimensions, child   *)
(* offsets, field names and data into it, and msh_FetchVariable builds an  *)
(* array from the header it finds in another process.  The first two walk  *)
(* the array separately and have to agree on every offset.                 *)
(*                                                                         *)
(* An array is a record: its class, its number of dimensions, its number   *)
(* of elements, the size of one, whether it is complex, nzmax and the      *)
(* number of columns if it is sparse, the lengths of its field names and   *)
(* its children.  What is stored is a set of areas of bytes, each marked   *)
(* with the part of the array it holds.                                    *)
(***************************************************************************)
EXTENDS Integers, Sequences

CONSTANTS
    Var,            \* arrays that are shared, and the arrays in them
    Depth, MaxDepth,\* how deep arrays are nested in an array
    HeaderSize,     \* sizeof(SharedVariableHeader_T)
    SignatureSize,  \* ALLOCATION_HEADER_SIZE, what mxMalloc keeps before its data
    WordSize,       \* sizeof(size_t), sizeof(mwSize) and sizeof(mwIndex)
    Alignment,      \* MSH_ALIGNMENT
    SizeMax         \* SIZE_MAX, an offset that means "none"

\* What is known of an array: it has two dimensions at least, its elements have a
\* size, and a sparse one has room for an element even if it has none.
IsArray(v) ==
    /\ v.class \in {"full", "sparse", "struct", "cell"}
    /\ {v.num_dims, v.num_elems, v.elem_size, v.nzmax, v.cols} \subseteq Nat
    /\ v.num_dims >= 2 /\ v.elem_size > 0 /\ (v.class = "sparse" => v.nzmax > 0)
    /\ v.complex \in BOOLEAN
    /\ v.fields \in Seq(Nat)
    /\ v.children \in Seq(Var)
    /\ \A k \in 1 .. Len(v.children) : Depth[v.children[k]] < Depth[v]

ASSUME SharedLayoutAssumption ==
    /\ {HeaderSize, SignatureSize, WordSize, Alignment} \subseteq Nat \ {0}
    /\ Alignment % SignatureSize = 0
    /\ SizeMax \notin Nat
    /\ MaxDepth \in Nat /\ Depth \in [Var -> 0 .. MaxDepth]
    /\ \A v \in Var : IsArray(v)

VARIABLE segment    \* the array that was shared, the size asked for and what was written

NoSegment == [var |-> <<>>, size |-> 0, areas |-> {}]

PadToAlignData(sz) == sz + ((Alignment - 1) - ((sz - 1) % Alignment))

\* The names with their null characters.
FieldNamesSize(v) ==
    LET size[k \in 0 .. Len(v.fields)] == IF k = 0 THEN 0 ELSE size[k - 1] + v.fields[k] + 1
    IN  size[Len(v.fields)]

------------------------------------------------------------------------------
(* The data blocks of an array, with the names of the header's offsets.    *)

Blocks(v) ==
    CASE v.class = "sparse" -> IF v.complex THEN <<"data", "imag_data", "ir", "jc">> ELSE <<"data", "ir", "jc">>
      [] v.num_elems = 0    -> <<>>
      [] OTHER              -> IF v.complex THEN <<"data", "imag_data">> ELSE <<"data">>

\* The length of the block x if n elements are stored.
BlockLen(v, x, n) ==
    CASE x = "ir" -> WordSize * v.nzmax
      [] x = "jc" -> WordSize * (v.cols + 1)
      [] OTHER    -> v.elem_size * n

NumStored(v) == IF v.class = "sparse" THEN v.nzmax ELSE v.num_elems

\* What msh_CopyVariable writes for the block x.
CopiedLen(v, x) == BlockLen(v, x, NumStored(v))

\* What msh_FindSharedSize makes room for: two elements for a scalar.
SizedLen(v, x) ==
    BlockLen(v, x, IF v.class # "sparse" /\ v.num_elems = 1 THEN 2 ELSE NumStored(v))

------------------------------------------------------------------------------
(* msh_FindSharedSize                                                      *)

\* Mutation: no room is left for the signatures.
AddAlignedDataSizeUnsigned(sz, len) == PadToAlignData(sz) + PadToAlignData(len)

AddAlignedDataSize(sz, len) == PadToAlignData(sz + SignatureSize) + PadToAlignData(len)

IsParent(v) == v.class \in {"struct", "cell"}

\* Header, dimensions, child offsets and field names.
Preamble(v) ==
    HeaderSize + v.num_dims * WordSize
      + (IF IsParent(v) THEN Len(v.children) * WordSize + FieldNamesSize(v) ELSE 0)

\* Mutation: the next child is put right behind.
ChildEndUnpadded(off, len) == off + len

\* Where the next child goes, after one of length len at off.
ChildEnd(off, len) == off + PadToAlignData(len)

\* Where each child of v ends, if they have the lengths lens; the first begins
\* where the child before it would end.
ChildEnds(v, lens) ==
    LET off[k \in 0 .. Len(lens)] ==
            IF k = 0 THEN PadToAlignData(Preamble(v)) ELSE ChildEnd(off[k - 1], lens[k])
    IN  off

\* The size of an array that is no parent, after each of its blocks.
DataSizes(v) ==
    LET sz[k \in 0 .. Len(Blocks(v))] ==
            IF k = 0 THEN Preamble(v) ELSE AddAlignedDataSize(sz[k - 1], SizedLen(v, Blocks(v)[k]))
    IN  sz

FindSharedSize[v \in Var] ==
    LET sizes == [k \in 1 .. Len(v.children) |-> FindSharedSize[v.children[k]]]
    IN  IF IsParent(v) THEN ChildEnds(v, sizes)[Len(sizes)]
        ELSE DataSizes(v)[Len(Blocks(v))]

------------------------------------------------------------------------------
(* msh_CopyVariable                                                        *)

Area(at, len, what) == [at |-> at, len |-> len, what |-> what]

\* Mutation: the signature is not made room for.
PlaceBlockUnsigned(off) == PadToAlignData(off)

\* The size a signature records.
FindPaddedDataSize(len) == len + ((SignatureSize - 1) - ((len - 1) % SignatureSize))

\* Where a data block goes whose signature must come after off.
PlaceBlock(off) == PadToAlignData(off + SignatureSize)

\* Where each block of v ends.
BlockEnds(v) ==
    LET off[k \in 0 .. Len(Blocks(v))] ==
            IF k = 0 THEN Preamble(v)
            ELSE PlaceBlock(off[k - 1]) + PadToAlignData(CopiedLen(v, Blocks(v)[k]))
    IN  off

BlockOff(v, k) == PlaceBlock(BlockEnds(v)[k - 1])

\* The offsets of the data, SIZE_MAX for what the array has not.
DataOffs(v) ==
    [x \in {"data", "imag_data", "ir", "jc"} |->
        IF \E k \in 1 .. Len(Blocks(v)) : Blocks(v)[k] = x
        THEN BlockOff(v, CHOOSE k \in 1 .. Len(Blocks(v)) : Blocks(v)[k] = x)
        ELSE SizeMax]

\* A header as it is stored, with the child offsets; num_elems and nzmax share one
\* place, ir and jc share theirs with the offsets of field names and child offsets.
Header(v, offs, children) ==
    [class |-> v.class, num_dims |-> v.num_dims, elem_size |-> v.elem_size,
     ne_nz |-> NumStored(v), offs |-> offs, children |-> children, fields |-> v.fields]

Preambles(v, header) ==
    {Area(0, HeaderSize, <<"header", v, header>>),
     Area(HeaderSize, Preamble(v) - HeaderSize, <<"preamble", v>>)}

CopyBlock(v, k) ==
    LET x   == Blocks(v)[k]
        len == CopiedLen(v, x)
    IN  {Area(BlockOff(v, k) - SignatureSize, SignatureSize, <<"signature", FindPaddedDataSize(len)>>),
         Area(BlockOff(v, k), len, <<x, v>>)}

CopyData(v) ==
    [len |-> BlockEnds(v)[Len(Blocks(v))],
     areas |-> Preambles(v, Header(v, DataOffs(v), <<>>))
                 \cup UNION {CopyBlock(v, k) : k \in 1 .. Len(Blocks(v))}]

Moved(areas, off) == {Area(a.at + off, a.len, a.what) : a \in areas}

CopyChildren(v, copies) ==
    LET ends == ChildEnds(v, [k \in 1 .. Len(copies) |-> copies[k].len])
    IN  [len |-> ends[Len(copies)],
         areas |-> Preambles(v, Header(v, [x \in {} |-> 0], [k \in 1 .. Len(copies) |-> ends[k - 1]]))
                     \cup UNION {Moved(copies[k].areas, ends[k - 1]) : k \in 1 .. Len(copies)}]

\* What is written for v, by offsets from its header, and the length returned.
CopyVariable[v \in Var] ==
    IF IsParent(v) THEN CopyChildren(v, [k \in 1 .. Len(v.children) |-> CopyVariable[v.children[k]]])
    ELSE CopyData(v)

------------------------------------------------------------------------------
(* msh_FetchVariable                                                       *)

\* Which part of an array the pointer at offset off leads to.
Pointer(at, off) ==
    IF off = SizeMax THEN "none" ELSE (CHOOSE a \in segment.areas : a.at = at + off).what

\* Mutation: any data makes an array complex.
GetIsComplexData(h) == h.offs["data"] # SizeMax

GetIsComplex(h) == h.offs["imag_data"] # SizeMax

HeaderAt(at) == (CHOOSE a \in segment.areas : a.at = at /\ a.what[1] = "header").what[3]

HeaderPlaces == {a.at : a \in {b \in segment.areas : b.what[1] = "header"}}

\* An array that is no parent; it is complex if there is imaginary data.
FetchData(at, h) ==
    [class |-> h.class, elem_size |-> h.elem_size, ne_nz |-> h.ne_nz, complex |-> GetIsComplex(h),
     data |-> [x \in DOMAIN h.offs |-> Pointer(at, h.offs[x])]]

\* The array built from the header at a place.
FetchVariable[at \in HeaderPlaces] ==
    LET h == HeaderAt(at)
    IN  IF h.class \in {"struct", "cell"}
        THEN [class |-> h.class, fields |-> h.fields,
              children |-> [k \in 1 .. Len(h.children) |-> FetchVariable[at + h.children[k]]]]
        ELSE FetchData(at, h)

------------------------------------------------------------------------------
Init == segment = NoSegment

\* msh_Share: a segment of the size found is created and filled.  The address of
\* the header in it is aligned.
Share(v) ==
    segment' = [var |-> v, size |-> FindSharedSize[v], areas |-> CopyVariable[v].areas]

Clear == segment' = NoSegment

Next == (segment = NoSegment /\ \E v \in Var : Share(v)) \/ (segment # NoSegment /\ Clear)

Spec == Init /\ [][Next]_segment

------------------------------------------------------------------------------
(* Properties.                                                             *)

(* Everything msh_CopyVariable writes is inside the segment whose size     *)
(* msh_FindSharedSize computed: the two walks of the array never disagree  *)
(* to the harm of the memory behind the segment.                           *)
WithinSegment == \A a \in segment.areas : a.at >= 0 /\ a.at + a.len <= segment.size

(* No two parts of the array overlap in the segment, the mxMalloc          *)
(* signatures before the data blocks included.                             *)
AreasDisjoint ==
    \A a, b \in segment.areas :
        a # b => a.at + a.len <= b.at \/ b.at + b.len <= a.at

(* Every header and every data block begins at a multiple of the alignment *)
(* MATLAB wants, and the signature is directly before the data, where      *)
(* mxFree looks for it.                                                    *)
DataAligned ==
    \A a \in segment.areas :
        /\ a.what[1] \notin {"preamble", "signature"} => a.at % Alignment = 0
        /\ a.what[1] \in {"data", "imag_data", "ir", "jc"} =>
            Area(a.at - SignatureSize, SignatureSize, <<"signature", FindPaddedDataSize(a.len)>>)
                \in segment.areas

\* What a process that fetches v should have: the parts of v itself.
Parts(v) == {Blocks(v)[k] : k \in 1 .. Len(Blocks(v))}

DataContent(v) ==
    [class |-> v.class, elem_size |-> v.elem_size, ne_nz |-> NumStored(v),
     complex |-> v.complex /\ "imag_data" \in Parts(v),
     data |-> [x \in {"data", "imag_data", "ir", "jc"} |->
                   IF x \in Parts(v) THEN <<x, v>> ELSE "none"]]

Content[v \in Var] ==
    IF IsParent(v)
    THEN [class |-> v.class, fields |-> v.fields,
          children |-> [k \in 1 .. Len(v.children) |-> Content[v.children[k]]]]
    ELSE DataContent(v)

(* Another process that follows the stored offsets gets the array that was *)
(* shared: each child at its place, each pointer at the right data, and    *)
(* complex data recognised by its offset alone.  Only an empty complex     *)
(* array comes back real.                                                  *)
FetchedIsShared == segment # NoSegment => FetchVariable[0] = Content[segment.var]
=============================================================================
