----------------------------- MODULE BlockLayout -----------------------------
(***************************************************************************)
(* Where the members of a block lie.  A type is a record: "base" is the     *)
(* name of a scalar type, or "struct" or "block"; "rows" and "cols" are the *)
(* size of a vector (cols = 0) or of a matrix; "dims" the sizes of the      *)
(* arrays, the outermost first, an unsized one 0; "members" are records of  *)
(* a name, a type and an offset (None until it is known); "packing" is the  *)
(* layout rule, which a block hands down to what is in it, and "matrix" is  *)
(* "row", "column", or None where it is what the enclosing type says.       *)
(***************************************************************************)
EXTENDS ShaderTrees

IsArray(t) == t.dims # <<>>
IsAggregate(t) == t.base \in {"struct", "block"}
IsMatrix(t) == t.cols > 0
Elem(t) == [t EXCEPT !.dims = Tail(@)]
RoundTo(n, align) == ((n + align - 1) \div align) * align
Largest(m, n) == IF m > n THEN m ELSE n

ScalarSize == [float |-> 4, int |-> 4, double |-> 8, half |-> 2, byte |-> 1]
RowMajor(t, parentsRowMajor) == IF t.matrix # None THEN t.matrix = "row" ELSE parentsRowMajor
\* A row or a column of a matrix.
Vector(t, rowMajor) == [t EXCEPT !.rows = IF rowMajor THEN t.cols ELSE @, !.cols = 0]
Vectors(t, rowMajor) == IF rowMajor THEN t.rows ELSE t.cols

\* Alignment, size and stride of an array whose elements are laid out as elem;
\* atLeast is the alignment the rule asks of every array.
ArrayOf(elem, n, atLeast) ==
    LET align == Largest(elem.align, atLeast)
        stride == RoundTo(elem.size, align)
    IN  [align |-> align, size |-> stride * n, stride |-> stride]
\* A structure is filled up to its alignment.
StructureOf(packed, atLeast) ==
    LET align == Largest(packed.align, atLeast)
    IN  [align |-> align, size |-> RoundTo(packed.size, align), stride |-> 0]
Place(offset, layout) == RoundTo(offset, layout.align) + layout.size
\* Members one after another, each where its alignment allows.
Pack(members, Layout(_)) ==
    LET Join(acc, l) == [align |-> Largest(acc.align, l.align), size |-> Place(acc.size, l)]
    IN  FoldLeft(LAMBDA acc, m : Join(acc, Layout(m.type)), [align |-> 0, size |-> 0], members)

RECURSIVE BaseAlignment(_, _, _)
BaseAlignment(t, packing, rowMajor) ==
    LET atLeast == IF packing = "std140" THEN 16 ELSE 1
        scalar == ScalarSize[t.base]
    IN  IF IsArray(t)
        THEN ArrayOf(BaseAlignment(Elem(t), packing, rowMajor), Largest(t.dims[1], 1), atLeast)
        ELSE IF IsAggregate(t)
        THEN StructureOf(Pack(t.members, LAMBDA m : BaseAlignment(m, packing, RowMajor(m, rowMajor))), atLeast)
        ELSE IF IsMatrix(t)
        THEN ArrayOf(BaseAlignment(Vector(t, rowMajor), packing, rowMajor), Vectors(t, rowMajor), atLeast)
        ELSE [align  |-> scalar * (CASE t.rows = 1 -> 1 [] t.rows = 2 -> 2 [] OTHER -> 4),
              size   |-> scalar * t.rows,
              stride |-> 0]

\* The last element of an array and the end of a structure are not filled up.
ScalarArrayOf(elem, n) ==
    LET stride == RoundTo(elem.size, elem.align)
    IN  [align |-> elem.align, size |-> stride * (n - 1) + elem.size, stride |-> stride]
ScalarMatrixOf(vector, n) == [align |-> vector.align, size |-> vector.size * n, stride |-> vector.size]
RECURSIVE ScalarAlignment(_, _)
ScalarAlignment(t, rowMajor) ==
    LET scalar == ScalarSize[t.base]
    IN  IF IsArray(t) THEN ScalarArrayOf(ScalarAlignment(Elem(t), rowMajor), t.dims[1])
        ELSE IF IsAggregate(t)
        THEN Pack(t.members, LAMBDA m : ScalarAlignment(m, RowMajor(m, rowMajor))) @@ [stride |-> 0]
        ELSE IF IsMatrix(t)
        THEN ScalarMatrixOf(ScalarAlignment(Vector(t, rowMajor), rowMajor), Vectors(t, rowMajor))
        ELSE [align |-> scalar, size |-> scalar * t.rows, stride |-> 0]

MemberAlignment(t, packing, rowMajor) ==
    IF packing = "scalar" THEN ScalarAlignment(t, rowMajor) ELSE BaseAlignment(t, packing, rowMajor)

(***************************************************************************)
(* Offsets.                                                                 *)
(***************************************************************************)
ParentsRowMajor(t) == t.matrix = "row"
InParent(t, parent) ==
    MemberAlignment(t, parent.packing, RowMajor(t, ParentsRowMajor(parent)))
\* updateOffset, and the step over the member that follows it.
UpdateOffset(parent, member, offset) == RoundTo(offset, InParent(member, parent).align)
After(parent, member, offset) == Place(offset, InParent(member, parent))
GetOffset(t, i) ==
    LET before == FoldLeft(LAMBDA offset, m : After(t, m.type, offset), 0, SubSeq(t.members, 1, i - 1))
    IN  IF t.members[i].offset # None THEN t.members[i].offset
        ELSE UpdateOffset(t, t.members[i].type, before)
\* The offsets of all members at once, each from the one before.
GetOffsets(t) ==
    LET Step(acc, start, l) ==
            [offsets |-> Append(acc.offsets, RoundTo(start, l.align)), next |-> Place(start, l)]
    IN  FoldLeft(LAMBDA acc, m :
                    Step(acc, IF m.offset # None THEN m.offset ELSE acc.next, InParent(m.type, t)),
                 [offsets |-> <<>>, next |-> 0], t.members).offsets
\* The last member is measured in the matrix layout of the block.
GetBlockSize(t) ==
    LET last == Len(t.members)
    IN  GetOffset(t, last) + MemberAlignment(t.members[last].type, t.packing, ParentsRowMajor(t)).size

ArrayStrideOfElem(base, t) == IF t.base = "block" THEN 0 ELSE InParent(Elem(t), base).stride
ArrayStride(base, t) == IF t.base = "block" THEN 0 ELSE InParent(t, base).stride

(***************************************************************************)
(* fixBlockUniformOffsets: what the parser makes of "offset" and "align" on *)
(* members, without SPIR-V.                                                 *)
(***************************************************************************)
Fixes(t) == t.packing \in {"std140", "std430", "scalar"}
FixMember(t, acc, m) ==
    LET align == InParent(m.type, t).align
        start == IF m.offset # None THEN Largest(acc.next, m.offset) ELSE acc.next
        offset == RoundTo(start, IF m.align # None THEN Largest(align, m.align) ELSE align)
    IN  [members |-> Append(acc.members, [m EXCEPT !.offset = offset]),
         next    |-> offset + InParent(m.type, t).size,
         refused |-> \/ acc.refused
                     \/ m.offset # None /\ (m.offset % align # 0 \/ m.offset < acc.next)]
FixBlockUniformOffsets(t) ==
    FoldLeft(LAMBDA acc, m : FixMember(t, acc, m),
             [members |-> <<>>, next |-> 0, refused |-> FALSE], t.members)
=============================================================================
