----------------------------- MODULE Reflection ------------------------------
(***************************************************************************)
(* TProgram::buildReflection.  The trees are walked stage by stage; a use   *)
(* of a uniform, a buffer, an input or an output enters what it reaches     *)
(* into lists, down to the variables the API speaks of: members of basic    *)
(* type and arrays of them.  A name is a sequence of parts, an index says   *)
(* where in its list a name is.                                             *)
(*                                                                         *)
(* A use is a symbol node with the dereferences that follow it: <<"member", *)
(* i>>, <<"index", i>> with a constant, <<"any", 0>> with anything else;    *)
(* the choice of components of a vector is not among them, as the code      *)
(* looks below it.  program.shapes says what the type of a node looks like. *)
(***************************************************************************)
EXTENDS ProgramIo, BlockLayout

VARIABLES db,         \* the lists, and the index of every name
          built       \* what buildReflection returned, or None

reflVars == <<vars, db, built>>

Has(option) == option \in program.reflect
Shape == program.shapes

Lists == {"uniform", "uniform block", "buffer variable", "buffer block", "in", "out"}
EmptyDb == [list \in Lists |-> <<>>] @@ [index |-> <<>>, atomic |-> <<>>]

\* GetVariableMapForStorage, GetBlockMapForStorage.
VariableList(storage) == IF Has("separate") /\ storage = "buffer" THEN "buffer variable" ELSE "uniform"
BlockList(storage) == IF Has("separate") /\ storage = "buffer" THEN "buffer block" ELSE "uniform block"

IsReflectionGranularity(t) == ~IsAggregate(t) /\ Len(t.dims) <= 1
Subscripts == <<"[0]", "[1]", "[2]", "[3]">>
Subscript(i) == Subscripts[i + 1]
OuterSize(t) == IF IsArray(t) THEN t.dims[1] ELSE 1
Indices(t) == [i \in 1 .. Largest(OuterSize(t), 1) |-> i - 1]

\* An entry with this key, new or changed.
Enter(base, list, key, entry, Merge(_)) ==
    IF key \in DOMAIN base.index
    THEN [base EXCEPT ![list][base.index[key]] = Merge(@)]
    ELSE [base EXCEPT ![list] = Append(@, entry), !.index = @ @@ (key :> Len(base[list]) + 1)]
StageIf(s, active) == IF active THEN {s} ELSE {}

(***************************************************************************)
(* blowUpActiveAggregate.  v is what it is called with: the type and the    *)
(* name so far, the dereferences to go, and so on.                          *)
(***************************************************************************)
Constant(base, w, i, stride) ==
    LET elem == Elem(w.type)
        inRoot == Has("strict") /\ w.blockParent
        counts == elem.base # "block" /\ ~inRoot /\ (Has("strict") \/ base.base # "block")
        subscript == IF counts THEN <<Subscript(i)>>
                     ELSE IF inRoot /\ elem.base # "block" THEN <<Subscript(0)>> ELSE <<>>
    IN  [w EXCEPT !.type = elem, !.name = @ \o subscript,
                  !.offset = IF counts /\ @ >= 0 THEN @ + stride * i ELSE @,
                  !.topStride = IF @ = 0 THEN stride ELSE @,
                  !.blockParent = @ /\ w.topStride = 0 /\ stride = 0]
Member(w, i) ==
    LET member == w.type.members[i]
    IN  [w EXCEPT !.type = member.type, !.name = Append(@, member.name),
                  !.offset = IF @ >= 0 THEN @ + GetOffset(w.type, i) ELSE @,
                  !.blockParent = @ /\ (w.type.base = "block" \/ ~IsArray(member.type))]
\* The dereferences up to the first that is not constant.
Walk(v) ==
    LET start == [type |-> v.type, name |-> v.name, offset |-> v.offset, topStride |-> v.topStride,
                  blockParent |-> v.type.base = "block" /\ v.type.storage = "buffer"]
        constant == SelectInSeq(v.derefs, LAMBDA d : d[1] = "any") - 1
        steps == IF constant < 0 THEN v.derefs ELSE SubSeq(v.derefs, 1, constant)
    IN  FoldLeft(LAMBDA w, d : IF d[1] = "member" THEN Member(w, d[2])
                              ELSE Constant(v.type, w, d[2], ArrayStride(v.type, w.type)),
                 start, steps)
           @@ [rest |-> IF constant < 0 THEN <<>> ELSE SubSeq(v.derefs, constant + 1, Len(v.derefs))]

Record(s, base, v, w) ==
    LET size == IF v.arraySize = 0 THEN OuterSize(w.type) ELSE v.arraySize
        active == Has("all") /\ v.active
        key == IF Has("basic") /\ IsArray(w.type) THEN Append(w.name, Subscript(0)) ELSE w.name
        list == VariableList(v.storage)
        entry == [name |-> key, type |-> w.type, offset |-> w.offset, size |-> size, block |-> v.block,
                  stride |-> IF IsArray(w.type) THEN ArrayStride(v.type, w.type) ELSE 0,
                  stages |-> StageIf(s, active)]
        new == key \notin DOMAIN base.index
    IN  [Enter(base, list, key, entry,
               LAMBDA old : [old EXCEPT !.size = IF size > 1 THEN Largest(@, size) ELSE @,
                                        !.stages = @ \union StageIf(s, active)])
         EXCEPT !.atomic = IF new /\ Has("separate") /\ w.type.base = "atomic"
                           THEN Append(@, Len(base[list]) + 1) ELSE @]

RECURSIVE BlowUp(_, _, _)
\* An index that is not constant, and all elements of an array.
EachElement(s, base, v, w, stride, subscripts, elements) ==
    LET below(i) ==
            [v EXCEPT !.type = Elem(w.type),
                      !.name = IF subscripts = <<>> THEN w.name ELSE Append(w.name, subscripts[i + 1]),
                      !.derefs = IF w.rest = <<>> THEN <<>> ELSE Tail(w.rest),
                      !.offset = IF w.offset >= 0 THEN w.offset + stride * i ELSE w.offset,
                      !.arraySize = IF w.rest = <<>> THEN 0 ELSE @,
                      !.topStride = IF w.topStride = 0 /\ (w.rest # <<>> \/ w.offset >= 0)
                                    THEN stride ELSE w.topStride]
    IN  FoldLeft(LAMBDA acc, i : BlowUp(s, acc, below(i)), base, elements)
AnyElement(s, base, v, w) ==
    LET zeros == [i \in DOMAIN Indices(w.type) |-> Subscript(0)]
    IN  EachElement(s, base, v, w, ArrayStride(v.type, w.type),
            IF Elem(w.type).base = "block" THEN <<>>
            ELSE IF Has("strict") /\ w.blockParent THEN zeros
            ELSE IF Has("strict") \/ v.type.base # "block" THEN Subscripts ELSE <<>>,
            Indices(w.type))
AllElements(s, base, v, w) ==
    EachElement(s, base, v, w, ArrayStride(v.type, w.type),
        IF w.type.base = "block" THEN <<>> ELSE Subscripts,
        IF \/ Has("strict") /\ w.blockParent
           \/ v.topSize = Len(Indices(w.type)) /\ w.topStride = 0
        THEN <<0>> ELSE Indices(w.type))
\* In a buffer an array that is a member of the block stands for its first element.
MemberStride(v, w, t) ==
    IF w.type.base = "block" /\ w.type.storage = "buffer" /\ IsArray(t) THEN ArrayStride(v.type, t) ELSE w.topStride
AllMembers(s, base, v, w, strides, offsets) ==
    LET inRoot == Has("strict") /\ w.blockParent
        topSize(i) == IF v.topSize = -1 /\ w.blockParent /\ 0 \in {strides[j] : j \in 1 .. i} THEN 1 ELSE v.topSize
        below(i, t, name) ==
            [v EXCEPT !.type = IF inRoot /\ IsArray(t) /\ IsAggregate(t) THEN Elem(t) ELSE t,
                      !.name = IF inRoot /\ IsArray(t) /\ IsAggregate(t)
                               THEN w.name \o <<name, Subscript(0)>> ELSE Append(w.name, name),
                      !.derefs = <<>>, !.arraySize = 0,
                      !.offset = IF inRoot THEN offsets[i] ELSE IF w.offset >= 0 THEN w.offset + offsets[i] ELSE @,
                      !.topSize = IF inRoot THEN (IF IsArray(t) THEN t.dims[1] ELSE 1) ELSE topSize(i),
                      !.topStride = IF inRoot /\ ~(IsArray(t) /\ IsAggregate(t)) THEN 0 ELSE strides[i],
                      !.storage = IF inRoot THEN w.type.storage ELSE @,
                      !.active = @ /\ ~inRoot]
    IN  FoldLeft(LAMBDA acc, i : BlowUp(s, acc, below(i, w.type.members[i].type, w.type.members[i].name)),
                 base, [i \in DOMAIN w.type.members |-> i])
Expand(s, base, v, w) ==
    IF w.rest # <<>> THEN AnyElement(s, base, v, w)
    ELSE IF IsReflectionGranularity(w.type) THEN Record(s, base, v, w)
    ELSE IF IsArray(w.type) THEN AllElements(s, base, v, w)
    ELSE AllMembers(s, base, v, w,
                    [i \in DOMAIN w.type.members |-> MemberStride(v, w, w.type.members[i].type)],
                    IF w.offset >= 0 THEN GetOffsets(w.type) ELSE <<>>)
BlowUp(s, base, v) == Expand(s, base, v, Walk(v))

(***************************************************************************)
(* Blocks; the elements of an array of blocks are blocks of their own.      *)
(***************************************************************************)
RECURSIVE CountAggregateMembers(_)
CountAggregateMembers(t) ==
    LET inBuffer == t.base = "block" /\ t.storage = "buffer"
        copies(m) == IF /\ IsArray(m) /\ IsAggregate(m) /\ 0 \notin ToSet(m.dims)
                        /\ ~(Has("strict") /\ inBuffer)
                     THEN FoldLeft(LAMBDA n, d : n * d, 1, m.dims) ELSE 1
    IN  IF ~IsAggregate(t) THEN 1
        ELSE FoldLeft(LAMBDA n, m : n + CountAggregateMembers(m.type) * copies(m.type), 0, t.members)

RECURSIVE AddBlockName(_, _, _, _)
AddBlockName(stages, base, name, t) ==
    LET entry == [name |-> name, type |-> t, size |-> GetBlockSize(t),
                  members |-> CountAggregateMembers(t), stages |-> stages]
    IN  IF IsArray(t)
        THEN FoldLeft(LAMBDA acc, i : AddBlockName(stages, acc, Append(name, Subscript(i)), Elem(t)),
                      base, [i \in 1 .. OuterSize(t) |-> i - 1])
        ELSE Enter(base, BlockList(t.storage), name, entry,
                   LAMBDA old : [old EXCEPT !.stages = @ \union stages])
FirstBlock(name, t) == name \o [i \in DOMAIN t.dims |-> Subscript(0)]

\* A block goes by its block name, its members by none if the block is anonymous.
IsBlock(node) == Shape[node.type].base = "block"
BaseName(node) ==
    IF ~IsBlock(node) THEN <<node.name>> ELSE IF node.anonymous THEN <<>> ELSE <<node.type>>
WithBlock(base, stages, node) ==
    IF IsBlock(node) THEN AddBlockName(stages, base, <<node.type>>, Shape[node.type]) ELSE base
Visited(base, node, derefs, arraySize, active) ==
    LET t == Shape[node.type]
    IN  [type |-> t, name |-> BaseName(node), derefs |-> derefs, arraySize |-> arraySize,
         offset |-> IF IsBlock(node) THEN 0 ELSE -1,
         block |-> IF IsBlock(node) THEN base.index[FirstBlock(<<node.type>>, t)] ELSE 0,
         topSize |-> -1, topStride |-> 0, storage |-> t.storage, active |-> active]

(***************************************************************************)
(* What a use does.                                                         *)
(***************************************************************************)
\* addUniform: all of it; mask says whether the use is in a body.
AddUniform(s, base, node, mask) ==
    LET known == WithBlock(base, StageIf(s, mask), node)
    IN  BlowUp(s, known, Visited(known, node, <<>>, 0, mask))

\* addDereferencedUniform.  A last index into an array of basic type only says
\* how much of it is used.
TypeAfter(t, derefs) ==
    FoldLeft(LAMBDA type, d : IF d[1] = "member" THEN type.members[d[2]].type ELSE Elem(type), t, derefs)
AddDereferencedUniform(s, base, node) ==
    LET last == Last(node.derefs)
        fine == IsReflectionGranularity(TypeAfter(Shape[node.type], Front(node.derefs)))
        known == WithBlock(base, {s}, node)
        exploded == IF IsBlock(node) /\ Has("all")
                    THEN BlowUp(s, known, Visited(known, node, <<>>, 0, FALSE)) ELSE known
    IN  BlowUp(s, exploded,
               Visited(known, node, IF fine THEN Front(node.derefs) ELSE node.derefs,
                       IF fine /\ last[1] = "index" THEN last[2] + 1 ELSE 0, TRUE))

\* addPipeIOVariable and blowUpIOAggregate.
PipeEntry(s, name, t) == [name |-> name, type |-> t, size |-> OuterSize(t), stages |-> {s}]
EnterPipe(s, base, storage, key, name, t) ==
    Enter(base, storage, key, PipeEntry(s, name, t), LAMBDA old : [old EXCEPT !.stages = @ \union {s}])
RECURSIVE BlowUpIO(_, _, _, _, _)
BlowUpIO(s, base, storage, name, t) ==
    LET full == IF Has("basic") /\ IsArray(t) THEN Append(name, Subscript(0)) ELSE name
    IN  IF IsReflectionGranularity(t) THEN EnterPipe(s, base, storage, <<storage>> \o full, full, t)
        ELSE IF IsArray(t)
        THEN FoldLeft(LAMBDA acc, i : BlowUpIO(s, acc, storage, Append(name, Subscript(i)), Elem(t)),
                      base, Indices(t))
        ELSE FoldLeft(LAMBDA acc, m : BlowUpIO(s, acc, storage, Append(name, m.name), m.type),
                      base, t.members)
AddPipeIOVariable(s, base, node) ==
    LET t == Shape[node.type]
        name == IF node.anonymous THEN <<>> ELSE IF IsBlock(node) THEN <<node.type>> ELSE <<node.name>>
    IN  IF Has("unwrap")
        THEN BlowUpIO(s, base, node.storage, name, IF IsArray(t) /\ IsBlock(node) THEN Elem(t) ELSE t)
        ELSE EnterPipe(s, base, node.storage, <<"pipe", node.storage, node.name>>, <<node.name>>, t)

(***************************************************************************)
(* The walk over a tree.                                                    *)
(***************************************************************************)
First == IF Has("intermediate") THEN Min(Active) ELSE 1
Final == IF Has("intermediate") THEN Max(Active) ELSE NumStages
Shared(t) == t.packing \in {"std140", "shared"}
SharedOption(t) == IF t.storage = "buffer" THEN Has("ssbo140") ELSE Has("ubo140")

VisitSymbol(s, base, node, mask) ==
    LET t == Shape[node.type]
        whole == IF IsBlock(node) THEN SharedOption(t) /\ (t.storage = "buffer" => Shared(t))
                                  ELSE t.storage = "uniform"
    IN  IF node.storage = "uniform"
        THEN IF whole THEN AddUniform(s, base, node, mask) ELSE base
        ELSE IF (s = First /\ node.storage = "in") \/ (s = Final /\ node.storage = "out")
        THEN AddPipeIOVariable(s, base, node) ELSE base
VisitUse(s, base, node) ==
    IF node.storage = "uniform" /\ node.derefs # <<>> THEN AddDereferencedUniform(s, base, node)
    ELSE VisitSymbol(s, base, node, TRUE)
\* The linker objects are visited for the options that list what is not used.
VisitObject(s, base, node) ==
    LET t == Shape[node.type]
        visit == IF node.storage = "uniform" THEN IsBlock(node) /\ SharedOption(t) /\ Shared(t)
                 ELSE Has("allIO") /\ node.storage \in {"in", "out"}
    IN  IF visit THEN VisitSymbol(s, base, node, FALSE) ELSE base

\* buildUniformStageMask: of all variables that are known by now.
StageMaskOfUniforms(s, base) ==
    LET mark(list) == [i \in DOMAIN list |-> [list[i] EXCEPT !.stages = @ \union {s}]]
    IN  IF Has("all") THEN base ELSE [base EXCEPT !["uniform"] = mark(@)]
StageMask(s, base) ==
    LET mark(list) == [i \in DOMAIN list |-> [list[i] EXCEPT !.stages = @ \union {s}]]
    IN  IF Has("all") THEN base
        ELSE [base EXCEPT !["uniform"] = mark(@), !["buffer variable"] = mark(@)]

Uses(t) == FlattenSeq([f \in DOMAIN t.bodies |-> t.bodies[f].uses])
Reflected(s) ==
    StageMask(s, FoldLeft(LAMBDA acc, node : VisitObject(s, acc, node),
                          FoldLeft(LAMBDA acc, node : VisitUse(s, acc, node), db, Uses(tree[s])),
                          tree[s].linker))

(***************************************************************************)
(* The steps of buildReflection.                                            *)
(***************************************************************************)
ReflInit == Init /\ db = EmptyDb /\ built = None

BeginReflection ==
    /\ at = "done" /\ program.reflect # None
    /\ at' = "reflecting" /\ stage' = 1
    /\ UNCHANGED <<program, merged, tree, callGraph, entryPoints, modes, errors, recursive, mapVars, db, built>>

ReflectStage ==
    /\ at = "reflecting"
    /\ IF tree[stage] # None /\ Refused(stage)
       THEN built' = FALSE /\ at' = "reflected" /\ UNCHANGED <<stage, db>>
       ELSE /\ db' = IF tree[stage] = None THEN db ELSE Reflected(stage)
            /\ IF stage < NumStages THEN stage' = stage + 1 /\ UNCHANGED <<at, built>>
               ELSE at' = "reflected" /\ built' = TRUE /\ UNCHANGED stage
    /\ UNCHANGED <<program, merged, tree, callGraph, entryPoints, modes, errors, recursive, mapVars>>

ReflNext == (Next /\ UNCHANGED <<db, built>>) \/ BeginReflection \/ ReflectStage
ReflSpec == ReflInit /\ [][ReflNext]_reflVars

(***************************************************************************)
(* What buildReflection promises.                                           *)
(***************************************************************************)
\* The variables of a type, by the dereferences that lead to them.
RECURSIVE Leaves(_)
Leaves(t) ==
    LET below(step, type) == {<<step>> \o leaf : leaf \in Leaves(type)}
    IN  IF IsReflectionGranularity(t) THEN {<<>>}
        ELSE IF IsArray(t) THEN UNION {below(<<"index", i>>, Elem(t)) : i \in ToSet(Indices(t))}
        ELSE UNION {below(<<"member", i>>, t.members[i].type) : i \in DOMAIN t.members}
Reaches(derefs, leaf) ==
    \A k \in DOMAIN derefs \intersect DOMAIN leaf : derefs[k] = leaf[k] \/ derefs[k][1] = "any"
\* In a buffer the first index in a member of the block is always written [0].
Written(t, leaf, k) ==
    IF t.storage = "buffer" /\ k > 1 /\ leaf[k - 1][1] = "member"
         /\ TypeAfter(t, SubSeq(leaf, 1, k - 2)).base = "block"
    THEN 0 ELSE leaf[k][2]
LeafName(node, leaf) ==
    LET t == Shape[node.type]
        left(k) == TypeAfter(t, SubSeq(leaf, 1, k - 1))
        part(k) == IF leaf[k][1] = "member" THEN <<left(k).members[leaf[k][2]].name>>
                   ELSE IF left(k).base = "block" THEN <<>> ELSE <<Subscript(Written(t, leaf, k))>>
        suffix == IF Has("basic") /\ IsArray(TypeAfter(t, leaf)) THEN <<Subscript(0)>> ELSE <<>>
    IN  BaseName(node) \o FlattenSeq([k \in DOMAIN leaf |-> part(k)]) \o suffix
LeafOffset(node, leaf) ==
    LET t == Shape[node.type]
        left(k) == TypeAfter(t, SubSeq(leaf, 1, k - 1))
        step(k) == IF leaf[k][1] = "member" THEN GetOffset(left(k), leaf[k][2])
                   ELSE ArrayStride(left(k), left(k)) * Written(t, leaf, k)
    IN  IF IsBlock(node) THEN FoldLeft(LAMBDA sum, k : sum + step(k), 0, [k \in DOMAIN leaf |-> k]) ELSE -1
SizeUsed(node, leaf) ==
    IF Len(node.derefs) = Len(leaf) + 1 /\ Last(node.derefs)[1] = "index"
    THEN Last(node.derefs)[2] + 1 ELSE OuterSize(TypeAfter(Shape[node.type], leaf))

UsedNodes(s) ==
    {n \in ToSet(Uses(tree[s])) : n.storage = "uniform" /\ (IsBlock(n) => n.derefs # <<>>)}
ListedObjects ==
    {n \in UNION {ToSet(tree[s].linker) : s \in Active} :
        n.storage = "uniform" /\ IsBlock(n) /\ Shared(Shape[n.type]) /\ SharedOption(Shape[n.type])}
Whole(n) == [n EXCEPT !.derefs = <<>>]
\* The uses with which a program without the options would list the same.
UsesToList ==
    LET used == UNION {UsedNodes(s) : s \in Active}
    IN  used \union {Whole(n) : n \in ListedObjects \union {n \in used : Has("all") /\ IsBlock(n)}}
LeavesReached(n) == {leaf \in Leaves(Shape[n.type]) : Reaches(n.derefs, leaf)}

\* An array of arrays of basic type counts for one member, whatever it is blown up to.
Countable(t) == \A leaf \in Leaves(t) : leaf = <<>> \/ Last(leaf)[1] = "member"

BuiltStrictly == at = "reflected" /\ built = TRUE /\ Has("strict")
VariablesOf(blocks) == IF blocks = "buffer block" THEN "buffer variable" ELSE "uniform"

\* The lists hold the variables the uses reach and no others, each once, under
\* the index that is kept for its name; offset and size do not depend on which
\* use came first; with "all" the stages are those whose code reaches it.  The
\* same of blocks, for which the number of members is that of the variables.
ReflectsUses ==
    BuiltStrictly =>
        LET entries == ToSet(db["uniform"]) \union ToSet(db["buffer variable"])
            blocks == ToSet(db["uniform block"]) \union ToSet(db["buffer block"])
            Described(e, n, leaf) ==
                /\ e.offset = LeafOffset(n, leaf)
                /\ IsBlock(n) => LET b == db[BlockList(Shape[n.type].storage)][e.block]
                                 IN  b.name = FirstBlock(<<n.type>>, Shape[n.type])
            Reaching(e, ns) == {n \in ns : \E leaf \in LeavesReached(n) : LeafName(n, leaf) = e.name}
            Sizes(e) == UNION {{SizeUsed(n, leaf) : leaf \in {l \in LeavesReached(n) : LeafName(n, l) = e.name}} :
                                n \in UsesToList}
            BlockNodes(b, ns) == {n \in ns : IsBlock(n) /\ n.type = Head(b.name)}
        IN  /\ {e.name : e \in entries} = UNION {{LeafName(n, leaf) : leaf \in LeavesReached(n)} : n \in UsesToList}
            /\ \A list \in Lists \ {"in", "out"} : \A i \in DOMAIN db[list] : db.index[db[list][i].name] = i
            /\ \A n \in UsesToList : \A leaf \in LeavesReached(n) :
                 \A e \in entries : e.name = LeafName(n, leaf) => Described(e, n, leaf)
            /\ \A e \in entries :
                 /\ e.size = Max(Sizes(e))
                 /\ LET stages == {s \in Active : Reaching(e, UsedNodes(s)) # {}}
                    IN  IF Has("all") THEN e.stages = stages ELSE stages \subseteq e.stages
            /\ {Head(b.name) : b \in blocks} = {n.type : n \in {n \in UsesToList : IsBlock(n)}}
            /\ \A b \in blocks : b.stages = {s \in Active : BlockNodes(b, UsedNodes(s)) # {}}
            /\ Has("all") => \A list \in {"uniform block", "buffer block"} : \A i \in DOMAIN db[list] :
                 LET members == {e \in ToSet(db[VariablesOf(list)]) : e.block = i}
                 IN  members # {} /\ Countable(db[list][i].type) => db[list][i].members = Cardinality(members)

\* GetBlockSize measures the last member in the matrix layout of the block, also
\* where it has one of its own, and then may give less than the member takes.
LastMeasuredAsPlaced(t) == RowMajor(Last(t.members).type, ParentsRowMajor(t)) = ParentsRowMajor(t)

\* The variables of a block do not overlap, and all of them are inside it, unless
\* its last member was measured in another layout than it is placed in.
MembersApart ==
    BuiltStrictly =>
        \A list \in {"uniform block", "buffer block"} : \A i \in DOMAIN db[list] :
            LET b == db[list][i]
                members == {e \in ToSet(db[VariablesOf(list)]) :
                              e.block = i /\ VariableList(b.type.storage) = VariablesOf(list)}
                End(e) == e.offset + e.stride * (e.size - 1)
                            + InParent([e.type EXCEPT !.dims = <<>>], b.type).size
            IN  \A e \in members : /\ LastMeasuredAsPlaced(b.type) => End(e) <= b.size
                                   /\ \A f \in members : e = f \/ End(e) <= f.offset \/ End(f) <= e.offset
=============================================================================
