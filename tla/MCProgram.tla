----------------------------- MODULE MCProgram ------------------------------
(***************************************************************************)
(* Programs for the linker and the mappers, in families: units to merge,    *)
(* calls, modes, interfaces between three stages, uniforms of two stages,   *)
(* and uses to reflect.  All of them are programs the parser accepts.       *)
(* Beside them, what is precise is propagated in bodies of single units.    *)
(***************************************************************************)
EXTENDS Reflection, MCNoContraction

CONSTANTS Absent,   \* a name that is not declared
          FirstId   \* for every stage, the number its first variable gets

Id(level, number) == [level |-> level, number |-> number]
Node(name, id, storage, type, location, binding, set, obj) ==
    [name |-> name, id |-> id, builtIn |-> FALSE, storage |-> storage, type |-> type,
     location |-> location, binding |-> binding, set |-> set, obj |-> obj,
     derefs |-> <<>>, anonymous |-> FALSE]
Plain(name, id, storage, obj) == Node(name, id, storage, "vec", None, None, None, obj)
Unit(bodies, linker, calls) ==
    [bodies |-> bodies, linker |-> linker, calls |-> calls, modes |-> NoModes, es |-> FALSE,
     entryPoints |-> Cardinality({f \in DOMAIN bodies : bodies[f].name = "main"})]
Options(mapper, autoLoc, autoBind, openGl) ==
    [mapper |-> mapper, autoLoc |-> autoLoc, autoBind |-> autoBind, openGl |-> openGl,
     setBinding |-> None, baseBinding |-> 0]
NoOptions == Options("default", FALSE, FALSE, FALSE)
Shifted(options) == [options EXCEPT !.setBinding = 1, !.baseBinding = 1]
Program(units, keepUncalled, options) ==
    [units |-> [s \in Stages |-> IF s \in DOMAIN units THEN units[s] ELSE <<>>],
     keepUncalled |-> keepUncalled, options |-> options, reflect |-> None,
     shapes |-> <<>>]

(***************************************************************************)
(* Units to merge: each declares some of the globals a and b, in either     *)
(* order, has a local that may be named like one of them, and may use the   *)
(* built-in p.  Numbers are given in the order of the declarations.         *)
(***************************************************************************)
Globals == {<<>>, <<"a">>, <<"b">>, <<"a", "b">>, <<"b", "a">>}
UnitShape == [globals : Globals, local : {"a", "x", "none"}, usesBuiltIn : BOOLEAN]
UnitOf(shape, f, u) ==
    LET linker == [i \in DOMAIN shape.globals |->
                     Plain(shape.globals[i], Id(3, 1 + i), "global", <<shape.globals[i]>>)]
        locals == IF shape.local = "none" THEN <<>>
                  ELSE <<Plain(shape.local, Id(5, 2 + Len(linker)), "local", <<u, shape.local>>)>>
        builtIns == IF shape.usesBuiltIn
                    THEN <<[Plain("p", Id(0, 1), "in", <<"p">>) EXCEPT !.builtIn = TRUE]>> ELSE <<>>
    IN  Unit(<<[name |-> f, uses |-> linker \o locals \o builtIns]>>, linker, <<>>)
InitMerge ==
    \/ \E x, y \in UnitShape :
          program = Program(<<<<UnitOf(x, "main", 1), UnitOf(y, "f", 2)>>>>, TRUE, NoOptions)
    \/ \E x, y, z \in {s \in UnitShape : s.local # "none" /\ Len(s.globals) > 0 /\ s.usesBuiltIn} :
          program = Program(<<<<UnitOf(x, "main", 1), UnitOf(y, "f", 2), UnitOf(z, "g", 3)>>>>, TRUE, NoOptions)

(***************************************************************************)
(* Calls among three functions, whose bodies are in two units.              *)
(***************************************************************************)
Body(f) == [name |-> f, uses |-> <<>>]
CallsFrom(fs) == SUBSET [caller : fs, callee : {"main", "f", "g"}]
UnitWith(fs, calls) == Unit(SetToSeq({Body(f) : f \in fs}), <<>>, SetToSeq(calls))
InitCalls ==
    \E first \in {{"main"}, {"main", "f"}, {"f"}}, second \in {{"g"}, {"f"}, {"main"}, {"f", "g"}} :
      \E calls \in CallsFrom(first), more \in CallsFrom(second), keep \in BOOLEAN :
        program = Program(<<<<UnitWith(first, calls), UnitWith(second, more)>>>>, keep,
                          Options("glsl", FALSE, FALSE, FALSE))

(***************************************************************************)
(* What up to three units say of their stage, and units of an ES profile.   *)
(***************************************************************************)
Modes == [DOMAIN NoModes -> {None, 1, 2}]
UnitSaying(f, said) == [Unit(<<Body(f)>>, <<>>, <<>>) EXCEPT !.modes = said]
EsUnit == [Unit(<<Body("main")>>, <<>>, <<>>) EXCEPT !.es = TRUE]
InitModes ==
    \/ \E x, y, z \in Modes :
          program = Program(<<<<UnitSaying("main", x), UnitSaying("f", y), UnitSaying("g", z)>>>>,
                            TRUE, NoOptions)
    \/ \E units \in {<<EsUnit>>, <<EsUnit, EsUnit>>, <<EsUnit, UnitSaying("f", NoModes)>>},
          next \in {<<>>, <<EsUnit>>} :
          program = Program(<<units, next>>, TRUE, NoOptions)

(***************************************************************************)
(* Interfaces and uniforms.  In every stage a name is not declared (Absent) *)
(* or declared with a location, with a binding, or with neither.            *)
(***************************************************************************)
\* The names, in the order of their declarations; layout[name] is what each has.
Declare(names, storage, layout, types, sets, first) ==
    LET present == SelectSeq(names, LAMBDA name : layout[name] # Absent)
        resource(name) == types[name] \in {"block", "sampler", "samplers"}
        node(name, i) == Node(name, Id(3, first + i - 1), storage, types[name],
                              IF resource(name) THEN None ELSE layout[name],
                              IF resource(name) THEN layout[name] ELSE None,
                              sets[name], <<storage, name>>)
    IN  [i \in DOMAIN present |-> node(present[i], i)]
Stage(used, linker) == <<Unit(<<[name |-> "main", uses |-> used]>>, linker, <<>>)>>
Overlap(a, b) ==
    SlotRange(a.location, LocationSize[a.type]) \intersect SlotRange(b.location, LocationSize[b.type]) # {}
\* The parser refuses two locations that overlap.
Legal(p) ==
    \A s \in Stages : \A u \in ToSet(p.units[s]) : \A a, b \in ToSet(u.linker) :
        a.name # b.name /\ a.storage = b.storage /\ None \notin {a.location, b.location} => ~Overlap(a, b)

Layouts == [{"a", "b"} -> {Absent, None, 0, 1}]
NoSets == [name \in {"a", "b"} |-> None]
AB == <<"a", "b">>
BA == <<"b", "a">>

\* A producer and a consumer; and with a stage in between, whose outputs the
\* last stage reads.
TwoStages(types, autoLoc, order, out, in) ==
    LET outs == Declare(order, "out", out, types, NoSets, FirstId[1])
        ins == Declare(AB, "in", in, types, NoSets, FirstId[2])
    IN  Program(<<Stage(outs, outs), Stage(ins, ins)>>, TRUE, Options("glsl", autoLoc, FALSE, FALSE))
ThreeStages(types, order, out, in, more) ==
    LET outs == Declare(AB, "out", out, types, NoSets, FirstId[1])
        ins == Declare(AB, "in", in, types, NoSets, FirstId[2])
        outs2 == Declare(order, "out", more, types, NoSets, FirstId[2] + 2)
        last == Declare(BA, "in", [name \in {"a", "b"} |-> IF more[name] = Absent THEN Absent ELSE None],
                        types, NoSets, FirstId[3])
    IN  Program(<<Stage(outs, outs), Stage(ins \o outs2, ins \o outs2), Stage(last, last)>>, TRUE,
                Options("glsl", TRUE, FALSE, FALSE))
Some(layout) == \E name \in DOMAIN layout : layout[name] # Absent
Varyings == {[a |-> "vec", b |-> "vec"], [a |-> "pair", b |-> "vec"]}
InitInOut(Types) ==
    \E types \in Types, order \in {AB, BA} :
      \/ \E autoLoc \in BOOLEAN, out, in \in {l \in Layouts : Some(l)} :
            program = TwoStages(types, autoLoc, order, out, in)
      \/ \E out, more \in {l \in Layouts : Some(l)} :
            program = ThreeStages(types, order, out,
                                  [name \in {"a", "b"} |-> IF name = "a" THEN None ELSE 0], more)

\* Two stages that share uniforms; live are those the first stage uses.
InitUniforms(Types, Sets, options) ==
    \E types \in Types, sets \in Sets, o \in options, live \in {{"a"}, {"a", "b"}}, first, second \in Layouts :
      LET vert == Declare(AB, "uniform", first, types, sets, FirstId[1])
          frag == Declare(BA, "uniform", second, types, sets, FirstId[2])
      IN  program = Program(<<Stage(SelectSeq(vert, LAMBDA n : n.name \in live), vert), Stage(frag, frag)>>, TRUE, o)
InitBindings ==
    InitUniforms({[a |-> "block", b |-> "block"], [a |-> "block", b |-> "samplers"],
                  [a |-> "sampler", b |-> "samplers"]},
                 {NoSets, [a |-> None, b |-> 1]},
                 {Options("glsl", TRUE, TRUE, FALSE), Options("glsl", TRUE, TRUE, TRUE),
                  Options("glsl", TRUE, FALSE, FALSE), Options("default", TRUE, TRUE, FALSE),
                  Shifted(Options("glsl", TRUE, TRUE, FALSE))})
InitLocations ==
    InitUniforms({[a |-> "vec", b |-> "vec"], [a |-> "pair", b |-> "vec"]}, {NoSets},
                 {Options("glsl", TRUE, TRUE, TRUE), Options("glsl", TRUE, FALSE, FALSE)})

(***************************************************************************)
(* Reflection.  The types are in groups; a program declares the types of a  *)
(* group in two stages and uses some of them in each.  A structure of a     *)
(* buffer is used by its members and not as a whole: the offsets of its     *)
(* members would then be told from the start of the structure.              *)
(***************************************************************************)
Basic(base, rows, cols, dims) ==
    [base |-> base, rows |-> rows, cols |-> cols, dims |-> dims, members |-> <<>>,
     packing |-> "std140", matrix |-> None, storage |-> "uniform"]
Float == Basic("float", 1, 0, <<>>)
Vec3 == Basic("float", 3, 0, <<>>)
Floats(dims) == Basic("float", 1, 0, dims)
Named(name, type) == [name |-> name, type |-> type, offset |-> None, align |-> None]
Struct(base, dims, members) == [Basic(base, 1, 0, dims) EXCEPT !.members = members]
\* A block hands down its packing and its storage, then offsets are fixed.
RECURSIVE HandDown(_, _, _)
HandDown(t, packing, storage) ==
    [t EXCEPT !.packing = packing, !.storage = storage,
              !.members = [i \in DOMAIN @ |-> [@[i] EXCEPT !.type = HandDown(@, packing, storage)]]]
BlockOf(packing, storage, dims, members) ==
    LET t == HandDown(Struct("block", dims, members), packing, storage)
    IN  IF Fixes(t) THEN [t EXCEPT !.members = FixBlockUniformOffsets(t).members] ELSE t

S(dims) == Struct("struct", dims, <<Named("f", Float), Named("v", Vec3)>>)
N == Struct("struct", <<>>, <<Named("a", Floats(<<2>>)), Named("s", S(<<2>>))>>)
\* A middle member with an offset or an alignment of its own, then a matrix and
\* a vector, in either order; the matrix has a layout of its own or the block's.
Placed(p) ==
    LET mat == Named("m", [Basic("float", 3, 2, <<>>) EXCEPT !.matrix = p.matrix])
        vec == Named("z", Vec3)
    IN  <<Named("d", Basic("double", 1, 0, <<>>)),
          [Named("p", Floats(<<2>>)) EXCEPT !.offset = p.offset, !.align = p.align]>>
        \o IF p.matrixLast THEN <<vec, mat>> ELSE <<mat, vec>>
PlacedBlock(p) == BlockOf(p.packing, "buffer", <<>>, Placed(p))
PlacedBlocks == 0 .. 107
PlacedAs(i) ==
    [packing |-> <<"std140", "std430", "scalar">>[(i % 3) + 1],
     offset  |-> <<None, 4, 8, 48>>[((i \div 3) % 4) + 1],
     align   |-> <<None, 8, 32>>[((i \div 12) % 3) + 1],
     matrix     |-> <<"row", "row", None>>[(i \div 36) + 1],
     matrixLast |-> i \div 36 > 0]
PlacedRefused(i) ==
    LET p == PlacedAs(i)
    IN  FixBlockUniformOffsets(HandDown(Struct("block", <<>>, Placed(p)), p.packing, "buffer")).refused
PlacedName(i) == "placed" \o ToString(i)

NamedShapes ==
    [vec |-> Vec3,
     w |-> Floats(<<3>>), aoa |-> Floats(<<2, 3>>), u |-> S(<<2>>),
     U |-> BlockOf("std140", "uniform", <<>>, <<Named("s", S(<<2>>)), Named("a", Floats(<<3>>)), Named("n", N)>>),
     B |-> BlockOf("std430", "buffer", <<>>, <<Named("s", S(<<2>>)), Named("n", N), Named("aa", Floats(<<2, 3>>)),
                                               Named("a", Floats(<<3>>))>>),
     D |-> BlockOf("shared", "uniform", <<2>>, <<Named("x", Float), Named("y", Vec3)>>),
     P |-> BlockOf("std140", "buffer", <<>>, <<Named("x", Vec3), Named("s", S(<<2>>))>>),
     io |-> N]
Shapes == NamedShapes @@ [name \in {PlacedName(i) : i \in PlacedBlocks} |->
              PlacedBlock(PlacedAs(CHOOSE i \in PlacedBlocks : PlacedName(i) = name))]

m(i) == <<"member", i>>
idx(i) == <<"index", i>>
any == <<"any", 0>>
UsesOfU == {<<m(1), idx(1), m(1)>>, <<m(1), any, m(2)>>, <<m(2), idx(1)>>, <<m(2), any>>,
            <<m(3), m(2), idx(0), m(1)>>, <<m(3)>>}
UsesOfB == {<<m(1), idx(1), m(1)>>, <<m(1), any, m(2)>>, <<m(1), idx(0)>>, <<m(2), m(2), idx(1), m(1)>>,
            <<m(3), idx(1), idx(1)>>, <<m(3), any, any>>, <<m(4), idx(0)>>, <<m(4), any>>}
Use(type, derefs) == [type |-> type, derefs |-> derefs]
Groups ==
    {[types |-> <<"U">>, uses |-> {Use("U", d) : d \in UsesOfU}],
     [types |-> <<"B">>, uses |-> {Use("B", d) : d \in UsesOfB}],
     [types |-> <<"w", "aoa", "u">>,
      uses |-> {Use("w", <<>>), Use("w", <<idx(1)>>), Use("aoa", <<idx(1), any>>), Use("aoa", <<>>),
                Use("u", <<any, m(2)>>), Use("u", <<idx(0)>>)}],
     [types |-> <<"D", "P">>,
      uses |-> {Use("D", <<idx(1), m(2)>>), Use("D", <<any, m(1)>>), Use("P", <<m(1)>>), Use("P", <<m(2), any, m(1)>>)}]}
UniformOf(type, number) ==
    [Node(type, Id(3, number), "uniform", type, None, None, None, <<type>>) EXCEPT !.anonymous = type = "P"]
ReflectOptions ==
    {{}, {"strict"}, {"strict", "all"}, {"strict", "separate", "ubo140"}, {"strict", "basic", "separate", "ssbo140"},
     {"strict", "all", "basic", "separate", "ubo140", "ssbo140", "intermediate"}}
StageUsing(types, uses, more, first) ==
    LET object(type) == UniformOf(type, first + CHOOSE i \in DOMAIN types : types[i] = type)
        linker == [i \in DOMAIN types |-> object(types[i])]
    IN  Stage([i \in DOMAIN uses |-> [object(uses[i].type) EXCEPT !.derefs = uses[i].derefs]] \o more, linker \o more)
Reflecting(first, last, types, reflect) ==
    [Program((1 :> first) @@ (NumStages :> last), TRUE, NoOptions)
        EXCEPT !.reflect = reflect, !.shapes = [name \in types |-> Shapes[name]]]
InitReflect ==
    \/ \E group \in Groups, reflect \in ReflectOptions : \E x, y, z \in group.uses :
          program = Reflecting(StageUsing(group.types, <<x, y>>, <<>>, FirstId[1]),
                               StageUsing(group.types, <<z>>, <<>>, FirstId[2]), ToSet(group.types), reflect)
    \/ \E i \in {i \in PlacedBlocks : ~PlacedRefused(i)}, reflect \in ReflectOptions \ {{}} :
        \E uses \in {<<>>, <<Use(PlacedName(i), <<m(3)>>)>>, <<Use(PlacedName(i), <<m(4)>>)>>} :
          program = Reflecting(StageUsing(<<PlacedName(i)>>, uses, <<>>, FirstId[1]), StageUsing(<<>>, <<>>, <<>>, 1),
                               {PlacedName(i)}, reflect)
    \/ \E f \in {"main", "f"} :     \* recursive, or without an entry point
          program = Reflecting(<<Unit(<<Body(f)>>, <<>>, <<[caller |-> f, callee |-> f]>>)>>, Stage(<<>>, <<>>),
                               {}, {"all"})
    \/ \E reflect \in {{}, {"unwrap"}, {"unwrap", "basic", "intermediate"}, {"allIO"}}, used \in BOOLEAN :
          LET in == <<Plain("i", Id(3, 1), "in", <<"i">>)>>
              out == <<[Plain("o", Id(3, 1), "out", <<"o">>) EXCEPT !.type = "io"]>>
          IN  program = Reflecting(Stage(IF used THEN in ELSE <<>>, in), Stage(out \o out, out), {"vec", "io"}, reflect)

\* The numbers go on from those of the built-ins, of which every stage has a
\* different set; by chance two stages may arrive at the same ones.
OwnIds == <<1, 11, 21>>
SameIds == <<1, 1, 1>>

NoStatements == statements = <<>> /\ declared = {} /\ Collect
NoProgram == program = Program(<<>>, TRUE, NoOptions) /\ ReflInit

InitProgram ==
    /\ \/ InitMerge \/ InitCalls \/ InitModes
       \/ InitInOut(Varyings) \/ InitBindings \/ InitLocations \/ InitReflect
    /\ Legal(program) /\ ReflInit

MCInit == (InitProgram /\ NoStatements) \/ (InitPrecise /\ NoProgram)
MCNext ==
    \/ statements = <<>> /\ ReflNext /\ UNCHANGED preciseVars
    \/ PropagateNext /\ UNCHANGED reflVars
MCSpec == MCInit /\ [][MCNext]_<<reflVars, preciseVars>>
=============================================================================
