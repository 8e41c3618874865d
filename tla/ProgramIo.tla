----------------------------- MODULE ProgramIo ------------------------------
(***************************************************************************)
(* TProgram::link and then TProgram::mapIO on the trees it left, with the   *)
(* mapper that takes each stage by itself (TIoMapper) or the one that lines *)
(* the stages up (TGlslIoMapper).  A mapper gathers what each stage reads,  *)
(* writes and binds, reserves what is explicit, lets the resolver decide    *)
(* the rest, and writes the result into every node of the trees.            *)
(***************************************************************************)
EXTENDS Link, IoResolver

CONSTANT Names      \* the names of variables, in the order of a std::map

VARIABLES maps,     \* what the mapper gathered: [in, out, uniform] for a stage or None
          resolver,
          hadError  \* the mapper's flag; what mapIO returns, negated, at "done"

mapVars == <<maps, resolver, hadError>>
vars == <<linkVars, mapVars>>

Kinds == {"in", "out", "uniform"}
opt == program.options
UsesGlslMapper == opt.mapper = "glsl"

(***************************************************************************)
(* Gathering: all code first, then the code that is reached.                *)
(***************************************************************************)
LiveBodies(s) ==
    Reached(tree[s], VisitedCalls(ToSet(callGraph[s]), EntryName(s)), EntryName(s))
LiveNodes(s) ==
    FlattenSeq(SetToSeq({tree[s].bodies[f].uses : f \in LiveBodies(s)}))

\* An entry stands for the node met first, or for the last whose id differs
\* from what was there.
Visit(map, node, s, live) ==
    IF node.name \in DOMAIN map /\ map[node.name].symbol.id = node.id
    THEN [map EXCEPT ![node.name].live = @ \/ live]
    ELSE (node.name :> NewEntry(node, s, live)) @@ map
Gather(s, kind) ==
    LET ofKind(node) == node.storage = kind
        all == FoldLeft(LAMBDA map, node : Visit(map, node, s, FALSE), <<>>,
                        SelectSeq(Nodes(tree[s]), ofKind))
    IN  FoldLeft(LAMBDA map, node : Visit(map, node, s, TRUE), all, SelectSeq(LiveNodes(s), ofKind))
GatherStage(s) == [kind \in Kinds |-> Gather(s, kind)]

InNameOrder(map) ==
    LET present == SelectSeq(Names, LAMBDA name : name \in DOMAIN map)
    IN  [i \in DOMAIN present |-> map[present[i]]]
EntrySet(map) == {map[name] : name \in DOMAIN map}
InPriority(map) == Sorted(EntrySet(map), OrderByPriority, TRUE)

(***************************************************************************)
(* Resolving a sequence of entries, each with what the one before left.     *)
(***************************************************************************)
Resolve(Step(_, _), r, entries) ==
    FoldLeft(LAMBDA acc, ent :
                LET res == Step(opt, [r |-> acc.r, ent |-> ClearNewAssignments(ent)])
                IN  [r |-> res.r, entries |-> Append(acc.entries, res.ent)],
             [r |-> r, entries |-> <<>>], entries)
ByName(entries) ==
    [name \in {ent.symbol.name : ent \in ToSet(entries)} |->
       CHOOSE ent \in ToSet(entries) : ent.symbol.name = name]

(***************************************************************************)
(* TVarSetTraverser: every node whose name and id an entry has.             *)
(***************************************************************************)
Set(old, new) == IF new = None THEN old ELSE new
WithLayout(map, node) ==
    IF node.storage \notin Kinds \/ node.name \notin DOMAIN map[node.storage] THEN node
    ELSE LET ent == map[node.storage][node.name]
         IN  IF ent.symbol.id # node.id THEN node
             ELSE [node EXCEPT !.binding = Set(@, ent.newBinding), !.set = Set(@, ent.newSet),
                               !.location = Set(@, ent.newLocation)]
SetLayouts(map, t) == Traverse(t, LAMBDA node : WithLayout(map, node))

(***************************************************************************)
(* TIoMapper::addStage.                                                     *)
(***************************************************************************)
MapStage(s) ==
    \E map \in {GatherStage(s)} :
      LET uniform(o, res) == CountUniformLocation(o, StageResolveBinding(o, ResolveSet(o, res)))
          ins == Resolve(CountInOutLocation, NewResolver, InPriority(map["in"]))
          outs == Resolve(CountInOutLocation, ins.r, InPriority(map["out"]))
          uniforms == Resolve(uniform, outs.r, InPriority(map["uniform"]))
          resolved == [in |-> ByName(ins.entries), out |-> ByName(outs.entries),
                       uniform |-> ByName(uniforms.entries)]
      IN  /\ maps' = [maps EXCEPT ![s] = resolved]
          /\ tree' = [tree EXCEPT ![s] = SetLayouts(resolved, @)]
          /\ UNCHANGED resolver

(***************************************************************************)
(* TGlslIoMapper::addStage: gather, and reserve what is explicit.           *)
(***************************************************************************)
CollectStage(s) ==
    \E map \in {GatherStage(s)} :
      LET Collect(r, ent) == ReserveResourceSlot(opt, ReserveStorageSlot(r, ent.symbol), ent.symbol)
          entries == InNameOrder(map["in"]) \o InNameOrder(map["out"]) \o InNameOrder(map["uniform"])
      IN  /\ maps' = [maps EXCEPT ![s] = map]
          /\ resolver' = FoldLeft(Collect, EnterStage(resolver, s), entries)
          /\ UNCHANGED tree

SomethingToDo == opt.setBinding # None \/ opt.autoBind \/ opt.autoLoc \/ opt.baseBinding # 0
Refused(s) == entryPoints[s] # 1 \/ recursive[s]

MapInit ==
    /\ maps = [s \in Stages |-> None]
    /\ resolver = NewResolver
    /\ hadError = FALSE

\* mapIO needs link() to have been called, not to have succeeded.
BeginMapIO ==
    /\ at = "linked"
    /\ at' = "adding"
    /\ UNCHANGED <<program, stage, merged, tree, callGraph, entryPoints, modes, errors, recursive, mapVars>>

AfterStage ==
    IF stage < NumStages THEN stage' = stage + 1 /\ UNCHANGED at
    ELSE /\ stage' = 1
         /\ at' = IF UsesGlslMapper THEN "in and out" ELSE "done"

\* With a resolver of its own the glsl mapper always has something to do.
AddStage ==
    /\ at = "adding"
    /\ IF tree[stage] = None \/ (~UsesGlslMapper /\ ~SomethingToDo)
       THEN AfterStage /\ UNCHANGED <<mapVars, tree>>
       ELSE IF Refused(stage)
       THEN at' = "done" /\ hadError' = TRUE /\ UNCHANGED <<stage, tree, maps, resolver>>
       ELSE /\ IF UsesGlslMapper THEN CollectStage(stage) ELSE MapStage(stage)
            /\ AfterStage
            /\ UNCHANGED hadError
    /\ UNCHANGED <<program, merged, callGraph, entryPoints, modes, errors, recursive>>

(***************************************************************************)
(* TGlslIoMapper::doMap.                                                    *)
(***************************************************************************)
Mapped == {s \in Stages : maps[s] # None}
StageBefore(s) == IF \E m \in Mapped : m < s THEN Max({m \in Mapped : m < s}) ELSE None
NextMapped(s) == IF \E m \in Mapped : m > s THEN Min({m \in Mapped : m > s}) ELSE None

\* What TSymbolValidater finds wrong with the uniforms' locations,
Located == {ent \in UNION {EntrySet(maps[s]["uniform"]) : s \in Mapped} : ent.symbol.location # None}
Taken(ent) == SlotRange(ent.symbol.location, UniformLocationSize[ent.symbol.type])
UniformsClash ==
    \E a, b \in Located :
        IF a.symbol.name = b.symbol.name THEN Taken(a) # Taken(b)
        ELSE Taken(a) \intersect Taken(b) # {}
\* and with the types of an input or an output; the partner of an input is an
\* output of its name, or of its location.
Partner(ent) ==
    LET outs == maps[StageBefore(ent.stage)]["out"]
        there == SelectSeq(InNameOrder(outs), LAMBDA out : out.symbol.location = ent.symbol.location)
    IN  IF ent.symbol.name \in DOMAIN outs THEN {outs[ent.symbol.name]}
        ELSE IF ent.symbol.location = None \/ there = <<>> THEN {} ELSE {Head(there)}
InputInvalid(ent) ==
    /\ StageBefore(ent.stage) # None /\ ~ent.symbol.builtIn
    /\ \E out \in Partner(ent) : out.symbol.type # ent.symbol.type
OutputInvalid(ent) ==
    /\ NextMapped(ent.stage) # None /\ ~ent.symbol.builtIn
    /\ LET ins == maps[NextMapped(ent.stage)]["in"]
       IN  ent.symbol.name \in DOMAIN ins /\ ins[ent.symbol.name].symbol.type # ent.symbol.type
UniformInvalid(ent) ==
    \E s \in Mapped : /\ ent.symbol.name \in DOMAIN maps[s]["uniform"]
                      /\ maps[s]["uniform"][ent.symbol.name].symbol.type # ent.symbol.type

\* The inputs and the outputs of one stage after another.
ResolveInOuts ==
    /\ at = "in and out"
    /\ LET r == IF stage = 1 THEN EnterStage(resolver, None) ELSE resolver
       IN  IF stage \notin Mapped THEN resolver' = r /\ UNCHANGED <<maps, hadError>>
           ELSE LET ins == Resolve(ResolveInOutLocation, r, InPriority(maps[stage]["in"]))
                    outs == Resolve(ResolveInOutLocation, ins.r, InPriority(maps[stage]["out"]))
                IN  /\ resolver' = outs.r
                    /\ maps' = [maps EXCEPT ![stage]["in"] = ByName(ins.entries),
                                            ![stage]["out"] = ByName(outs.entries)]
                    /\ hadError' = \/ hadError \/ UniformsClash
                                   \/ \E ent \in EntrySet(maps[stage]["in"]) : InputInvalid(ent)
                                   \/ \E ent \in EntrySet(maps[stage]["out"]) : OutputInvalid(ent)
    /\ IF stage < NumStages THEN stage' = stage + 1 /\ UNCHANGED at
                            ELSE stage' = 1 /\ at' = "uniforms"
    /\ UNCHANGED <<program, merged, tree, callGraph, entryPoints, modes, errors, recursive>>

\* A binding that is explicit in one stage is noted in the maps of the others.
Propagate(m, ent) ==
    IF ent.newBinding = None \/ ent.symbol.binding = None THEN m
    ELSE [s \in Stages |->
            IF s # ent.stage /\ s \in Mapped /\ ent.symbol.name \in DOMAIN m[s]["uniform"]
            THEN [m[s] EXCEPT !["uniform"][ent.symbol.name].newBinding = ent.newBinding]
            ELSE m[s]]
\* The result is copied into the maps; a binding that is there already stays.
CopyBack(m, ent) ==
    LET name == ent.symbol.name
        Copied(map) == LET old == map["uniform"][name].newBinding
                       IN  [map EXCEPT !["uniform"][name] =
                              [ent EXCEPT !.newBinding = IF old \in {None, 0} THEN @ ELSE old]]
    IN  [s \in Stages |->
           IF /\ s \in Mapped /\ name \in DOMAIN m[s]["uniform"]
              /\ SameId(m[s]["uniform"][name], ent)
           THEN Copied(m[s]) ELSE m[s]]

\* The uniforms of all stages together.
ResolveUniforms ==
    /\ at = "uniforms"
    /\ \E earlierFirst, earlierCopiedFirst \in BOOLEAN :
         LET entries == UNION {EntrySet(maps[s]["uniform"]) : s \in Mapped}
             uniform(o, res) == ResolveUniformLocation(o, ResolveBinding(o, ResolveSet(o, res)))
         IN  \E resolved \in {Resolve(uniform, EnterStage(resolver, None),
                                     Sorted(entries, OrderByPriorityAndLive, earlierFirst))} :
               /\ resolver' = resolved.r
               /\ maps' = FoldLeft(CopyBack, FoldLeft(Propagate, maps, resolved.entries),
                                   Sorted(ToSet(resolved.entries), OrderByPriority, earlierCopiedFirst))
               /\ hadError' = (hadError \/ \E ent \in entries : UniformInvalid(ent))
    /\ at' = "write"
    /\ UNCHANGED <<program, stage, merged, tree, callGraph, entryPoints, modes, errors, recursive>>

\* Written even if an error was found on the way.
WriteLayouts ==
    /\ at = "write"
    /\ at' = "done"
    /\ tree' = [s \in Stages |-> IF s \in Mapped THEN SetLayouts(maps[s], tree[s]) ELSE tree[s]]
    /\ UNCHANGED <<program, stage, merged, callGraph, entryPoints, modes, errors, recursive, mapVars>>

Init == LinkInit /\ MapInit
LinkStep == LinkNext /\ UNCHANGED mapVars
Next == LinkStep \/ BeginMapIO \/ AddStage \/ ResolveInOuts \/ ResolveUniforms \/ WriteLayouts
Spec == Init /\ [][Next]_vars

(***************************************************************************)
(* What link and mapIO promise.                                             *)
(***************************************************************************)
Checked(s) == /\ program.units[s] # <<>> /\ at # "new"
              /\ at = "stages" => s < stage

\* The tree merged from units that were parsed apart has one id for what is
\* one variable, and different ids for what is not.
IdsTell ==
    \A s \in Stages : tree[s] # None /\ errors[s] = {} =>
        \A m, n \in ToSet(Nodes(tree[s])) : (m.id = n.id) <=> (m.obj = n.obj)

\* The search among the calls finds recursion exactly when some functions all
\* call one another; a missing body is an error exactly when the entry point
\* needs it; the bodies dropped are those the entry point does not need; and two
\* units that say different things of their stage are told, while without an
\* error the stage has what any of them says.
StageJudged ==
    \A s \in Stages : Checked(s) /\ tree[s] # None =>
        LET units == ToSet(program.units[s])
            calls == UNION {ToSet(u.calls) : u \in units}
            withBody == UNION {{u.bodies[f].name : f \in DOMAIN u.bodies} : u \in units}
            functions == withBody \union {c.callee : c \in calls}
            Calls(f, g) == [caller |-> f, callee |-> g] \in calls
            Closed(fs) == "main" \in fs /\ \A f \in fs, g \in functions : Calls(f, g) => g \in fs
            needed == {f \in functions : \A fs \in SUBSET functions : Closed(fs) => f \in fs}
            kept == [f \in DOMAIN tree[s].bodies |-> tree[s].bodies[f].name]
        IN  /\ recursive[s] <=> \E fs \in SUBSET functions \ {{}} :
                                   \A f \in fs : \E g \in fs : Calls(f, g)
            /\ entryPoints[s] = 1 /\ errors[s] \intersect {"two bodies"} = {} =>
                 /\ "no body" \in errors[s] <=> ~ needed \subseteq withBody
                 /\ ToSet(kept) = IF program.keepUncalled THEN withBody
                                                          ELSE needed \intersect withBody
                 /\ IsInjective(kept)
            /\ \A mode \in DOMAIN NoModes :
                 LET said == {u.modes[mode] : u \in units} \ {None}
                 IN  IF mode \in errors[s] THEN mode = "vertices" => Cardinality(said) > 1
                     ELSE said = {modes[s][mode]} \ {None}

\* After both calls succeeded with the mapper that lines the stages up, the
\* nodes of a variable have one layout, whichever stage they are in: the
\* nodes of a stage, an output and the input of the next stage, and a uniform
\* in all stages.
Interface(s, storage) == {n \in ToSet(Nodes(tree[s])) : n.storage = storage /\ ~n.builtIn}
Succeeded == at = "done" /\ ~Failed /\ ~hadError
StagesAgree ==
    Succeeded /\ UsesGlslMapper =>
        LET SameLocation(as, bs) ==
                \A a \in as, b \in bs : opt.autoLoc /\ a.name = b.name => a.location = b.location
            SameBinding(as, bs) ==
                \A a \in as, b \in bs : a.name = b.name => a.binding = b.binding /\ a.set = b.set
        IN  \A s \in Active :
              /\ \A kind \in Kinds : SameLocation(Interface(s, kind), Interface(s, kind))
              /\ \A t \in Active : /\ SameLocation(Interface(s, "uniform"), Interface(t, "uniform"))
                                   /\ SameBinding(Interface(s, "uniform"), Interface(t, "uniform"))
              /\ s # Max(Active) =>
                    SameLocation(Interface(s, "out"), Interface(StageAfter(s), "in"))

\* A location or a binding that no declaration asked for and the mapper chose
\* is used by nothing else: in the space between two stages, among the
\* uniforms, and in the set, or the kind of resource, of a binding.
Explicit(name, Field(_)) ==
    \E s \in Stages : \E u \in ToSet(program.units[s]) :
        \E n \in ToSet(Nodes(u)) : n.name = name /\ Field(n) # None
Apart(nodes, Field(_), Size(_)) ==
    \A a, b \in nodes :
        /\ a.name # b.name /\ Field(a) # None /\ Field(b) # None /\ ~Explicit(a.name, Field)
        => SlotRange(Field(a), Size(a)) \intersect SlotRange(Field(b), Size(b)) = {}
ChosenApart ==
    Succeeded =>
        LET Location(n) == n.location
            Binding(n) == n.binding
            Sharing == IF UsesGlslMapper THEN {Active} ELSE {{s} : s \in Active}
            Uniforms(ss) == UNION {Interface(s, "uniform") : s \in ss}
            Space(n) == IF UsesGlslMapper /\ opt.openGl THEN ResourceType(n.type) ELSE n.set
            Between(s) == Interface(s, "out")
                            \union (IF s = Max(Active) THEN {} ELSE Interface(StageAfter(s), "in"))
        IN  /\ UsesGlslMapper =>
                 \A nodes \in {Between(s) : s \in Active} \union {Interface(Min(Active), "in")} :
                     Apart(nodes, Location, LAMBDA n : LocationSize[n.type])
            /\ \A ss \in Sharing :
                 /\ Apart(Uniforms(ss), Location, LAMBDA n : UniformLocationSize[n.type])
                 /\ \A n \in Uniforms(ss) :
                      Apart({m \in Uniforms(ss) : Space(m) = Space(n)}, Binding,
                            LAMBDA m : NumBindings(opt, m.type))
=============================================================================
