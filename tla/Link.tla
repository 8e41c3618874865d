-------------------------------- MODULE Link --------------------------------
(***************************************************************************)
(* TProgram::link.  Every stage is given by compilation units that were     *)
(* parsed apart, each with ids of its own for its variables.  Their trees   *)
(* are merged into one per stage, in which an id tells a variable; calls    *)
(* are checked for recursion and for missing bodies, bodies nobody calls    *)
(* are dropped; then what the stages share is compared.                     *)
(***************************************************************************)
EXTENDS ShaderTrees

CONSTANT NumStages      \* the stages of the pipeline, in order, are 1 .. NumStages

ASSUME NumStagesAssumption == NumStages \in Nat \ {0}

Stages == 1 .. NumStages

VARIABLES program,      \* what does not change: [units, keepUncalled, options], the units
                        \*   of each stage and the options of link and mapIO
          at,           \* "new", "stages", "cross", "linked"; then as mapIO goes on
          stage,        \* the stage the loop over the stages has come to
          merged,       \* how many units of it are merged
          tree,         \* TProgram::intermediate[s]: None or the merged tree,
          callGraph,    \*   the calls, a sequence of [caller, callee],
          entryPoints,  \*   the number of entry points,
          modes,        \*   the qualifiers of the stage as a whole,
          errors,       \*   the kinds of errors counted in numErrors; errors[0]
                        \*   are those of the temporary list of uniforms,
          recursive     \*   whether the calls were found to be recursive

linkVars == <<program, at, stage, merged, tree, callGraph, entryPoints, modes, errors,
              recursive>>

Active == {s \in Stages : tree[s] # None}

(***************************************************************************)
(* Merging the tree of a unit into the tree of the stage.                   *)
(***************************************************************************)
\* TBuiltInIdTraverser and TUserIdTraverser: the number each shared name has.
SeedIdMap(t) ==
    LET builtIn(node) == node.builtIn
        user(node) == ~node.builtIn
        seeds == SelectSeq(Nodes(t), builtIn) \o SelectSeq(t.linker, user)
    IN  [name \in {seeds[i].name : i \in DOMAIN seeds} |->
           Last(SelectSeq(seeds, LAMBDA node : node.name = name)).id.number]
IdShift(t) == Max({n.id.number : n \in ToSet(Nodes(t))} \union {0})

RemapLocalsToo(idMap, shift, node) ==
    IF node.name \in DOMAIN idMap
    THEN [node EXCEPT !.id.number = idMap[node.name]]
    ELSE [node EXCEPT !.id.number = @ + shift]
RemapId(idMap, shift, node) ==
    IF (IsLinkable(node) \/ node.builtIn) /\ node.name \in DOMAIN idMap
    THEN [node EXCEPT !.id.number = idMap[node.name]]
    ELSE [node EXCEPT !.id.number = @ + shift]

(***************************************************************************)
(* mergeModes.  What a unit may say of the whole stage comes in two kinds:  *)
(* "vertices" is any of the invocations, the vertices, the input and output *)
(* primitives and the local size, "spacing" any of the number of primitives *)
(* of a mesh, the vertex spacing and order, the depth layout and the        *)
(* strides, of which a unit that says nothing contradicts one that said     *)
(* something before.                                                        *)
(***************************************************************************)
NoModes == [vertices |-> None, spacing |-> None]
MergeModes(old, unit) ==
    [mode \in DOMAIN old |-> IF old[mode] = None THEN unit[mode] ELSE old[mode]]
SilentOn(unit, mode) == mode = "vertices" /\ unit[mode] = None
ModeErrors(old, unit) ==
    {mode \in DOMAIN old : old[mode] \notin {None, unit[mode]} /\ ~SilentOn(unit, mode)}

TwoBodies(t, unit) ==
    \E f \in DOMAIN t.bodies, g \in DOMAIN unit.bodies : t.bodies[f].name = unit.bodies[g].name

\* The layout one declaration lacks is taken from the other.
AdoptLayout(symbol, unitSymbol) ==
    [symbol EXCEPT !.binding = IF @ = None THEN unitSymbol.binding ELSE @,
                   !.location = IF @ = None THEN unitSymbol.location ELSE @]

\* mergeErrorCheck; a pair of an output and an input may differ in storage.
Contradict(symbol, unitSymbol) ==
    \/ symbol.type # unitSymbol.type
    \/ symbol.storage # unitSymbol.storage
          /\ {symbol.storage, unitSymbol.storage} # {"in", "out"}
    \/ None \notin {symbol.location, unitSymbol.location} /\ symbol.location # unitSymbol.location
    \/ None \notin {symbol.binding, unitSymbol.binding} /\ symbol.binding # unitSymbol.binding

\* Objects of the unit are matched with those that were there before; what is
\* new is appended.
MergeLinkerObjects(objects, unitObjects) ==
    LET Same(node) == {i \in DOMAIN objects : objects[i].name = node.name}
        Merge(list, node) ==
            IF Same(node) = {} THEN Append(list, node)
            ELSE [i \in DOMAIN list |-> IF i \in Same(node) THEN AdoptLayout(list[i], node) ELSE list[i]]
    IN  FoldLeft(Merge, objects, unitObjects)
ObjectsContradict(objects, unitObjects) ==
    \E i \in DOMAIN objects, j \in DOMAIN unitObjects :
        objects[i].name = unitObjects[j].name
          /\ Contradict(AdoptLayout(objects[i], unitObjects[j]), unitObjects[j])

\* The bodies go in front of the linker objects, with the ids changed.
MergeTrees(t, unit) ==
    IF t = None THEN [bodies |-> unit.bodies, linker |-> unit.linker]
    ELSE LET idMap == SeedIdMap(t)
             shift == IdShift(t) + 1
             moved == Traverse(unit, LAMBDA node : RemapId(idMap, shift, node))
         IN  [bodies |-> t.bodies \o moved.bodies,
              linker |-> MergeLinkerObjects(t.linker, moved.linker)]

(***************************************************************************)
(* checkCallGraphCycles: a depth-first search whose nodes are the calls.    *)
(***************************************************************************)
SearchStart == [stack |-> <<>>, visited |-> {}, backEdge |-> FALSE]
\* The path is what is on the stack; a call follows another when its caller is
\* the other's callee.
SearchStep(calls, search) ==
    LET Open == {i \in DOMAIN calls : i \notin search.visited}
        Top == Last(search.stack)
        Follows == {i \in Open : calls[i].caller = calls[Top].callee}
        New == Follows \ ToSet(search.stack)
        Seen == {i \in Follows \intersect ToSet(search.stack) : \A j \in New : i < j}
    IN  IF search.stack = <<>>
        THEN IF Open = {} THEN search ELSE [search EXCEPT !.stack = <<Min(Open)>>]
        ELSE [stack    |-> IF New = {} THEN Front(search.stack) ELSE Append(search.stack, Min(New)),
              visited  |-> IF New = {} THEN search.visited \union {Top} ELSE search.visited,
              backEdge |-> search.backEdge \/ Seen # {}]
\* Every call is put on the stack once and taken off once.
CallGraphCycles(calls) ==
    FoldLeft(LAMBDA search, i : SearchStep(calls, search),
             SearchStart, [i \in 1 .. 2 * Len(calls) |-> i]).backEdge

(***************************************************************************)
(* checkCallGraphBodies: what is called from the entry point, directly or   *)
(* not, and where its bodies are.                                           *)
(***************************************************************************)
VisitedBackwards(calls, visited) ==
    visited \union {c \in calls : \E v \in visited : v.caller = c.callee}
VisitedOnce(calls, visited) ==
    visited \union {c \in calls : \E v \in visited : v.callee = c.caller}
VisitedCalls(calls, entry) ==
    FoldLeft(LAMBDA visited, i : VisitedOnce(calls, visited),
             {c \in calls : c.caller = entry}, [i \in 1 .. Cardinality(calls) |-> i])
BodiesOf(t, name) == {f \in DOMAIN t.bodies : t.bodies[f].name = name}
MissingBody(t, visited) == \E c \in visited : BodiesOf(t, c.callee) = {}
Reached(t, visited, entry) ==
    BodiesOf(t, entry)
      \union {Max(BodiesOf(t, c.callee)) : c \in {c \in visited : BodiesOf(t, c.callee) # {}}}
Prune(t, visited, entry) ==
    LET kept == SetToSortSeq(Reached(t, visited, entry), <)
    IN  [t EXCEPT !.bodies = [f \in DOMAIN kept |-> t.bodies[kept[f]]]]

(***************************************************************************)
(* The steps of link().                                                     *)
(***************************************************************************)
ErrorsIf(kind, happened) == IF happened THEN {kind} ELSE {}
Failed == \E s \in DOMAIN errors : errors[s] # {}
MixedProfiles(units) == \E u \in ToSet(units) : u.es /\ Len(units) > 1
EntryName(s) == IF entryPoints[s] > 0 THEN "main" ELSE ""

\* For any program.
LinkInit ==
    /\ at = "new" /\ stage = 1 /\ merged = 0
    /\ tree = [s \in Stages |-> None]
    /\ callGraph = [s \in Stages |-> <<>>]
    /\ entryPoints = [s \in Stages |-> 0]
    /\ modes = [s \in Stages |-> NoModes]
    /\ errors = [s \in 0 .. NumStages |-> {}]
    /\ recursive = [s \in Stages |-> FALSE]

BeginLink ==
    /\ at = "new"
    /\ at' = "stages"
    /\ UNCHANGED <<program, stage, merged, tree, callGraph, entryPoints, modes, errors, recursive>>

NextStage ==
    /\ merged' = 0
    /\ IF stage < NumStages THEN stage' = stage + 1 /\ UNCHANGED at
                            ELSE stage' = 1 /\ at' = "cross"

\* linkStage for a stage nothing was added for.
EmptyStage ==
    /\ at = "stages" /\ program.units[stage] = <<>>
    /\ NextStage
    /\ UNCHANGED <<program, tree, callGraph, entryPoints, modes, errors, recursive>>

\* linkStage for units of an ES profile: a unit of another profile, or a second
\* one, and the stage is left out.
RefuseProfiles ==
    /\ at = "stages" /\ merged = 0 /\ MixedProfiles(program.units[stage])
    /\ errors' = [errors EXCEPT ![stage] = {"profiles"}]
    /\ NextStage
    /\ UNCHANGED <<program, tree, callGraph, entryPoints, modes, recursive>>

\* TIntermediate::merge: the calls, the modes, the trees.  A stage with a single unit
\* takes its tree as it is, which is what merging into nothing comes to.
MergeUnit ==
    /\ at = "stages" /\ merged < Len(program.units[stage])
    /\ ~MixedProfiles(program.units[stage])
    /\ LET unit == program.units[stage][merged + 1]
           old == tree[stage]
       IN  /\ errors' = [errors EXCEPT ![stage] = @
                  \union ErrorsIf("entry points", entryPoints[stage] > 0 /\ unit.entryPoints > 0)
                  \union ModeErrors(modes[stage], unit.modes)
                  \union ErrorsIf("two bodies", old # None /\ TwoBodies(old, unit))
                  \union ErrorsIf("mismatch", old # None /\ ObjectsContradict(old.linker, unit.linker))]
           /\ entryPoints' = [entryPoints EXCEPT ![stage] = @ + unit.entryPoints]
           /\ modes' = [modes EXCEPT ![stage] = MergeModes(@, unit.modes)]
           /\ callGraph' = [callGraph EXCEPT ![stage] = @ \o unit.calls]
           /\ tree' = [tree EXCEPT ![stage] = MergeTrees(old, unit)]
    /\ merged' = merged + 1
    /\ UNCHANGED <<program, at, stage, recursive>>

\* finalCheck of the merged stage; the loop goes on whatever it finds.
FinalCheck ==
    /\ at = "stages" /\ merged > 0 /\ merged = Len(program.units[stage])
    /\ \E visited \in {VisitedCalls(ToSet(callGraph[stage]), EntryName(stage))},
          cycles \in {CallGraphCycles(callGraph[stage])} :
         /\ errors' = [errors EXCEPT ![stage] = @
                \union ErrorsIf("no entry point", entryPoints[stage] < 1)
                \union ErrorsIf("recursion", cycles)
                \union ErrorsIf("no body", MissingBody(tree[stage], visited))]
         /\ recursive' = [recursive EXCEPT ![stage] = @ \/ cycles]
         /\ tree' = IF program.keepUncalled THEN tree
                    ELSE [tree EXCEPT ![stage] = Prune(@, visited, EntryName(stage))]
    /\ NextStage
    /\ UNCHANGED <<program, callGraph, entryPoints, modes>>

(***************************************************************************)
(* crossStageCheck.  The lists it compares hold the nodes of the stages, so *)
(* what a declaration lacks is set in the tree of the first stage that has  *)
(* it, and there in the linker object only.                                 *)
(***************************************************************************)
LinkerRefs(s, storage) ==
    SelectSeq([i \in DOMAIN tree[s].linker |-> <<s, i>>],
              LAMBDA ref : tree[s].linker[ref[2]].storage = storage)

\* One list is merged into another: new are the objects after it, bad whether
\* any two contradict each other.
MergeRefs(start, refs) ==
    LET Node(t, ref) == t[ref[1]].linker[ref[2]]
        Same(t, ref) == {r \in ToSet(start.refs) : Node(t, r).name = Node(t, ref).name}
        Step(acc, ref) ==
            LET same == Same(acc.tree, ref)
                node == Node(acc.tree, ref)
                adopted(r) == AdoptLayout(Node(acc.tree, r), node)
            IN  IF same = {} THEN [acc EXCEPT !.refs = Append(@, ref)]
                ELSE LET r == CHOOSE r \in same : TRUE
                     IN  [acc EXCEPT !.tree[r[1]].linker[r[2]] = adopted(r),
                                     !.bad = @ \/ Contradict(adopted(r), node)]
    IN  FoldLeft(Step, start, refs)

CheckUniforms ==
    FoldLeft(LAMBDA acc, s : MergeRefs(acc, LinkerRefs(s, "uniform")),
             [tree |-> tree, refs |-> <<>>, bad |-> FALSE], SetToSortSeq(Active, <))

\* The outputs of a stage with the inputs of the stage after it.
CheckStageIO(trees, s, next) ==
    MergeRefs([tree |-> trees, refs |-> LinkerRefs(s, "out"), bad |-> FALSE], LinkerRefs(next, "in"))
StageAfter(s) == Min({n \in Active : n > s})

CrossStageCheck ==
    /\ at = "cross"
    /\ at' = "linked"
    /\ IF Failed \/ Cardinality(Active) < 2 THEN UNCHANGED <<tree, errors>>
       ELSE \E uniforms \in {CheckUniforms} :
              LET producers == SetToSortSeq(Active \ {Max(Active)}, <)
                  Step(acc, s) ==
                      LET io == CheckStageIO(acc.tree, s, StageAfter(s))
                      IN  [tree |-> io.tree, bad |-> IF io.bad THEN acc.bad \union {s} ELSE acc.bad]
              IN  \E inOut \in {FoldLeft(Step, [tree |-> uniforms.tree, bad |-> {}], producers)} :
                    /\ tree' = inOut.tree
                    /\ errors' = [s \in DOMAIN errors |->
                          errors[s] \union ErrorsIf("mismatch",
                                        s \in inOut.bad \/ (s = 0 /\ uniforms.bad))]
    /\ UNCHANGED <<program, stage, merged, callGraph, entryPoints, modes, recursive>>

LinkNext == BeginLink \/ EmptyStage \/ RefuseProfiles \/ MergeUnit \/ FinalCheck \/ CrossStageCheck
==============================================================================
