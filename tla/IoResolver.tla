----------------------------- MODULE IoResolver -----------------------------
(***************************************************************************)
(* The resolvers mapIO asks for a location, a binding and a set: the one    *)
(* for a single stage (TDefaultIoResolver) and the one that sees all stages *)
(* (TDefaultGlslIoResolver).  Both keep the slots taken in a numbered space *)
(* per key; the second also keeps the slot each name was given.             *)
(*                                                                         *)
(* An entry is what the maps of the mapper keep of a variable: the node it  *)
(* was first met as, whether it is live, its stage, and what was decided.   *)
(***************************************************************************)
EXTENDS ShaderTrees

(***************************************************************************)
(* What is known of types.                                                  *)
(***************************************************************************)
LocationSize        == [vec |-> 1, pair |-> 2, mat |-> 2, block |-> 1, sampler |-> 1, samplers |-> 2]
UniformLocationSize == [vec |-> 1, pair |-> 2, mat |-> 1, block |-> 1, sampler |-> 1, samplers |-> 2]
Opaque(type) == type \in {"sampler", "samplers"}
ResourceType(type) == IF Opaque(type) THEN "sampler" ELSE "ubo"
NumBindings(opt, type) == IF opt.openGl /\ type = "samplers" THEN 2 ELSE 1

(***************************************************************************)
(* Slots: sets of <<key, slot>> and of <<key, name, slot>>.                 *)
(***************************************************************************)
NewResolver == [slots |-> {}, storage |-> {}, resource |-> {},
                preStage |-> None, currentStage |-> None,
                nextUniform |-> 0, nextInput |-> 0, nextOutput |-> 0]

SlotRange(slot, size) == slot .. slot + size - 1
SlotsOf(r, key) == {taken[2] : taken \in {t \in r.slots : t[1] = key}}
ReserveSlot(r, key, slot, size) ==
    [r EXCEPT !.slots = @ \union {<<key, s>> : s \in SlotRange(slot, size)}]
\* getFreeSlot: the first gap at or after base that is big enough.
FreeSlotOfOne(r, key, base, size) ==
    LET taken == SlotsOf(r, key)
    IN  Min({s \in {base} \union {t + 1 : t \in {t \in taken : t >= base}} : s \notin taken})
FreeSlot(r, key, base, size) ==
    LET taken == SlotsOf(r, key)
    IN  Min({s \in {base} \union {t + 1 : t \in {t \in taken : t >= base}} :
               SlotRange(s, size) \intersect taken = {}})

Given(map, key, name) == {m[3] : m \in {m \in map : m[1] = key /\ m[2] = name}}

(***************************************************************************)
(* Entries.                                                                 *)
(***************************************************************************)
NewEntry(node, s, live) ==
    [symbol |-> node, live |-> live, stage |-> s, newBinding |-> 0, newSet |-> 0, newLocation |-> 0]
ClearNewAssignments(ent) ==
    [ent EXCEPT !.newBinding = None, !.newSet = None, !.newLocation = None]

Points(ent) ==
    (IF ent.symbol.binding # None THEN 2 ELSE 0) + (IF ent.symbol.set # None THEN 1 ELSE 0)
IdLess(a, b) == a.level < b.level \/ (a.level = b.level /\ a.number < b.number)
SameId(a, b) == a.symbol.id = b.symbol.id
OrderByPriority(l, r) ==
    \/ Points(l) > Points(r)
    \/ Points(l) = Points(r) /\ IdLess(l.symbol.id, r.symbol.id)
OrderByPriorityAndLive(l, r) ==
    \/ l.live /\ ~r.live
    \/ l.live = r.live /\ OrderByPriority(l, r)
\* Entries of two stages may be equal in the order; sort leaves either first.
Sorted(entries, Less(_, _), earlierFirst) ==
    SetToSortSeq(entries, LAMBDA l, r : \/ Less(l, r)
                                        \/ ~Less(r, l) /\ l.stage # r.stage
                                             /\ (l.stage < r.stage) = earlierFirst)

(***************************************************************************)
(* Common to the resolvers.  Every resolve operator returns the resolver    *)
(* and the entry it leaves, as [r, ent].                                    *)
(***************************************************************************)
SetOf(opt, node) ==
    IF node.set # None THEN node.set
    ELSE IF opt.setBinding # None THEN opt.setBinding ELSE 0
ResolveSet(opt, res) == [res EXCEPT !.ent.newSet = SetOf(opt, res.ent.symbol)]

NoLocation(opt, node) ==
    node.location # None \/ node.builtIn \/ node.type = "block" \/ (Opaque(node.type) /\ ~opt.openGl)

(***************************************************************************)
(* TDefaultIoResolver.                                                      *)
(***************************************************************************)
CountUniformLocation(opt, res) ==
    LET node == res.ent.symbol
    IN  IF ~opt.autoLoc \/ NoLocation(opt, node) THEN [res EXCEPT !.ent.newLocation = None]
        ELSE [res EXCEPT !.ent.newLocation = res.r.nextUniform,
                         !.r.nextUniform = @ + UniformLocationSize[node.type]]
CountInOutLocation(opt, res) ==
    LET node == res.ent.symbol
    IN  IF ~opt.autoLoc \/ node.location # None \/ node.builtIn
        THEN [res EXCEPT !.ent.newLocation = None]
        ELSE IF node.storage = "in"
        THEN [res EXCEPT !.ent.newLocation = res.r.nextInput, !.r.nextInput = @ + LocationSize[node.type]]
        ELSE [res EXCEPT !.ent.newLocation = res.r.nextOutput, !.r.nextOutput = @ + LocationSize[node.type]]

LayoutSet(node) == IF node.set # None THEN node.set ELSE 0
Bind(res, key, binding, size) ==
    [res EXCEPT !.r = ReserveSlot(@, key, binding, size), !.ent.newBinding = binding]
StageResolveBinding(opt, res) ==
    LET node == res.ent.symbol
        set == LayoutSet(node)
        size == NumBindings(opt, node.type)
    IN  IF node.binding # None THEN Bind(res, set, opt.baseBinding + node.binding, size)
        ELSE IF res.ent.live /\ opt.autoBind
        THEN Bind(res, set, FreeSlot(res.r, set, opt.baseBinding, size), size)
        ELSE [res EXCEPT !.ent.newBinding = None]

(***************************************************************************)
(* TDefaultGlslIoResolver.                                                  *)
(***************************************************************************)
\* beginCollect, beginResolve, and at the head of resolveInOutLocation.
EnterStage(r, s) ==
    IF s = None THEN [r EXCEPT !.preStage = None, !.currentStage = None]
    ELSE IF r.currentStage = s THEN r
    ELSE [r EXCEPT !.preStage = r.currentStage, !.currentStage = s]

InOutKeyOfStage(r, storage) == <<"inout", r.currentStage>>
InOutKey(r, storage) == <<"inout", IF storage = "in" THEN r.preStage ELSE r.currentStage>>
UniformKey == <<"uniform", None>>
ResourceKey(opt, node, set) == <<"resource", IF opt.openGl THEN ResourceType(node.type) ELSE set>>

\* A name that has a slot keeps it.
Name(r, key, name, slot, size) ==
    [ReserveSlot(r, key, slot, size) EXCEPT !.storage = @ \union {<<key, name, slot>>}]
ReserveName(r, key, node) ==
    IF Given(r.storage, key, node.name) # {} THEN r
    ELSE Name(r, key, node.name, node.location, UniformLocationSize[node.type])
ReserveStorageSlot(r, node) ==
    IF node.location = None \/ (node.storage = "uniform" /\ node.type = "block") THEN r
    ELSE ReserveName(r, IF node.storage = "uniform" THEN UniformKey ELSE InOutKey(r, node.storage), node)
ReserveResourceSlot(opt, r, node) ==
    LET key == ResourceKey(opt, node, SetOf(opt, node))
        binding == node.binding + opt.baseBinding
    IN  IF node.binding = None \/ Given(r.resource, key, node.name) # {} THEN r
        ELSE [ReserveSlot(r, key, binding, NumBindings(opt, node.type)) EXCEPT
                !.resource = @ \union {<<key, node.name, binding>>}]

\* The slot the name has in the key, or a free one that it gets.
LocationByName(res, key, size) ==
    LET name == res.ent.symbol.name
        given == Given(res.r.storage, key, name)
    IN  IF given # {} THEN [res EXCEPT !.ent.newLocation = CHOOSE slot \in given : TRUE]
        ELSE LET slot == FreeSlot(res.r, key, 0, size)
             IN  [r |-> Name(res.r, key, name, slot, size), ent |-> [res.ent EXCEPT !.newLocation = slot]]

ResolveInOutLocation(opt, res) ==
    LET node == res.ent.symbol
        entered == [res EXCEPT !.r = EnterStage(@, res.ent.stage)]
    IN  IF opt.autoLoc /\ node.location # None THEN [entered EXCEPT !.ent.newLocation = node.location]
        ELSE IF ~opt.autoLoc \/ node.builtIn THEN [entered EXCEPT !.ent.newLocation = None]
        ELSE LocationByName(entered, InOutKey(entered.r, node.storage), LocationSize[node.type])

ResolveUniformLocation(opt, res) ==
    LET node == res.ent.symbol
        first == \A s \in res.r.storage : s[1] # UniformKey
    IN  IF opt.autoLoc /\ node.location # None /\ node.type \in {"pair", "samplers"}
        THEN [res EXCEPT !.ent.newLocation = node.location]
        ELSE IF ~opt.autoLoc \/ NoLocation(opt, node) THEN [res EXCEPT !.ent.newLocation = None]
        ELSE LocationByName(res, UniformKey, IF first THEN UniformLocationSize[node.type]
                                                      ELSE LocationSize[node.type])

ResolveBinding(opt, res) ==
    LET node == res.ent.symbol
        key == ResourceKey(opt, node, res.ent.newSet)
        size == NumBindings(opt, node.type)
        given == Given(res.r.resource, key, node.name)
    IN  IF ResourceType(node.type) = "ubo" /\ node.type # "block"
        THEN [res EXCEPT !.ent.newBinding = None]
        ELSE IF node.binding # None THEN Bind(res, key, opt.baseBinding + node.binding, size)
        ELSE IF given # {} THEN [res EXCEPT !.ent.newBinding = CHOOSE binding \in given : TRUE]
        ELSE IF res.ent.live /\ opt.autoBind
        THEN LET binding == FreeSlot(res.r, key, opt.baseBinding, size)
             IN  [Bind(res, key, binding, size) EXCEPT
                    !.r.resource = @ \union {<<key, node.name, binding>>}]
        ELSE [res EXCEPT !.ent.newBinding = None]
=============================================================================
