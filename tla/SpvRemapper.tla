----------------------------- MODULE SpvRemapper -----------------------------
(***************************************************************************)
(* spirvbin_t::remap, the tool that makes SPIR-V modules small and alike:   *)
(* debug instructions are stripped, locals that are stored once are         *)
(* replaced by their value, what is not used is dropped, and ids are given  *)
(* again from hashes of what they stand for.  A module is a sequence of     *)
(* instructions [op, type, res, ids, lit]; a type or result of NoResult is  *)
(* none, and lit stands for the literals.  Positions are instructions, not  *)
(* words.                                                                   *)
(***************************************************************************)
EXTENDS Integers, FiniteSets, SequencesExt, SpvMeaning

CONSTANTS FirstTypeId, TypeIdLimit,   \* firstMappedID and softTypeIdLimit of mapTypeConst,
          FirstNameId, NameIdLimit,   \* of mapNames,
          FirstBodyId, BodyIdLimit,   \* and of mapFnBodies
          NameHash,                   \* the hash of every name
          OpNumber                    \* the number of every operation

ASSUME IdLimitsAssumption == {TypeIdLimit, NameIdLimit, BodyIdLimit} \subseteq Nat \ {0}

VARIABLES spv, bound,
          options,      \* the set of passes asked for
          pass,         \* the pass that comes next
          stripRange,   \* the instructions to be left out by the next strip
          nameMap,      \* from names to ids, never cleared
          fnPos,        \* from functions to their instructions
          fnCalls,      \* from functions to the number of calls left
          idMapL,       \* from the ids in use to the ids they are to have
          original      \* history: the module that was handed in

remapVars == <<spv, bound, options, pass, stripRange, nameMap, fnPos, fnCalls, idMapL, original>>

Unmapped == -1

(***************************************************************************)
(* Instructions and modules.                                                *)
(***************************************************************************)
TypeOps == {"TypeVoid", "TypeInt", "TypeFloat", "TypeVector", "TypePointer", "TypeFunction"}
ConstOps == {"Constant"}
FlowCtrl == {"BranchConditional", "Branch", "LoopMerge", "SelectionMerge",
             "Label", "Function", "FunctionEnd"}
StripOps == {"Name"}
DeadRefOps == {"Name", "Decorate"}

\* The ids of an instruction, in the order process meets them.
IdsOf(i) == SelectSeq(<<i.type, i.res>>, LAMBDA id : id # NoResult) \o i.ids
UsedIds(code) == UNION {ToSet(IdsOf(code[p])) : p \in DOMAIN code}
Defined(code) == {code[p].res : p \in DOMAIN code} \ {NoResult}
IdPos(code, id) == CHOOSE p \in DOMAIN code : code[p].res = id
TypeConstPos(code) == SelectSeq(Positions(code), LAMBDA p : code[p].op \in TypeOps \cup ConstOps)
EntryPointOf(code) ==
    LET p == SelectLastInSeq(code, LAMBDA i : i.op = "EntryPoint")
    IN  IF p = 0 THEN NoResult ELSE code[p].ids[1]

Replace(m, id) == IF id \in DOMAIN m THEN m[id] ELSE id
ReplaceIds(m, i) ==
    [i EXCEPT !.type = Replace(m, @), !.res = Replace(m, @),
              !.ids = [n \in DOMAIN @ |-> Replace(m, @[n])]]

Without(code, range) ==
    LET kept == SelectSeq(Positions(code), LAMBDA p : p \notin range)
    IN  [n \in DOMAIN kept |-> code[kept[n]]]

FunctionsOf(code) ==
    LET end(p) == SelectInSubSeq(code, p, Len(code), LAMBDA i : i.op = "FunctionEnd")
        starts == {p \in DOMAIN code : code[p].op = "Function"}
    IN  [f \in {code[p].res : p \in starts} |-> IdPos(code, f)..end(IdPos(code, f))]
CallsIn(code, range, f) ==
    Cardinality({p \in range : code[p].op = "FunctionCall" /\ code[p].ids[1] = f})
CountCalls(code) ==
    [f \in {code[p].ids[1] : p \in {q \in DOMAIN code : code[q].op = "FunctionCall"}} |->
       CallsIn(code, DOMAIN code, f)]

AddName(names, i) == IF i.op = "Name" THEN (i.lit :> i.ids[1]) @@ names ELSE names

\* buildLocalMaps: all but nameMap is built anew.
BuildLocalMaps(code) ==
    /\ fnPos' = FunctionsOf(code)
    /\ fnCalls' = CountCalls(code)
    /\ idMapL' = [id \in UsedIds(code) |-> Unmapped]
    /\ nameMap' = Through(AddName, nameMap, code)

\* strip: without anything to leave out the maps stay.
Strip(code, range) ==
    /\ spv' = Without(code, range)
    /\ stripRange' = {}
    /\ IF range = {} THEN UNCHANGED <<fnPos, fnCalls, idMapL, nameMap>>
       ELSE BuildLocalMaps(Without(code, range))

(***************************************************************************)
(* The passes in their order.  Those between a fixed few are options.       *)
(***************************************************************************)
Passes == <<"strip", "loadStore", "dceFuncs", "dceVars", "dceTypes", "clean",
            "mapTypes", "mapNames", "mapFuncs", "mapRest", "done">>
MapPasses == {"mapTypes", "mapNames", "mapFuncs"}
Runs(p) == p \in options \cup {"clean", "done"} \/ (p = "mapRest" /\ options \cap MapPasses # {})
PassAfter(p) ==
    LET at == CHOOSE n \in DOMAIN Passes : Passes[n] = p
    IN  Passes[Min({n \in DOMAIN Passes : n > at /\ Runs(Passes[n])})]
NextPass == pass' = PassAfter(pass) /\ UNCHANGED <<bound, options, original>>
Mapping == UNCHANGED <<spv, stripRange, nameMap, fnPos, fnCalls>>

StripDebug ==
    /\ pass = "strip"
    /\ Strip(spv, {p \in DOMAIN spv : spv[p].op \in StripOps})
    /\ NextPass

(***************************************************************************)
(* optLoadStore.  While the instructions are gone through, locals has the   *)
(* candidates, value what they were stored, and seenIn the block where they *)
(* were first used; blocks are counted by instructions of flow control.     *)
(***************************************************************************)
VolatileMask == 1
NoLocals == [locals |-> {}, value |-> <<>>, seenIn |-> <<>>, block |-> 0]
Forget(s, vs) ==
    [s EXCEPT !.locals = @ \ vs, !.value = [v \in DOMAIN @ \ vs |-> @[v]]]
InAnyBlock(s, v) == s
InOneBlock(s, v) ==
    IF v \notin DOMAIN s.seenIn THEN [s EXCEPT !.seenIn = (v :> s.block) @@ @]
    ELSE IF s.seenIn[v] # s.block THEN Forget(s, {v})
    ELSE s

CandidateLoad(s, i) ==
    LET v == i.ids[1]
        excluded == v \notin DOMAIN s.value \/ i.lit = "volatile"
    IN  InOneBlock(IF excluded THEN Forget(s, {v}) ELSE s, v)
\* A volatile store makes the code forget the id that is the mask.
CandidateStore(s, i) ==
    LET v == i.ids[1]
        stored == IF v \in DOMAIN s.value THEN Forget(s, {v})
                  ELSE [s EXCEPT !.value = (v :> i.ids[2]) @@ @]
    IN  InOneBlock(IF i.lit = "volatile" THEN Forget(stored, {VolatileMask}) ELSE stored, v)

Candidates(before, i) ==
    LET s == IF i.op \in FlowCtrl THEN [before EXCEPT !.block = @ + 1] ELSE before
        of(op) == i.op = op /\ i.ids[1] \in s.locals
    IN  CASE i.op = "Variable" /\ i.lit = "Function" /\ i.ids = <<>> ->
               [s EXCEPT !.locals = @ \cup {i.res}]
          [] of("AccessChain") -> Forget(s, {i.ids[1]})
          [] of("Load") -> CandidateLoad(s, i)
          [] of("Store") -> CandidateStore(s, i)
          [] OTHER -> Forget(s, ToSet(IdsOf(i)) \cap s.locals)

OptLoadStore ==
    LET found == Through(Candidates, NoLocals, spv)
        uses(op) == {p \in DOMAIN spv : /\ spv[p].op = op
                                        /\ spv[p].ids # <<>> /\ spv[p].ids[1] \in found.locals}
        loaded == [r \in {spv[p].res : p \in uses("Load")} |->
                     found.value[spv[IdPos(spv, r)].ids[1]]]
        idMap == loaded @@ found.value
        chased[id \in DOMAIN idMap] ==
            IF idMap[id] \in DOMAIN idMap THEN chased[idMap[id]] ELSE idMap[id]
        variables == {p \in DOMAIN spv : spv[p].op = "Variable" /\ spv[p].res \in found.locals}
    IN  /\ pass = "loadStore"
        /\ Strip([p \in DOMAIN spv |-> ReplaceIds(chased, spv[p])],
                 uses("Load") \cup uses("Store") \cup variables)
        /\ NextPass

(***************************************************************************)
(* What is dead.  Functions are gone through in the order of a hash table;  *)
(* what they leave marked is cut by the next strip, and seen until then.    *)
(***************************************************************************)
Uncalled(f) == f \notin DOMAIN fnCalls
DceFunc ==
    /\ pass = "dceFuncs"
    /\ \E f \in DOMAIN fnPos \ {EntryPointOf(spv)} :
         /\ Uncalled(f)
         /\ stripRange' = stripRange \cup fnPos[f]
         /\ LET left == [g \in DOMAIN fnCalls |-> fnCalls[g] - CallsIn(spv, fnPos[f], g)]
            IN  fnCalls' = [g \in {h \in DOMAIN left : left[h] > 0} |-> left[g]]
         /\ fnPos' = [g \in DOMAIN fnPos \ {f} |-> fnPos[g]]
    /\ UNCHANGED <<spv, bound, options, pass, nameMap, idMapL, original>>
DceFuncsDone ==
    /\ pass = "dceFuncs"
    /\ \A f \in DOMAIN fnPos \ {EntryPointOf(spv)} : ~Uncalled(f)
    /\ NextPass
    /\ UNCHANGED <<spv, stripRange, nameMap, fnPos, fnCalls, idMapL>>

\* Uses are counted from the instruction of the variable on, and in the entry point.
CountUse(count, id) ==
    IF id \in DOMAIN count /\ count[id] > 0 THEN [count EXCEPT ![id] = @ + 1] ELSE count
CountVar(count, i) ==
    LET more(c, v) == (v :> 1 + (IF v \in DOMAIN c THEN c[v] ELSE 0)) @@ c
    IN  CASE i.op = "Variable" -> more(count, i.res)
          [] i.op = "EntryPoint" -> Through(more, count, Tail(i.ids))
          [] OTHER -> Through(CountUse, count, IdsOf(i))
DceVars ==
    LET count == Through(CountVar, <<>>, spv)
        unused(id) == id \in DOMAIN count /\ count[id] = 1
    IN  /\ pass = "dceVars"
        /\ stripRange' = stripRange \cup
             {p \in DOMAIN spv : \/ spv[p].op = "Variable" /\ unused(spv[p].res)
                                 \/ spv[p].op \in DeadRefOps /\ unused(spv[p].ids[1])}
        /\ NextPass
        /\ UNCHANGED <<spv, nameMap, fnPos, fnCalls, idMapL>>

\* One round: what the rounds before have marked is cut first.  A type or constant that is
\* counted once is only defined.
Referred(code) == UNION {ToSet(code[p].ids) \cup {code[p].type} : p \in DOMAIN code}
DceTypes ==
    LET code == Without(spv, stripRange)
        dead == {p \in ToSet(TypeConstPos(code)) : code[p].res \notin Referred(code)}
    IN  /\ pass = "dceTypes"
        /\ spv' = code
        /\ stripRange' = dead
        /\ IF stripRange = {} THEN UNCHANGED <<fnPos, fnCalls, idMapL, nameMap>>
           ELSE BuildLocalMaps(code)
        /\ IF dead = {} THEN NextPass ELSE UNCHANGED <<pass, bound, options, original>>

\* strip and stripDeadRefs: what names or decorates an id that is gone goes too.
Clean ==
    LET code == Without(spv, stripRange)
        dead == {p \in DOMAIN code : /\ code[p].op \in DeadRefOps
                                     /\ code[p].ids[1] \notin Defined(code)}
    IN  /\ pass = "clean"
        /\ spv' = Without(code, dead)
        /\ stripRange' = {}
        /\ IF stripRange \cup dead = {} THEN UNCHANGED <<fnPos, fnCalls, idMapL, nameMap>>
           ELSE BuildLocalMaps(Without(code, dead))
        /\ NextPass

(***************************************************************************)
(* New ids.                                                                 *)
(***************************************************************************)
Hashed(map, id) == id
NextUnusedId(map, id) ==
    LET taken == {map[x] : x \in DOMAIN map}
    IN  Min((id..(id + Cardinality(taken))) \ taken)
MapId(map, id, hash) ==
    IF id \in DOMAIN map /\ map[id] = Unmapped
    THEN [map EXCEPT ![id] = NextUnusedId(map, hash)] ELSE map

\* hashType, over the positions of a module: what a type is made of comes before it.
TypeHash(code) ==
    LET hash[p \in DOMAIN code] ==
            LET of(id) == hash[IdPos(code, id)]
                sum(base, ids) == base + Through(+, 0, [n \in DOMAIN ids |-> (n + 1) * of(ids[n])])
                i == code[p]
            IN  CASE i.op = "TypeVoid" -> 0
                  [] i.op = "TypeInt" -> 3 + i.lit
                  [] i.op = "TypeFloat" -> 5
                  [] i.op = "TypeVector" -> 6 + of(i.ids[1]) * (i.lit - 1)
                  [] i.op = "TypePointer" -> 100000 + of(i.ids[1])
                  [] i.op = "TypeFunction" -> sum(200000, i.ids)
                  [] i.op = "Constant" -> 400011 + of(i.type) + 3 * i.lit
    IN  hash
MapTypeConst ==
    LET hash == TypeHash(spv)
        step(map, p) == MapId(map, spv[p].res, FirstTypeId + (hash[p] % TypeIdLimit))
    IN  /\ pass = "mapTypes"
        /\ idMapL' = Through(step, idMapL, TypeConstPos(spv))
        /\ NextPass /\ Mapping

\* The names are gone through in the order of a hash table.
MapNames ==
    LET step(map, n) == MapId(map, nameMap[n], FirstNameId + (NameHash[n] % NameIdLimit))
    IN  /\ pass = "mapNames"
        /\ \E order \in SetToSeqs(DOMAIN nameMap) : idMapL' = Through(step, idMapL, order)
        /\ NextPass /\ Mapping

\* The results in functions are hashed with the operations around them, up to the ends of
\* the function; 30103 and 17 of the code, modulo the number of ids.
WindowSize == 2
WindowHash(code, p, fn) ==
    LET before == SelectLastInSubSeq(code, Max({1, p - WindowSize}), p - 1,
                                     LAMBDA i : i.op = "Function")
        behind == SelectInSubSeq(code, p, Min({Len(code), p + WindowSize}),
                                 LAMBDA i : i.op = "FunctionEnd")
        first == IF before # 0 THEN before + 1 ELSE p - WindowSize
        last == IF behind # 0 THEN behind - 1 ELSE p + WindowSize
        around == Reverse([n \in 1..(p - first) |-> first + n - 1])
                    \o [n \in 1..(last - p + 1) |-> p + n - 1]
        step(h, q) == (h * 30103 + OpNumber[code[q].op] * 19) % BodyIdLimit
    IN  Through(step, fn * 17, around)
FunctionAt(code, p) == {f \in DOMAIN fnPos : p \in fnPos[f] /\ code[p].op # "FunctionEnd"}
MapResults(code) ==
    LET step(map, p) ==
            IF code[p].res = NoResult \/ FunctionAt(code, p) = {} THEN map
            ELSE LET fn == CHOOSE f \in FunctionAt(code, p) : TRUE
                 IN  MapId(map, code[p].res, FirstBodyId + (WindowHash(code, p, fn) % BodyIdLimit))
    IN  Through(step, idMapL, Positions(code))

\* Then every id of a frequent operation, by how many of the operation there were before in
\* the function and which of its ids it is; OpFunction is taken for the operation before it.
CountedOps == {"Label", "Variable", "AccessChain", "Load", "Store", "FunctionCall"}
MapOperands(map, code) ==
    LET fn(p) == LET q == SelectLastInSubSeq(code, 1, p, LAMBDA i : i.op = "Function")
                 IN  IF q = 0 THEN [id |-> NoResult, at |-> 1] ELSE [id |-> code[q].res, at |-> q]
        op(p) == code[IF code[p].op = "Function" THEN p - 1 ELSE p].op
        count(p) == Cardinality({q \in fn(p).at..p : code[q].op = op(p)})
        hash(p, n) == count(p) * OpNumber[op(p)] * 50047 + n + fn(p).id * 117
        step(m, p) ==
            IF op(p) \notin CountedOps THEN m
            ELSE LET ids == IdsOf(code[p])
                     one(l, n) == MapId(l, ids[n], FirstBodyId + (hash(p, n) % BodyIdLimit))
                 IN  Through(one, m, Positions(ids))
    IN  Through(step, map, Positions(code))
MapFnBodies ==
    /\ pass = "mapFuncs"
    /\ idMapL' = MapOperands(MapResults(spv), spv)
    /\ NextPass /\ Mapping

\* mapRemainder and applyMap: ids without a new one get the smallest free ones.
MapRest ==
    LET remaining == [id \in 1..Max(DOMAIN idMapL) |-> id]
        map == Through(LAMBDA m, id : MapId(m, id, 1), idMapL, remaining)
    IN  /\ pass = "mapRest"
        /\ idMapL' = map
        /\ bound' = Max({map[id] + 1 : id \in DOMAIN map})
        /\ spv' = [p \in DOMAIN spv |-> ReplaceIds(map, spv[p])]
        /\ pass' = PassAfter(pass)
        /\ UNCHANGED <<options, stripRange, nameMap, fnPos, fnCalls, original>>

RemapInit(code, chosen) ==
    /\ spv = code /\ original = code
    /\ bound = 1 + Max(UsedIds(code))
    /\ options = chosen
    /\ pass = (CHOOSE p \in ToSet(Passes) :
                 /\ p \in chosen \cup {"clean"}
                 /\ \A n \in DOMAIN Passes : Passes[n] \in chosen \cup {"clean"}
                      => \E m \in 1..n : Passes[m] = p)
    /\ stripRange = {}
    /\ fnPos = FunctionsOf(code)
    /\ fnCalls = CountCalls(code)
    /\ idMapL = [id \in UsedIds(code) |-> Unmapped]
    /\ nameMap = Through(AddName, <<>>, code)

RemapNext ==
    \/ StripDebug \/ OptLoadStore \/ DceFunc \/ DceFuncsDone \/ DceVars \/ DceTypes \/ Clean
    \/ MapTypeConst \/ MapNames \/ MapFnBodies \/ MapRest

(***************************************************************************)
(* Properties.                                                              *)
(***************************************************************************)
\* The functions that a run from the entry point can come to.
Reached(code) ==
    LET functions == FunctionsOf(code)
        called(f) == {code[p].ids[1] : p \in {q \in functions[f] : code[q].op = "FunctionCall"}}
        within[n \in Nat] == IF n = 0 THEN {EntryPointOf(code)}
                             ELSE within[n - 1] \cup UNION {called(f) : f \in within[n - 1]}
    IN  within[Cardinality(DOMAIN functions)]

\* Whatever passes were asked for, every function that can be reached is still there and,
\* along every path through its blocks, does what it did: optLoadStore replaces a load only
\* by what is there at that moment, and the passes for dead code drop nothing that is used.
SameTraces(before, f, after, g) ==
    LET paths == Paths(original, before)
        traces == Traces(original, before, paths)
        now == Traces(spv, after, paths)
    IN  /\ spv[g].tag = original[f].tag
        /\ \A path \in paths : Refines(now[path], traces[path])
MeaningKept ==
    pass = "done" =>
      LET before == FunctionsOf(original)
          after == FunctionsOf(spv)
      IN  \A f \in Reached(original) : \E g \in DOMAIN after :
            SameTraces(before[f], IdPos(original, f), after[g], IdPos(spv, g))

\* The result is a module: every id that is used is defined by one instruction and is below
\* the bound of the header, whatever the hashes are and however the passes are mixed.
IdsApart ==
    pass = "done" =>
      /\ UsedIds(spv) \subseteq Defined(spv) \cap 1..(bound - 1)
      /\ Cardinality(Defined(spv)) = Cardinality({p \in DOMAIN spv : spv[p].res # NoResult})
==============================================================================
