--------------------------- MODULE MCSpvRemapper ---------------------------
(***************************************************************************)
(* The modules given to the remapper, and the passes asked for: bodies that *)
(* load and store two locals, and functions that call each other or not.    *)
(***************************************************************************)
EXTENDS SpvRemapper

Instruction(op, type, res, ids, lit, tag) ==
    [op |-> op, type |-> type, res |-> res, ids |-> ids, lit |-> lit, tag |-> tag]
Do(op, ids) == Instruction(op, NoResult, NoResult, ids, "", "")
Declares(op, res, ids, lit) == Instruction(op, NoResult, res, ids, lit, "")
Computes(op, type, res, ids) == Instruction(op, type, res, ids, "", "")
Variable(type, id, storage, tag) == Instruction("Variable", type, id, <<>>, storage, tag)
Named(id, name) == Instruction("Name", NoResult, NoResult, <<id>>, name, "")

\* The ids of the modules.
Main == 1  Void == 2  FnType == 3  Float == 4  PtrIn == 5  PtrOut == 6  PtrFn == 7
In == 8  Out == 9  A == 10  B == 11  LoadedIn == 15  FirstFree == 16
F == 30  G == 34  P == 40  Vec == 41  PtrVec == 42  One == 43  FirstCall == 61
BlockId(n) == 11 + n

Types == <<Declares("TypeVoid", Void, <<>>, 0), Declares("TypeFunction", FnType, <<Void>>, 0),
           Declares("TypeFloat", Float, <<>>, 0), Declares("TypePointer", PtrIn, <<Float>>, 1),
           Declares("TypePointer", PtrOut, <<Float>>, 3),
           Declares("TypePointer", PtrFn, <<Float>>, 7)>>
Interface == <<Variable(PtrIn, In, "Input", "in"), Variable(PtrOut, Out, "Output", "out")>>
EntryPoint == Do("EntryPoint", <<Main, In, Out>>)
FunctionWith(id, tag, code) ==
    <<Instruction("Function", Void, id, <<FnType>>, "", tag), Declares("Label", id + 20, <<>>, "")>>
      \o code \o <<Do("Return", <<>>), Do("FunctionEnd", <<>>)>>

(***************************************************************************)
(* Bodies: the steps of main, which begins by loading the input and ends by *)
(* storing the last value to the output.                                    *)
(***************************************************************************)
Action(k, v, x) == [k |-> k, v |-> v, x |-> x]
LoadsAndStores == {Action("load", v, "") : v \in {A, B}}
                    \cup {Action("store", v, x) : v \in {A, B}, x \in {"in", "last"}}
Add == Action("add", A, "")
NextOne == Action("block", A, "")
Actions == LoadsAndStores \cup {Action("chain", A, ""), Action("call", A, ""),
                                Action("volatile", A, ""), Add, NextOne}

\* Block n ends by going on, around the next block, or back from it.
Close(flow, n) ==
    LET branch == Do("BranchConditional", <<LoadedIn, BlockId(2), BlockId(3)>>)
    IN  CASE flow = "skip" /\ n = 1 -> <<Do("SelectionMerge", <<BlockId(3)>>), branch>>
          [] flow = "loop" /\ n = 2 -> <<Do("LoopMerge", <<BlockId(3), BlockId(2)>>), branch>>
          [] OTHER -> <<Do("Branch", <<BlockId(n + 1)>>)>>
Emit(flow, s, x) ==
    LET put(c) == [s EXCEPT !.code = @ \o c]
        value(i) == [put(<<i>>) EXCEPT !.last = s.next, !.next = @ + 1]
        other(c) == [put(c) EXCEPT !.next = @ + 1]
    IN  CASE x.k = "load" -> value(Computes("Load", Float, s.next, <<x.v>>))
          [] x.k = "volatile" -> value(Instruction("Load", Float, s.next, <<x.v>>, "volatile", ""))
          [] x.k = "add" -> value(Computes("FAdd", Float, s.next, <<s.last, LoadedIn>>))
          [] x.k = "store" -> put(<<Do("Store", <<x.v, IF x.x = "in" THEN LoadedIn ELSE s.last>>)>>)
          [] x.k = "chain" -> other(<<Computes("AccessChain", PtrFn, s.next, <<x.v>>),
                                      Do("Store", <<s.next, LoadedIn>>)>>)
          [] x.k = "call" -> other(<<Computes("FunctionCall", Void, s.next, <<F, x.v>>)>>)
          [] x.k = "block" ->
               [put(Close(flow, s.block) \o <<Declares("Label", BlockId(s.block + 1), <<>>, "")>>)
                  EXCEPT !.block = @ + 1, !.last = LoadedIn]
MainWith(steps, flow) ==
    LET begin == [code |-> <<Instruction("Function", Void, Main, <<FnType>>, "", "main"),
                             Declares("Label", BlockId(1), <<>>, ""),
                             Variable(PtrFn, A, "Function", "a"),
                             Variable(PtrFn, B, "Function", "b"),
                             Computes("Load", Float, LoadedIn, <<In>>)>>,
                  last |-> LoadedIn, next |-> FirstFree, block |-> 1]
        made == Through(LAMBDA s, x : Emit(flow, s, x), begin, steps)
    IN  made.code
          \o <<Do("Store", <<Out, made.last>>), Do("Return", <<>>), Do("FunctionEnd", <<>>)>>
BodyModule(steps, flow) ==
    <<EntryPoint, Named(Main, "main"), Named(A, "a")>> \o Types \o Interface
      \o MainWith(steps, flow) \o FunctionWith(F, "f", <<>>)

\* Up to three steps of any kind, four loads and stores, or three in three blocks; the longer
\* ones begin with local A, as only names tell the two apart.
BeginWithA(steps) == steps[1].v = A
AcrossBlocks == {<<NextOne>> \o inside \o <<NextOne, x>> :
                   inside \in {s \in [1..2 -> LoadsAndStores \cup {Add}] : BeginWithA(s)},
                   x \in LoadsAndStores}
Bodies == UNION {[1..n -> Actions] : n \in 0..3} \cup AcrossBlocks
            \cup {s \in [1..4 -> LoadsAndStores] : BeginWithA(s)}
InitLoads ==
    \E steps \in Bodies, flow \in {"line", "skip", "loop"} :
      LET blocks == Cardinality({n \in DOMAIN steps : steps[n] = NextOne})
      IN  /\ blocks <= 2 /\ (blocks < 2 => flow = "line")
          /\ RemapInit(BodyModule(steps, flow), {"loadStore"})

(***************************************************************************)
(* Dead code: main, f and g call each other or not, and a global that has a *)
(* name, a decoration and a type of its own is used in one of them or none. *)
(***************************************************************************)
Uses(id, in, f) ==
    IF in # f THEN <<>>
    ELSE <<Computes("AccessChain", PtrOut, id, <<P, One>>), Do("Store", <<id, One>>)>>
CallsModule(calls, in) ==
    LET id(f, g) == FirstCall + (IF f = Main THEN 0 ELSE 2) + (IF g = F THEN 0 ELSE 1)
        call(f, g) == Computes("FunctionCall", Void, id(f, g), <<g>>)
        code(f) == Through(LAMBDA c, g : IF <<f, g>> \in calls THEN Append(c, call(f, g)) ELSE c,
                           Uses(f + 25, in, f), <<F, G>>)
    IN  <<EntryPoint, Named(Main, "main"), Named(P, "p"),
          Instruction("Decorate", NoResult, NoResult, <<P>>, "RelaxedPrecision", "")>>
        \o Types \o <<Declares("TypeVector", Vec, <<Float>>, 4),
                      Declares("TypePointer", PtrVec, <<Vec>>, 6),
                      Instruction("Constant", Float, One, <<>>, 1, "")>>
        \o Interface \o <<Variable(PtrVec, P, "Private", "p")>>
        \o FunctionWith(Main, "main", code(Main)) \o FunctionWith(F, "f", code(F))
        \o FunctionWith(G, "g", code(G))
Dce == {"dceFuncs", "dceVars", "dceTypes"}
InitDead ==
    \E calls \in SUBSET {<<Main, F>>, <<Main, G>>, <<F, G>>, <<G, F>>},
       in \in {Main, F, G, NoResult}, strip \in SUBSET {"strip"},
       dce \in {{}, {"dceFuncs"}, {"dceVars"}, {"dceTypes"}, {"dceVars", "dceTypes"}, Dce},
       map \in {{}, {"mapNames", "mapFuncs"}, MapPasses} :
      RemapInit(CallsModule(calls, in), strip \cup dce \cup map)

OpOrder == <<"TypeVoid", "TypeFloat", "TypePointer", "TypeFunction", "Constant", "Function",
             "FunctionEnd", "FunctionCall", "Variable", "Load", "Store", "AccessChain", "FAdd",
             "Label", "Branch", "BranchConditional", "LoopMerge", "SelectionMerge", "Return",
             "Name", "Decorate", "EntryPoint">>
MCOpNumber == [o \in ToSet(OpOrder) |-> CHOOSE n \in DOMAIN OpOrder : OpOrder[n] = o]
MCNameHash == [n \in {"main", "a", "p"} |-> 1]
=============================================================================
