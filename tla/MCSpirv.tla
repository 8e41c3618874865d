------------------------------ MODULE MCSpirv ------------------------------
(***************************************************************************)
(* What makes SPIR-V and what rewrites it, side by side: a behaviour writes *)
(* one function (SpvFlow), or the accesses of one statement (AccessChain),  *)
(* or remaps one module (SpvRemapper).                                      *)
(***************************************************************************)
EXTENDS SpvFlow, MCSpvRemapper, AccessChain

Loop(first, test, term, op) == [first |-> first, test |-> test, term |-> term, op |-> op]

\* for (; a && b; e), for (;;), do ... while (a || b)
MCLoopShapes == {Loop(TRUE, TRUE, TRUE, "and"),
                 Loop(TRUE, FALSE, FALSE, "plain"), Loop(FALSE, TRUE, FALSE, "or")}

\* A vector, and a matrix (or array, or structure) of two of them, with swizzles
\* that drop, repeat, turn and keep the components.
MCTypes == {<<3>>, <<2, 3>>}
MCSwizzles == {<<1, 0>>, <<2, 0>>, <<1, 1>>, <<2, 1, 0>>, <<0, 1, 2>>}

NoFlow ==
    /\ ParserInit /\ phase = "none"
    /\ at = 0 /\ builder = <<>> /\ breakForLoop = <<>> /\ nodes = <<>>
    /\ unreachableDefinitions = {} /\ dumped = <<>>
NoRemapper ==
    /\ spv = <<>> /\ original = <<>> /\ bound = 0 /\ options = {} /\ pass = "none"
    /\ stripRange = {} /\ nameMap = <<>> /\ fnPos = <<>> /\ fnCalls = <<>> /\ idMapL = <<>>

NoChain ==
    /\ type = <<>> /\ object = NoValue /\ accessChain = <<>>
    /\ lValues = <<>> /\ rValues = <<>> /\ qualifiers = <<>> /\ result = NoValue
    /\ meaning = [object |-> NoValue, result |-> NoValue, late |-> FALSE]
    /\ pushes = 0 /\ doing = "none"

SpirvInit ==
    \/ Init /\ NoRemapper /\ NoChain
    \/ (InitLoads \/ InitDead) /\ NoFlow /\ NoChain
    \/ ChainInit /\ NoFlow /\ NoRemapper
SpirvNext ==
    \/ Next /\ UNCHANGED <<remapVars, chainVars>>
    \/ RemapNext /\ UNCHANGED <<vars, chainVars>>
    \/ doing # "none" /\ ChainNext /\ UNCHANGED <<vars, remapVars>>
SpirvSpec == SpirvInit /\ [][SpirvNext]_<<vars, remapVars, chainVars>>
=============================================================================
