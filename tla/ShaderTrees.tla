---------------------------- MODULE ShaderTrees -----------------------------
(***************************************************************************)
(* The trees that are linked and mapped.  A tree is the bodies of the       *)
(* functions, each with the symbol nodes in it, and the linker objects, the *)
(* nodes that stand for the globals.  A node has an id, made of the scope   *)
(* level and a number, and a copy of the type and of the layout.  "obj" is  *)
(* the variable the node means, which no code reads: the same in all units  *)
(* when the variable is theirs together.                                    *)
(***************************************************************************)
EXTENDS Integers, FiniteSets, SequencesExt

CONSTANT None   \* a layout qualifier that is not set, a stage that is not there

Nodes(t) == FlattenSeq([f \in DOMAIN t.bodies |-> t.bodies[f].uses]) \o t.linker
Traverse(t, Visit(_)) ==
    [bodies |-> [f \in DOMAIN t.bodies |->
                   [t.bodies[f] EXCEPT !.uses = [i \in DOMAIN @ |-> Visit(@[i])]]],
     linker |-> [i \in DOMAIN t.linker |-> Visit(t.linker[i])]]

IsLinkable(node) == node.storage \in {"in", "out", "uniform", "global"}
=============================================================================
