--------------------------- MODULE ReadableOrder ---------------------------
(***************************************************************************)
(* The traversal of the blocks of a function (ReadableOrderTraverser).  It  *)
(* goes depth first, but puts the merge block and the continue target of a  *)
(* header off until the branches of the header are done.  It is used twice: *)
(* to find what cannot be reached, and to write the function out.           *)
(*                                                                          *)
(* A block is a record: inst, its instructions, and succ, its successors in *)
(* order.  Blocks are named by their positions in a sequence.               *)
(***************************************************************************)
EXTENDS Naturals, Sequences, FiniteSets

MergeOps == {"selectionMerge", "loopMerge"}

\* A merge instruction is the one before the last.
HasMerge(block) == Len(block.inst) >= 2 /\ block.inst[Len(block.inst) - 1].op \in MergeOps
MergeInstruction(block) == block.inst[Len(block.inst) - 1]

\* What a header puts off.
Delayed(block) ==
    IF ~HasMerge(block) THEN {}
    ELSE LET m == MergeInstruction(block)
         IN  {m.merge} \cup (IF m.op = "loopMerge" THEN {m.continue} ELSE {})
DelayNothing(block) == {}

\* The traversal under way: the sets of ReadableOrderTraverser, the blocks written, and
\* the calls of visit() still to come, innermost first ("resume" ends a delay first).
Call(b, why, header) == [call |-> "visit", block |-> b, why |-> why, header |-> header]
Resume(b, dead, header) == [call |-> "resume", block |-> b, why |-> dead, header |-> header]
Started == [visited |-> {}, delayed |-> {}, reached |-> {}, order |-> <<>>,
            todo |-> <<Call(1, "flow", 0)>>]

\* The calls that visit() makes: the successors, unless the block is dead, then the
\* continue target, then the merge block.
CallsOf(blocks, b, why) ==
    LET block == blocks[b]
        m == MergeInstruction(block)
    IN  (IF why = "flow" THEN [i \in 1..Len(block.succ) |-> Call(block.succ[i], "flow", 0)]
         ELSE <<>>)
        \o (IF HasMerge(block) /\ m.op = "loopMerge" THEN <<Resume(m.continue, "deadContinue", b)>>
            ELSE <<>>)
        \o (IF HasMerge(block) THEN <<Resume(m.merge, "deadMerge", b)>> ELSE <<>>)

\* A block put off is visited as reached if a branch led to it meanwhile.
VisitNext(st, blocks) ==
    LET c == Head(st.todo)
        b == c.block
        why == IF c.call = "resume" /\ b \in st.reached THEN "flow" ELSE c.why
        delayed == IF c.call = "resume" THEN st.delayed \ {b} ELSE st.delayed
        reached == IF why = "flow" THEN st.reached \cup {b} ELSE st.reached
    IN  IF b \in st.visited \cup delayed
        THEN [st EXCEPT !.delayed = delayed, !.reached = reached, !.todo = Tail(@)]
        ELSE [visited |-> st.visited \cup {b},
              delayed |-> delayed \cup Delayed(blocks[b]),
              reached |-> reached,
              order   |-> Append(st.order, [block |-> b, why |-> why, header |-> c.header]),
              todo    |-> CallsOf(blocks, b, why) \o Tail(st.todo)]

RECURSIVE VisitAll(_, _)
VisitAll(st, blocks) ==
    IF st.todo = <<>> THEN st.order ELSE VisitAll(VisitNext(st, blocks), blocks)

\* inReadableOrder, from the entry block, which is the first.
InReadableOrder(blocks) == VisitAll(Started, blocks)

\* The position of block b in an order.
Place(order, b) == CHOOSE i \in 1..Len(order) : order[i].block = b
BlocksOf(order) == {order[i].block : i \in 1..Len(order)}

(***************************************************************************)
(* Reachability and dominance, by their definitions.                        *)
(***************************************************************************)
Successors(blocks, b) == {blocks[b].succ[i] : i \in 1..Len(blocks[b].succ)}

RECURSIVE ReachedFrom(_, _, _)
ReachedFrom(blocks, from, without) ==
    LET more == UNION {Successors(blocks, b) : b \in from} \ (from \cup without)
    IN  IF more = {} THEN from ELSE ReachedFrom(blocks, from \cup more, without)

Reachable(blocks) == ReachedFrom(blocks, {1}, {})

\* The blocks that every path from the entry to them leads through a.
Dominated(blocks, a) ==
    IF a = 1 THEN Reachable(blocks)
    ELSE Reachable(blocks) \ ReachedFrom(blocks, {1}, {a})
===========================================================================
