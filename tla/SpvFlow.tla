------------------------------- MODULE SpvFlow -------------------------------
(***************************************************************************)
(* The control flow of one function on its way to SPIR-V: the traverser     *)
(* visits the statements (visitSelection, visitSwitch, visitLoop,           *)
(* visitBranch) and drives the builder (blocks, build point, the stacks of  *)
(* loops and of switches); then what cannot be reached is cut out           *)
(* (postProcessCFG) and the blocks are written in readable order.           *)
(***************************************************************************)
EXTENDS GlslStatements, ReadableOrder

VARIABLES phase,           \* "parse", "visit", "built", "processed"
          at,              \* the next token to visit
          builder,         \* blocks, those added to the function, build point, loops, switchMerges
          breakForLoop,    \* TGlslangToSpvTraverser: what a break leaves
          nodes,           \* the locals of the visits under way, one record per open construct
          unreachableDefinitions,
          dumped           \* the blocks written, in order

flowVars == <<phase, at, builder, breakForLoop, nodes, unreachableDefinitions, dumped>>
vars == <<parserVars, flowVars>>

(***************************************************************************)
(* The builder.  Every operation takes a builder and returns the next one.  *)
(***************************************************************************)
EmptyBlock == [inst |-> <<>>, succ |-> <<>>]
NextBlock(b) == Len(b.blocks) + 1

\* new Block: allocated, not in the function yet.
Allocate(b) == [b EXCEPT !.blocks = Append(@, EmptyBlock)]
AddBlock(b, x) == [b EXCEPT !.inFunction = Append(@, x)]
MakeNewBlock(b) == AddBlock(Allocate(b), NextBlock(b))
SetBuildPoint(b, x) == [b EXCEPT !.buildPoint = x]

AddInstruction(b, i) == [b EXCEPT !.blocks[b.buildPoint].inst = Append(@, i)]
AddEdge(b, x) == [b EXCEPT !.blocks[b.buildPoint].succ = Append(@, x)]

Terminators == {"branch", "branchConditional", "switch", "return", "discard", "exit", "unreachable"}
IsTerminated(b) ==
    LET inst == b.blocks[b.buildPoint].inst
    IN  inst # <<>> /\ inst[Len(inst)].op \in Terminators

CreateBranch(b, x) == AddEdge(AddInstruction(b, [op |-> "branch", to |-> x]), x)
CreateConditionalBranch(b, negated, then, else) ==
    AddEdge(AddEdge(AddInstruction(b, [op |-> "branchConditional", negated |-> negated,
                                       then |-> then, else |-> else]), then), else)
CreateSelectionMerge(b, merge) ==
    AddInstruction(b, [op |-> "selectionMerge", merge |-> merge])
CreateLoopMerge(b, merge, continue) ==
    AddInstruction(b, [op |-> "loopMerge", merge |-> merge, continue |-> continue])

\* The block for what follows a jump: nothing branches to it.
StayInBlock(b) == b
CreateAndSetNoPredecessorBlock(b) == SetBuildPoint(MakeNewBlock(b), NextBlock(b))

\* Builder::If
IfBegin(b) ==
    LET then == NextBlock(b)
        allocated == Allocate(Allocate(b))
    IN  SetBuildPoint(AddBlock(CreateSelectionMerge(allocated, then + 1), then), then)
IfLocals(b, negated) ==
    [header |-> b.buildPoint, then |-> NextBlock(b), merge |-> NextBlock(b) + 1,
     else |-> 0, negated |-> negated]
MakeBeginElse(b, if) ==
    LET closed == CreateBranch(b, if.merge)
    IN  SetBuildPoint(MakeNewBlock(closed), NextBlock(b))
MakeEndIf(b, if) ==
    LET closed == CreateBranch(b, if.merge)
        split == CreateConditionalBranch(SetBuildPoint(closed, if.header), if.negated, if.then,
                                         IF if.else # 0 THEN if.else ELSE if.merge)
    IN  SetBuildPoint(AddBlock(split, if.merge), if.merge)

\* makeSwitch: segment s has the block first + s - 1, the merge block comes after them.
MakeSwitch(b, segments, cases, default) ==
    LET first == NextBlock(b)
        merge == first + segments
        allocated == [b EXCEPT !.blocks = @ \o [s \in 1..(segments + 1) |-> EmptyBlock]]
        other == IF default # 0 THEN first + default - 1 ELSE merge
        targets == [i \in 1..Len(cases) |-> [value |-> cases[i].value,
                                             to |-> first + cases[i].segment - 1]]
        switched == AddInstruction(CreateSelectionMerge(allocated, merge),
                                   [op |-> "switch", default |-> other, cases |-> targets])
    IN  [switched EXCEPT
           !.blocks[b.buildPoint].succ = @ \o <<other>> \o [i \in 1..Len(targets) |-> targets[i].to],
           !.switchMerges = Append(@, merge)]
AddSwitchBreak(b) == CreateAndSetNoPredecessorBlock(CreateBranch(b, Top(b.switchMerges)))
NextSwitchSegment(b, first, s) ==
    LET closed == IF s > 1 /\ ~IsTerminated(b) THEN CreateBranch(b, first + s - 1) ELSE b
    IN  SetBuildPoint(AddBlock(closed, first + s - 1), first + s - 1)
EndSwitchBlocks(b) ==
    LET closed == IF IsTerminated(b) THEN b ELSE AddSwitchBreak(b)
        merge == Top(b.switchMerges)
    IN  [SetBuildPoint(AddBlock(closed, merge), merge) EXCEPT !.switchMerges = Popped(@)]

MakeNewLoop(b) ==
    LET head == NextBlock(b)
        made == MakeNewBlock(MakeNewBlock(MakeNewBlock(MakeNewBlock(b))))
    IN  [made EXCEPT !.loops = Append(@, [head |-> head, body |-> head + 1,
                                          merge |-> head + 2, continue |-> head + 3])]
CloseLoop(b) == [b EXCEPT !.loops = Popped(@)]
ContinueToHead(b) == CreateAndSetNoPredecessorBlock(CreateBranch(b, Top(b.loops).head))
CreateLoopContinue(b) == CreateAndSetNoPredecessorBlock(CreateBranch(b, Top(b.loops).continue))
CreateLoopExit(b) == CreateAndSetNoPredecessorBlock(CreateBranch(b, Top(b.loops).merge))
MakeReturn(b, p) ==
    CreateAndSetNoPredecessorBlock(AddInstruction(b, [op |-> "return", p |-> p]))
MakeStatementTerminator(b, p) ==
    CreateAndSetNoPredecessorBlock(AddInstruction(b, [op |-> "discard", p |-> p]))

(***************************************************************************)
(* The traverser.                                                           *)
(***************************************************************************)
Evaluate(b, what, p) == AddInstruction(b, [op |-> what, p |-> p])

\* Traversing the condition of token p: createShortCircuit for && and ||, where the
\* right operand is in an if of its own and a phi joins the two.
TraverseCondition(b, p) ==
    LET left == Evaluate(b, "left", p)
        if == IfLocals(left, source[p].op = "or")
        right == Evaluate(IfBegin(left), "right", p)
    IN  IF source[p].op = "plain" THEN left
        ELSE AddInstruction(MakeEndIf(right, if), [op |-> "phi", p |-> p])

\* The code segments of switch p: the runs of statements between labels.
SegmentStarts(p) ==
    {i \in p..EndOf(p) : /\ source[i].in = p /\ source[i].k # "label"
                         /\ source[i - 1].k = "label" /\ source[i - 1].in = p}
Segment(p, i) == Cardinality({j \in SegmentStarts(p) : j < i}) + 1
CaseLabels(p) == {i \in LabelsOf(p) : source[i].value # Default}
CaseList(p) ==
    LET nth(n) == CHOOSE i \in CaseLabels(p) : Cardinality({j \in CaseLabels(p) : j <= i}) = n
    IN  [n \in 1..Cardinality(CaseLabels(p)) |->
           [value |-> source[nth(n)].value, segment |-> Segment(p, nth(n))]]
DefaultSegment(p) ==
    LET d == LabelsOf(p) \ CaseLabels(p)
    IN  IF d = {} THEN 0 ELSE Segment(p, CHOOSE i \in d : TRUE)

Visiting(kind) == phase = "visit" /\ at <= Len(source) /\ source[at].k = kind
Advance == at' = at + 1 /\ UNCHANGED <<parserVars, phase, unreachableDefinitions, dumped>>
Ends(kind) == Visiting("end") /\ source[source[at].of].k = kind

FlowInit ==
    /\ phase = "parse"
    /\ at = 1
    /\ builder = [blocks |-> <<EmptyBlock>>, inFunction |-> <<1>>, buildPoint |-> 1,
                  loops |-> <<>>, switchMerges |-> <<>>]
    /\ breakForLoop = <<>>
    /\ nodes = <<>>
    /\ unreachableDefinitions = {}
    /\ dumped = <<>>

Parse == phase = "parse" /\ ReadToken /\ UNCHANGED flowVars

\* The body is complete and without errors: its tree is handed to the traverser.
EndOfBody ==
    /\ phase = "parse" /\ opened = <<>> /\ accepted
    /\ phase' = "visit"
    /\ UNCHANGED <<parserVars, at, builder, breakForLoop, nodes, unreachableDefinitions, dumped>>

VisitExpression ==
    /\ Visiting("expr")
    /\ builder' = Evaluate(builder, "expr", at)
    /\ Advance /\ UNCHANGED <<breakForLoop, nodes>>

VisitSelection ==
    /\ Visiting("if")
    /\ LET b == TraverseCondition(builder, at) IN
         /\ builder' = IfBegin(b)
         /\ nodes' = Append(nodes, IfLocals(b, FALSE))
    /\ Advance /\ UNCHANGED breakForLoop

\* An else without statements is no false block.
VisitFalseBlock ==
    /\ Visiting("else")
    /\ IF source[at + 1].k = "end" THEN UNCHANGED <<builder, nodes>>
       ELSE /\ builder' = MakeBeginElse(builder, Top(nodes))
            /\ nodes' = [nodes EXCEPT ![Len(nodes)].else = NextBlock(builder)]
    /\ Advance /\ UNCHANGED breakForLoop

LeaveSelection ==
    /\ Ends("if")
    /\ builder' = MakeEndIf(builder, Top(nodes))
    /\ nodes' = Popped(nodes)
    /\ Advance /\ UNCHANGED breakForLoop

\* A switch without labels is only its selector (addSwitch).
VisitSwitch ==
    /\ Visiting("switch")
    /\ LET b == Evaluate(builder, "select", at) IN
       IF LabelsOf(at) = {} THEN builder' = b /\ UNCHANGED <<breakForLoop, nodes>>
       ELSE /\ builder' = MakeSwitch(b, Cardinality(SegmentStarts(at)), CaseList(at),
                                     DefaultSegment(at))
            /\ nodes' = Append(nodes, [first |-> NextBlock(b)])
            /\ breakForLoop' = Append(breakForLoop, FALSE)
    /\ Advance

VisitSegment ==
    /\ Visiting("label")
    /\ LET p == source[at].in IN
       builder' = IF at + 1 \in SegmentStarts(p)
                  THEN NextSwitchSegment(builder, Top(nodes).first, Segment(p, at + 1))
                  ELSE builder
    /\ Advance /\ UNCHANGED <<breakForLoop, nodes>>

LeaveSwitch ==
    /\ Ends("switch")
    /\ IF LabelsOf(source[at].of) = {} THEN UNCHANGED <<builder, breakForLoop, nodes>>
       ELSE /\ breakForLoop' = Popped(breakForLoop)
            /\ builder' = EndSwitchBlocks(builder)
            /\ nodes' = Popped(nodes)
    /\ Advance

TestAtHead(t) == t.first /\ t.test

VisitLoop ==
    /\ Visiting("loop")
    /\ LET made == MakeNewLoop(builder)
           l == Top(made.loops)
           head == CreateLoopMerge(SetBuildPoint(CreateBranch(made, l.head), l.head),
                                   l.merge, l.continue)
           test == SetBuildPoint(CreateBranch(MakeNewBlock(head), NextBlock(head)), NextBlock(head))
           tested == CreateConditionalBranch(TraverseCondition(test, at), FALSE, l.body, l.merge)
       IN  builder' = SetBuildPoint(IF TestAtHead(source[at]) THEN tested
                                    ELSE CreateBranch(head, l.body), l.body)
    /\ breakForLoop' = Append(breakForLoop, TRUE)
    /\ Advance /\ UNCHANGED nodes

LeaveLoop ==
    /\ Ends("loop")
    /\ LET p == source[at].of
           l == Top(builder.loops)
           continue == SetBuildPoint(CreateBranch(builder, l.continue), l.continue)
           term == IF source[p].term THEN Evaluate(continue, "term", p) ELSE continue
           back == IF source[p].test /\ ~TestAtHead(source[p])
                   THEN CreateConditionalBranch(TraverseCondition(term, p), FALSE, l.head, l.merge)
                   ELSE CreateBranch(term, l.head)
       IN  builder' = CloseLoop(SetBuildPoint(back, l.merge))
    /\ breakForLoop' = Popped(breakForLoop)
    /\ Advance /\ UNCHANGED nodes

VisitBranch ==
    /\ \/ /\ Visiting("break")
          /\ builder' = IF Top(breakForLoop) THEN CreateLoopExit(builder) ELSE AddSwitchBreak(builder)
       \/ Visiting("continue") /\ builder' = CreateLoopContinue(builder)
       \/ Visiting("return") /\ builder' = MakeReturn(builder, at)
       \/ Visiting("discard") /\ builder' = MakeStatementTerminator(builder, at)
    /\ Advance /\ UNCHANGED <<breakForLoop, nodes>>

LeaveFunction ==
    /\ phase = "visit" /\ at = Len(source) + 1
    /\ builder' = IF IsTerminated(builder) THEN builder ELSE AddInstruction(builder, [op |-> "exit"])
    /\ phase' = "built"
    /\ UNCHANGED <<parserVars, at, breakForLoop, nodes, unreachableDefinitions, dumped>>

(***************************************************************************)
(* postProcessCFG and dump.                                                 *)
(***************************************************************************)
\* What an instruction defines: a decoration names it.
Definitions(inst) == {<<inst[i].op, inst[i].p>> : i \in {j \in 1..Len(inst) :
                         inst[j].op \in {"expr", "left", "right", "select", "term", "phi"}}}

\* A dead merge block keeps its label and is unreachable; a dead continue target
\* branches back to its header.
CanonicalMerge(block) == [inst |-> <<[op |-> "unreachable"]>>, succ |-> <<>>]
CanonicalContinue(block, header) ==
    [inst |-> <<[op |-> "branch", to |-> header]>>, succ |-> <<header>>]

LeaveAsIs(order, x, block) == block
CutOut(order, x, block) ==
    LET entry == order[Place(order, x)]
    IN  CASE x \notin BlocksOf(order) -> block
          [] entry.why = "flow" -> block
          [] entry.why = "deadMerge" -> CanonicalMerge(block)
          [] entry.why = "deadContinue" -> CanonicalContinue(block, entry.header)
ReachedByFlow(order) == {order[i].block : i \in {j \in 1..Len(order) : order[j].why = "flow"}}
InFunction(b) == {b.inFunction[i] : i \in 1..Len(b.inFunction)}

PostProcessCFG ==
    /\ phase = "built"
    /\ \E order \in {InReadableOrder(builder.blocks)} :
         /\ unreachableDefinitions' =
              UNION {Definitions(builder.blocks[x].inst) :
                       x \in InFunction(builder) \ ReachedByFlow(order)}
         /\ builder' = [builder EXCEPT !.blocks =
                          [x \in 1..Len(@) |-> CutOut(order, x, @[x])]]
    /\ phase' = "processed"
    /\ UNCHANGED <<parserVars, at, breakForLoop, nodes, dumped>>

Dump ==
    /\ phase = "processed" /\ dumped = <<>>
    /\ dumped' = InReadableOrder(builder.blocks)
    /\ UNCHANGED <<parserVars, phase, at, builder, breakForLoop, nodes, unreachableDefinitions>>

Init == ParserInit /\ FlowInit

Next ==
    \/ Parse \/ EndOfBody
    \/ VisitExpression \/ VisitSelection \/ VisitFalseBlock \/ LeaveSelection
    \/ VisitSwitch \/ VisitSegment \/ LeaveSwitch
    \/ VisitLoop \/ LeaveLoop \/ VisitBranch \/ LeaveFunction
    \/ PostProcessCFG \/ Dump

Spec == Init /\ [][Next]_vars

(***************************************************************************)
(* Properties of the function written.                                      *)
(***************************************************************************)
Written == dumped # <<>>
WrittenBlocks == BlocksOf(dumped)
Inst(x) == builder.blocks[x].inst
Observed == {"expr", "left", "right", "select", "term", "return", "discard"}

\* Running the blocks from instruction i of block x: the next thing observed.  o is
\* what the last observation came out as, which is what every condition met on the
\* way is made of.
RECURSIVE Run(_, _, _, _)
Run(steps, x, i, o) ==
    IF steps = 0 THEN <<"spin">>
    ELSE IF x \notin WrittenBlocks \/ i > Len(Inst(x)) THEN <<"lost">>
    ELSE LET c == Inst(x)[i] IN
      CASE c.op \in Observed -> <<c.op, c.p>>
        [] c.op \in MergeOps \cup {"phi"} -> Run(steps, x, i + 1, o)
        [] c.op = "branch" -> Run(steps - 1, c.to, 1, o)
        [] c.op = "branchConditional" ->
             Run(steps - 1, IF o # c.negated THEN c.then ELSE c.else, 1, o)
        [] c.op = "switch" ->
             LET hit == {n \in 1..Len(c.cases) : c.cases[n].value = o}
             IN  Run(steps - 1, IF hit = {} THEN c.default
                                ELSE c.cases[CHOOSE n \in hit : TRUE].to, 1, o)
        [] c.op = "exit" -> <<"exit">>
        [] c.op = "unreachable" -> <<"lost">>

Observations == {<<x, i>> \in WrittenBlocks \X (1..(3 * MaxStatements + 4)) :
                    i <= Len(Inst(x)) /\ Inst(x)[i].op \in Observed}

(***************************************************************************)
(* The function does what the body says: it begins with the same thing      *)
(* observed, and after each thing observed, whatever it came out as, the    *)
(* same thing is next.  It involves every jump, the blocks made for what    *)
(* follows a jump, the joins, and the blocks cut out.                       *)
(***************************************************************************)
SameFlow ==
    Written =>
      LET steps == Len(builder.blocks) + 1 IN
      /\ Run(steps, 1, 1, "done") = Arrive(1)
      /\ \A w \in Observations :
           LET c == Inst(w[1])[w[2]]
               seen == <<c.op, c.p>>
           IN  \A o \in Outcomes(seen) : Run(steps, w[1], w[2] + 1, o) = After(seen, o)

(***************************************************************************)
(* The blocks are what SPIR-V asks of a function: each is written once, was *)
(* put into the function once, has one terminator, at its end, and targets  *)
(* that are written; a merge block and a continue target belong to one      *)
(* header; only a loop header is the target of an edge back, and of exactly *)
(* one; a block comes before those it dominates; and (the order's own       *)
(* promise) a construct is not interrupted: what lies between a header and  *)
(* its merge block is written between them.                                 *)
(***************************************************************************)
WellFormed ==
    Written =>
      \A dominated \in {[x \in WrittenBlocks |-> Dominated(builder.blocks, x)]},
         place \in {[x \in WrittenBlocks |-> Place(dumped, x)]} :
      LET B == builder.blocks
          headers == {x \in WrittenBlocks : HasMerge(B[x])}
          \* edges back: to a block that dominates their origin, or from a dead continue target
          backTo(h) == {x \in WrittenBlocks : /\ h \in Successors(B, x)
                                              /\ x \in dominated[h] \/ x \notin dominated[1]}
      IN
      /\ Len(dumped) = Cardinality(WrittenBlocks)
      /\ \A x \in WrittenBlocks :
           /\ Cardinality({i \in 1..Len(builder.inFunction) : builder.inFunction[i] = x}) = 1
           /\ {i \in 1..Len(Inst(x)) : Inst(x)[i].op \in Terminators} = {Len(Inst(x))}
           /\ Successors(B, x) \cup Delayed(B[x]) \subseteq WrittenBlocks
           /\ Cardinality(backTo(x)) =
                IF HasMerge(B[x]) /\ MergeInstruction(B[x]).op = "loopMerge" THEN 1 ELSE 0
           /\ \A y \in dominated[x] : place[x] <= place[y]
      /\ \A h, g \in headers : h # g => Delayed(B[h]) \cap Delayed(B[g]) = {}
      /\ \A h \in headers :
           LET m == MergeInstruction(B[h]).merge
               outer == UNION {Delayed(B[g]) : g \in {g \in headers \ {h} : h \in dominated[g]}}
           IN  \A y \in ReachedFrom(B, {h}, outer \cup {m}) :
                 place[h] <= place[y] /\ place[y] < place[m]

SourceDefinitions ==
    UNION {LET t == source[i]
               condition == {<<"left", i>>} \cup
                            (IF t.op = "plain" THEN {} ELSE {<<"right", i>>, <<"phi", i>>})
           IN  CASE t.k = "expr" -> {<<"expr", i>>}
                 [] t.k = "if" -> condition
                 [] t.k = "switch" -> {<<"select", i>>}
                 [] t.k = "loop" -> (IF t.test THEN condition ELSE {}) \cup
                                    (IF t.term THEN {<<"term", i>>} ELSE {})
                 [] OTHER -> {} : i \in 1..Len(source)}

(***************************************************************************)
(* A decoration is dropped exactly if the instruction it names is: the      *)
(* definitions called unreachable by the first traversal are those that the *)
(* second one, over blocks that were rewritten meanwhile, does not write.   *)
(***************************************************************************)
DecorationsFollow ==
    Written =>
      unreachableDefinitions =
        SourceDefinitions \ UNION {Definitions(Inst(x)) : x \in WrittenBlocks}
===========================================================================
