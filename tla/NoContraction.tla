--------------------------- MODULE NoContraction ---------------------------
(***************************************************************************)
(* propagateNoContraction.cpp, run on the tree of a unit when its parse     *)
(* ends: which operations must not be contracted because a precise object   *)
(* or a precise result depends on them.                                     *)
(*                                                                          *)
(* An expression is a record of its operator, its operands and, for a       *)
(* symbol or a member, which.  A node is told by its address: the number of *)
(* the statement and the way down.  An object is an access chain: a symbol  *)
(* and the members that lead to the object; elements and components are the *)
(* same object as what they are in.  (The code joins a chain to a string and *)
(* compares prefixes of strings: members are fewer than eleven here.)       *)
(***************************************************************************)
EXTENDS Naturals, Sequences, SequencesExt

VARIABLES
  statements,            \* the tree: a sequence of expressions
  declared,              \* the objects declared precise
  noContraction,         \* the nodes whose type has the qualifier
  preciseReturnNodes,    \* work list of returns
  preciseObjects,        \* work list of objects
  addedPreciseObjectIds  \* objects the propagator put there

treeVars == <<statements, declared>>
preciseVars == <<treeVars, noContraction, preciseReturnNodes, preciseObjects, addedPreciseObjectIds>>

IsDereference(op) == op \in {"member", "component"}
IsAssign(op) == op \in {"assign", "multiplyAssign", "increment"}
IsArithmetic(op) == op \in {"multiply", "negate", "multiplyAssign", "increment"}

----------------------------------------------------------------------------
(* The collector.  current_object_ after a visit: dereferences extend the   *)
(* chain of what is below them, and nothing else resets it but a unary node. *)

RECURSIVE CurrentObject(_)
CurrentObject(e) ==
  CASE e.op = "symbol" -> <<e.name>>
    [] e.op = "member" -> Append(CurrentObject(e.operands[1]), e.member)
    [] e.op = "component" -> CurrentObject(e.operands[1])
    [] e.op \in {"negate", "increment"} -> <<>>
    [] OTHER -> CurrentObject(Last(e.operands))

\* The nodes under an expression.  A return is looked into only if the result of
\* its function is precise.
RECURSIVE NodesUnder(_, _)
NodesUnder(e, at) ==
  {[e |-> e, at |-> at]} \cup
  (IF e.op = "return" /\ ~e.precise THEN {}
   ELSE UNION {NodesUnder(e.operands[i], Append(at, i)) : i \in DOMAIN e.operands})

ExpressionNodes == UNION {NodesUnder(statements[i], <<i>>) : i \in DOMAIN statements}
Assignee(n) == [e |-> n.e.operands[1], at |-> Append(n.at, 1)]
DefiningNodes == {n \in ExpressionNodes : IsAssign(n.e.op)}

RECURSIVE IsObject(_)
IsObject(e) == e.op = "symbol" \/ (IsDereference(e.op) /\ IsObject(e.operands[1]))

\* The parser gives a dereference the qualifier of its symbol, of its member or
\* of what it is in.
DeclaredNodes ==
  {n.at : n \in {m \in ExpressionNodes : IsObject(m.e) /\ \E d \in declared : IsPrefix(d, CurrentObject(m.e))}}

Collect ==
  /\ noContraction = DeclaredNodes
  /\ preciseObjects = {CurrentObject(Assignee(n).e) : n \in {m \in DefiningNodes : Assignee(m).at \in DeclaredNodes}}
  /\ preciseReturnNodes = {n \in ExpressionNodes : n.e.op = "return" /\ n.e.precise}
  /\ addedPreciseObjectIds = {}

----------------------------------------------------------------------------
(* The check of an assignee: the nodes on the way down to its symbol become *)
(* precise from the object up; it is precise, holds the object, or neither. *)

RECURSIVE WayDown(_)
WayDown(n) == {n} \cup (IF n.e.op = "symbol" THEN {} ELSE WayDown(Assignee(n)))

NewlyPrecise(n, object) ==
  {m.at : m \in {k \in WayDown(n) :
     \E below \in WayDown(k) : below.at \in noContraction \/ CurrentObject(below.e) = object}}

\* What of the assignee is precise: the remaining access chain.
Remained(n, object) ==
  LET assignee == CurrentObject(n.e) IN
  IF n.at \in NewlyPrecise(n, object) \/ IsPrefix(object, assignee) THEN <<>>
  ELSE SubSeq(object, Len(assignee) + 1, Len(object))
ContainsPrecise(n, object) ==
  \/ n.at \in NewlyPrecise(n, object)
  \/ IsPrefix(object, CurrentObject(n.e)) \/ IsPrefix(CurrentObject(n.e), object)

----------------------------------------------------------------------------
(* The propagator: operations become precise, and the objects at the top of *)
(* the expression are found, with what remains of the chain after them.     *)

Found(nodes, objects) == [nodes |-> nodes, objects |-> objects]
Both(found) == Found(UNION {f.nodes : f \in found}, UNION {f.objects : f \in found})

WholeChain(chain, path) == chain
ChainIn(chain, path) == chain \o path

RECURSIVE Propagated(_, _)
Propagated(n, path) ==
  LET operand(i) == [e |-> n.e.operands[i], at |-> Append(n.at, i)] IN
  CASE n.e.op = "symbol" \/ IsDereference(n.e.op) ->
         Found(IF path = <<>> THEN {n.at} ELSE {}, {ChainIn(CurrentObject(n.e), path)})
    [] n.e.op = "struct" /\ path # <<>> -> Propagated(operand(Head(path)), Tail(path))
    [] OTHER ->
         Both({Found(IF IsArithmetic(n.e.op) THEN {n.at} ELSE {}, {})} \cup
              {Propagated(operand(i), path) : i \in DOMAIN n.e.operands})

\* From a definition: its right side, or the operand of an increment.
FromDefinition(n, path) ==
  Both({Found(IF IsArithmetic(n.e.op) THEN {n.at} ELSE {}, {}),
        Propagated([e |-> Last(n.e.operands), at |-> Append(n.at, Len(n.e.operands))], path)})

\* The front element of the chain selects the definitions to look at.
DefinitionsOf(object) == {n \in DefiningNodes : object # <<>> /\ CurrentObject(Assignee(n).e)[1] = object[1]}

Enlist(found, done) ==
  /\ preciseObjects' = (preciseObjects \cup (found.objects \ addedPreciseObjectIds)) \ done
  /\ addedPreciseObjectIds' = addedPreciseObjectIds \cup found.objects

PropagateReturn(n) ==
  LET found == Propagated(Assignee(n), <<>>) IN
  /\ preciseReturnNodes' = preciseReturnNodes \ {n}
  /\ noContraction' = noContraction \cup found.nodes
  /\ Enlist(found, {})
  /\ UNCHANGED treeVars

PropagateObject(object) ==
  LET definitions == DefinitionsOf(object)
      defining == {n \in definitions : ContainsPrecise(Assignee(n), object)}
      found == Both({FromDefinition(n, Remained(Assignee(n), object)) : n \in defining})
  IN
  /\ preciseReturnNodes = {}
  /\ noContraction' = noContraction \cup found.nodes
                        \cup UNION {NewlyPrecise(Assignee(n), object) : n \in definitions}
  /\ Enlist(found, {object})
  /\ UNCHANGED <<treeVars, preciseReturnNodes>>

\* Sets of pointers and strings: any element may be the first.
PropagateNext ==
  \/ \E n \in preciseReturnNodes : PropagateReturn(n)
  \/ \E object \in preciseObjects : PropagateObject(object)

NoContractionSpec == Collect /\ [][PropagateNext]_preciseVars

----------------------------------------------------------------------------
(* What depends on what, by the places that hold values: the least set of   *)
(* places that what is precise depends on, and the operations on the way.   *)
(* A place is an object; the value of an assignment is read from its target. *)

RECURSIVE SourcesOf(_, _)
SourcesOf(n, path) ==
  LET operand(i) == [e |-> n.e.operands[i], at |-> Append(n.at, i)] IN
  CASE IsObject(n.e) -> Found({}, {CurrentObject(n.e) \o path})
    [] n.e.op = "member" -> SourcesOf(operand(1), <<n.e.member>> \o path)
    [] n.e.op = "struct" /\ path # <<>> -> SourcesOf(operand(Head(path)), Tail(path))
    [] OTHER -> Both({Found(IF IsArithmetic(n.e.op) THEN {n.at} ELSE {}, {})} \cup
                     {SourcesOf(operand(i), path) : i \in DOMAIN n.e.operands})

\* What the value of `place` depends on directly, through one definition.
Through(n, place) ==
  LET target == CurrentObject(Assignee(n).e)
      right == [e |-> Last(n.e.operands), at |-> Append(n.at, Len(n.e.operands))]
      path == IF Len(place) > Len(target) THEN SubSeq(place, Len(target) + 1, Len(place)) ELSE <<>>
  IN  IF IsPrefix(target, place) \/ IsPrefix(place, target)
      THEN Both({Found(IF IsArithmetic(n.e.op) THEN {n.at} ELSE {}, {}), SourcesOf(right, path)})
      ELSE Found({}, {})

RECURSIVE Needed(_)
Needed(found) ==
  LET next == Both({found} \cup {Through(n, place) : n \in DefiningNodes, place \in found.objects})
  IN  IF next = found THEN found ELSE Needed(next)

Start ==
  Both({Found({}, declared)} \cup
       {SourcesOf(Assignee(n), <<>>) : n \in {m \in ExpressionNodes : m.e.op = "return" /\ m.e.precise}})

Finished == preciseReturnNodes = {} /\ preciseObjects = {}
Operations == {n.at : n \in {m \in ExpressionNodes : IsArithmetic(m.e.op)}}

\* Whatever order the work lists are taken in: once they are empty, just the
\* operations are marked that something precise depends on, through
\* assignments to it, to what it is in or to its members, nested assignments,
\* constructors and returns.  Dereferences of what is not an object are left
\* out (see DereferencesMarked).
PreciseExactly ==
  Finished /\ (\A n \in ExpressionNodes : IsDereference(n.e.op) => IsObject(n.e))
    => noContraction \cap Operations = Needed(Start).nodes

\* "add 'noContraction' qualifier for the involved arithmetic operations"
\* (propagateNoContraction.h:48): also if a component of what they give is used.
DereferencesMarked == Finished => Needed(Start).nodes \subseteq noContraction
=============================================================================
