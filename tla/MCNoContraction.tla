--------------------------- MODULE MCNoContraction ----------------------------
(* Bodies of up to three statements on scalars a and b, structures s and t of *)
(* two members, a structure u with an s in it, and a block k, some of them    *)
(* precise.  Definitions are looked up by object, so that their order is of   *)
(* no account.                                                                *)
EXTENDS NoContraction

Expression(op, operands) == [op |-> op, operands |-> operands]
Variable(name) == [op |-> "symbol", operands |-> <<>>, name |-> name]
MemberOf(e, m) == [op |-> "member", operands |-> <<e>>, member |-> m]
Component(e) == Expression("component", <<e>>)
Assignment(left, right) == Expression("assign", <<left, right>>)
Times(left, right) == Expression("multiply", <<left, right>>)
Return(e, precise) == [op |-> "return", operands |-> <<e>>, precise |-> precise]

Statements ==
  LET a == Variable("a") b == Variable("b")
      s == Variable("s") t == Variable("t") u == Variable("u")
      k == Variable("k") IN
  {Assignment(a, b), Assignment(b, Times(a, b)), Assignment(Component(a), Times(b, MemberOf(s, 1))),
   Assignment(MemberOf(s, 1), Times(a, b)), Assignment(MemberOf(s, 2), Expression("negate", <<b>>)),
   Expression("multiplyAssign", <<MemberOf(s, 2), a>>), Expression("increment", <<b>>),
   Assignment(s, t), Assignment(t, Assignment(s, t)), Assignment(t, MemberOf(u, 2)), Assignment(MemberOf(u, 2), s),
   Assignment(s, Expression("struct", <<Times(a, a), Times(b, b)>>)),
   Assignment(u, Expression("struct", <<Times(b, a), Expression("struct", <<b, Times(a, b)>>)>>)),
   Assignment(a, MemberOf(MemberOf(u, 2), 1)), Assignment(MemberOf(MemberOf(u, 2), 2), Times(a, b)),
   Assignment(MemberOf(t, 1), Assignment(b, Times(a, Component(a)))),
   Assignment(MemberOf(k, 1), Times(MemberOf(s, 1), MemberOf(k, 2))), Assignment(MemberOf(k, 2), Times(b, b)),
   Return(Times(a, MemberOf(s, 1)), TRUE), Return(Times(b, b), FALSE)}

\* A component of what an operation gives: see DereferencesMarked.
OfAnOperation == Assignment(Component(Variable("a")), Component(Times(Variable("a"), Variable("b"))))

DeclaredSets == {{}, {<<"a">>}, {<<"k", 1>>}, {<<"t">>}, {<<"b">>, <<"u">>}}

InitPrecise ==
  /\ statements \in {SetToSeq(chosen) : chosen \in kSubset(3, Statements) \cup kSubset(2, Statements)}
  /\ declared \in DeclaredSets
  /\ Collect

InitDereference ==
  /\ statements = <<OfAnOperation>> /\ declared = {<<"a">>}
  /\ Collect

MCPreciseSpec == (InitPrecise \/ InitDereference) /\ [][PropagateNext]_preciseVars
===============================================================================
