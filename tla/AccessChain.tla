---------------------------- MODULE AccessChain ----------------------------
(***************************************************************************)
(* SPIRV/SpvBuilder and the traverser of GlslangToSpv that uses it: the one *)
(* active access chain.  A dereference is pushed on it as an index, a       *)
(* swizzle or a dynamic component; what cannot become part of an address is *)
(* kept pending until a load or a store.  Users save the chain and restore  *)
(* it while they evaluate something else.                                   *)
(*                                                                          *)
(* The code is straight-line, so that an instruction is executed when it is *)
(* emitted: a constant and an id are the values they have, an address is    *)
(* the sequence of its indices, a value maps each place in its type to a    *)
(* scalar.  A type is the sequence of its sizes, the vector's last: <<2, 3>> *)
(* is an array, a matrix or a structure of two vectors of three.            *)
(*                                                                          *)
(* `meaning` is the history: what the dereferences of GLSL select, what the *)
(* object should hold and what the last expression should have given.       *)
(***************************************************************************)
EXTENDS Naturals, Sequences, SequencesExt, FiniteSets

CONSTANTS
  ObjectTypes,        \* types of the object
  Swizzles,     \* the selectors of swizzles, each a sequence of components
  MaxPushes,    \* bound: dereferences in one statement
  MaxInCall     \* bound: those in the arguments of one call

\* A vector has two components or more.
ASSUME TypesAssumption ==
  \A t \in ObjectTypes : t \in Seq(Nat \ {0}) /\ (t # <<>> => t[Len(t)] > 1)
ASSUME SwizzlesAssumption == Swizzles \subseteq Seq(Nat)

VARIABLES
  type,         \* of the object
  object,       \* what it holds
  accessChain,
  lValues,      \* chains saved: the target of an assignment, the l-value arguments of a call
  rValues,      \* the r-value arguments of a call
  qualifiers,   \* of the parameters, as arguments are evaluated
  result,       \* of the last expression, or the arguments a callee saw
  meaning,      \* [selected, base, object, result, arguments, late]
  pushes, doing \* the number of dereferences; what the statement is

chainVars == <<type, object, accessChain, lValues, rValues, qualifiers, result, meaning, pushes, doing>>

Places(t) == {p \in [1..Len(t) -> UNION {0 .. t[k] - 1 : k \in 1..Len(t)}] :
                \A k \in 1..Len(t) : p[k] < t[k]}
NumComponents(t) == IF t = <<>> THEN 1 ELSE t[1]
At(value, path) ==
  [p \in {SubSeq(q, Len(path) + 1, Len(q)) : q \in {r \in DOMAIN value : IsPrefix(path, r)}} |->
     value[path \o p]]

----------------------------------------------------------------------------
(* The chain.                                                              *)

NoType == <<>>
NoInstr == <<>>
Constant(i) == [constant |-> TRUE, value |-> i]
Dynamic(i) == [constant |-> FALSE, value |-> i]
NoComponent == Constant(0)       \* a component is always dynamic

\* clearAccessChain, then setAccessChainLValue or setAccessChainRValue.
Cleared(isRValue, base) ==
  [base |-> base, indexChain |-> <<>>, instr |-> NoInstr, swizzle |-> <<>>,
   component |-> NoComponent, preSwizzleBaseType |-> NoType, isRValue |-> isRValue]

SimplifySwizzle(c) ==
  IF \/ c.preSwizzleBaseType[1] > Len(c.swizzle)
     \/ \E i \in 1..Len(c.swizzle) : c.swizzle[i] # i - 1
  THEN c
  ELSE [c EXCEPT !.swizzle = <<>>,
                 !.preSwizzleBaseType = IF c.component = NoComponent THEN NoType ELSE @]

Stacked(old, new) ==
  IF old = <<>> THEN new ELSE [i \in 1..Len(new) |-> old[new[i] + 1]]

PushSwizzle(c, s, t) ==
  SimplifySwizzle([c EXCEPT !.preSwizzleBaseType = IF @ = NoType THEN t ELSE @,
                            !.swizzle = Stacked(@, s)])

PushComponent(c, i, t) ==
  IF Len(c.swizzle) = 1 THEN c
  ELSE [c EXCEPT !.component = Dynamic(i),
                 !.preSwizzleBaseType = IF @ = NoType THEN t ELSE @]

\* To the extent a swizzle can be an index, make it one.
TransferSwizzle(c, dynamic) ==
  IF Len(c.swizzle) = 1
  THEN [c EXCEPT !.indexChain = Append(@, Constant(c.swizzle[1])), !.swizzle = <<>>,
                 !.preSwizzleBaseType = NoType]
  ELSE IF c.swizzle = <<>> /\ dynamic /\ c.component # NoComponent
  THEN [c EXCEPT !.indexChain = Append(@, c.component), !.component = NoComponent,
                 !.preSwizzleBaseType = NoType]
  ELSE c

\* A dynamic component of a swizzle becomes one of the vector below it, through
\* a constant vector that maps it.
RemapDynamicSwizzle(c) ==
  IF c.component # NoComponent /\ Len(c.swizzle) > 1
  THEN [c EXCEPT !.component = Dynamic(c.swizzle[c.component.value + 1]), !.swizzle = <<>>]
  ELSE c

IndexComponent(c) ==
  IF c.component = NoComponent THEN c
  ELSE [c EXCEPT !.indexChain = Append(@, c.component), !.component = NoComponent]

\* The instruction is emitted once and remembered.
CollapseAccessChain(c) ==
  IF c.instr # NoInstr THEN c
  ELSE LET d == IndexComponent(RemapDynamicSwizzle(c))
       IN  IF d.indexChain = <<>> THEN d
           ELSE [d EXCEPT !.instr = [i \in DOMAIN d.indexChain |-> d.indexChain[i].value]]

\* A swizzle of one component gives a scalar.
RvalueSwizzle(value, channels) ==
  IF Len(channels) = 1 THEN At(value, channels)
  ELSE [p \in Places(<<Len(channels)>>) |-> value[<<channels[p[1] + 1]>>]]

\* The target with the components of the source punched in.
LvalueSwizzle(target, source, channels) ==
  [p \in DOMAIN target |->
     IF \E i \in DOMAIN channels : channels[i] = p[1]
     THEN source[<<(CHOOSE i \in DOMAIN channels : channels[i] = p[1]) - 1>>]
     ELSE target[p]]

Loaded(c, from) == At(from, c.instr)
Stored(c, into, value) ==
  [p \in DOMAIN into |->
     IF IsPrefix(c.instr, p) THEN value[SubSeq(p, Len(c.instr) + 1, Len(p))] ELSE into[p]]

\* The chain that a load leaves and the value it gives.
AccessChainLoad(c, from) ==
  LET t == TransferSwizzle(c, ~c.isRValue)
      inRegisters == c.isRValue /\ \A i \in DOMAIN t.indexChain : t.indexChain[i].constant
      d == IF inRegisters THEN t ELSE CollapseAccessChain([t EXCEPT !.isRValue = FALSE])
      whole == IF inRegisters THEN At(c.base, [i \in DOMAIN t.indexChain |-> t.indexChain[i].value])
               ELSE Loaded(d, IF c.isRValue THEN c.base ELSE from)
      chosen == IF d.swizzle = <<>> THEN whole ELSE RvalueSwizzle(whole, d.swizzle)
  IN  [chain |-> d,
       value |-> IF d.component = NoComponent THEN chosen ELSE At(chosen, <<d.component.value>>)]

KeepInstr(c) == c
Reset(c) == [c EXCEPT !.instr = NoInstr]

\* One store of a swizzle that is broken into stores: the chain is extended by
\* the component, and goes back to what it was.
ComponentStore(i, value, s) ==
  LET c == CollapseAccessChain(
             [Reset(s.chain) EXCEPT !.indexChain = Append(@, Constant(s.chain.swizzle[i]))])
  IN  [object |-> Stored(c, s.object, At(value, <<i - 1>>)),
       chain |-> [Reset(c) EXCEPT !.indexChain = Front(@)]]

ComponentStores(c, into, value) ==
  LET stores[n \in 0..Len(c.swizzle)] ==
        IF n = 0 THEN [object |-> into, chain |-> c] ELSE ComponentStore(n, value, stores[n - 1])
  IN  stores[Len(c.swizzle)].object

AccessChainStore(c, t, into, value) ==
  LET d == TransferSwizzle(c, TRUE)
      vector == SubSeq(t, Len(d.indexChain) + 1, Len(t))      \* getResultingAccessChainType
      e == CollapseAccessChain(d)
  IN  IF d.swizzle # <<>> /\ NumComponents(vector) # Len(d.swizzle) /\ d.component = NoComponent
      THEN ComponentStores(d, into, value)
      ELSE Stored(e, into, IF e.swizzle = <<>> THEN value
                           ELSE LvalueSwizzle(Loaded(e, into), value, e.swizzle))

----------------------------------------------------------------------------
(* What GLSL means: a selection maps the places of its type to places of    *)
(* what it selects from.                                                    *)

All(t) == [type |-> t, at |-> [p \in Places(t) |-> p]]
SelectIndex(s, i) == [type |-> Tail(s.type), at |-> At(s.at, <<i>>)]
SelectComponents(s, w) ==
  [type |-> <<Len(w)>>, at |-> [p \in Places(<<Len(w)>>) |-> s.at[<<w[p[1] + 1]>>]]]
Chosen(s, from) == [p \in DOMAIN s.at |-> from[s.at[p]]]
Assigned(s, into, value) ==
  [q \in DOMAIN into |->
     IF \E p \in DOMAIN s.at : s.at[p] = q
     THEN value[CHOOSE p \in DOMAIN s.at : s.at[p] = q] ELSE into[q]]

\* The parser refuses an assignment that names a component twice.
LValue(s) == \A p, q \in DOMAIN s.at : s.at[p] = s.at[q] => p = q

----------------------------------------------------------------------------
(* The traverser.                                                          *)

Whole(name, t) == [p \in Places(t) |-> <<name, p>>]
Sum(a, b) == [p \in DOMAIN a |-> <<"sum", a[p], b[p]>>]
NoValue == <<>>

Qualifiers == {"const", "in", "inout", "out"}
WritableParam(q) == q # "const"
CopiedIn(q) == q \in {"in", "inout"}
CopiedOut(q) == q \in {"out", "inout"}

ChainInit ==
  /\ type \in ObjectTypes
  /\ object = Whole("object", type)
  /\ accessChain \in {Cleared(FALSE, NoValue), Cleared(TRUE, object)}
  /\ lValues = <<>> /\ rValues = <<>> /\ qualifiers = <<>>
  /\ result = NoValue
  /\ meaning = [selected |-> All(type), base |-> object, object |-> object,
                result |-> NoValue, arguments |-> <<>>, late |-> FALSE]
  /\ pushes = 0
  /\ doing = "dereference"

Evaluating == doing = "dereference" /\ Len(qualifiers) < 2

\* The chain is saved while an index is computed, and restored.
Dereference(chain, selected) ==
  /\ Evaluating /\ pushes < IF qualifiers = <<>> THEN MaxPushes ELSE MaxInCall
  /\ pushes' = pushes + 1
  /\ accessChain' = chain
  /\ meaning' = [meaning EXCEPT !.selected = selected]
  /\ UNCHANGED <<type, object, lValues, rValues, qualifiers, result, doing>>

Index(i) ==
  LET t == meaning.selected.type IN
  /\ t # <<>> /\ i < t[1]
  /\ Dereference(IF Len(t) = 1 THEN PushSwizzle(accessChain, <<i>>, t)
                 ELSE [accessChain EXCEPT !.indexChain = Append(@, Constant(i))],
                 SelectIndex(meaning.selected, i))

IndexIndirect(i) ==
  LET t == meaning.selected.type IN
  /\ t # <<>> /\ i < t[1]
  /\ Dereference(IF Len(t) = 1 THEN PushComponent(accessChain, i, t)
                 ELSE [accessChain EXCEPT !.indexChain = Append(@, Dynamic(i))],
                 SelectIndex(meaning.selected, i))

VectorSwizzle(s) ==
  LET t == meaning.selected.type IN
  /\ Len(t) = 1 /\ Len(s) > 1 /\ \A i \in DOMAIN s : s[i] < t[1]
  /\ Dereference(PushSwizzle(accessChain, s, t), SelectComponents(meaning.selected, s))

Meant == Chosen(meaning.selected, IF accessChain.isRValue THEN meaning.base ELSE meaning.object)

\* What an assignment gives is an r-value, which can be dereferenced again.  An
\* argument that is an l-value to be copied in is read late if it follows.
Finish(stored, value, meant, meantValue, late) ==
  /\ object' = stored /\ result' = value
  /\ accessChain' = Cleared(TRUE, value)
  /\ meaning' = [meaning EXCEPT !.object = meant, !.result = meantValue, !.base = meantValue,
                                !.selected = All(meaning.selected.type),
                                !.late = late \/ (qualifiers # <<>> /\ CopiedIn(qualifiers[1]))]
  /\ UNCHANGED <<type, lValues, rValues, qualifiers, pushes, doing>>

\* The right side may be a call that changes the object.
AfterRight(changes) == IF changes THEN Whole("changed", type) ELSE object
Writable == Evaluating /\ ~accessChain.isRValue /\ LValue(meaning.selected)

Assign(changes) ==
  LET right == Whole("right", meaning.selected.type) IN
  /\ Writable
  /\ Finish(AccessChainStore(accessChain, type, AfterRight(changes), right), right,
            Assigned(meaning.selected, AfterRight(changes), right), right, meaning.late)

\* The l-value is saved, and used for a load and, afresh, for the store.  "a is
\* evaluated before b": its address is, but not its value.
OpAssign(changes) ==
  LET right == Whole("right", meaning.selected.type)
      sum == Sum(AccessChainLoad(accessChain, AfterRight(changes)).value, right)
      meant == Sum(Meant, right)
  IN
  /\ Writable
  /\ Finish(AccessChainStore(accessChain, type, AfterRight(changes), sum), sum,
            Assigned(meaning.selected, AfterRight(changes), meant), meant,
            changes \/ meaning.late)

\* The store goes through the chain as the load left it.
Increment(prefix) ==
  LET one == Whole("one", meaning.selected.type)
      operand == AccessChainLoad(accessChain, object)
      sum == Sum(operand.value, one)
  IN
  /\ Writable
  /\ Finish(AccessChainStore(operand.chain, type, object, sum),
            IF prefix THEN sum ELSE operand.value,
            Assigned(meaning.selected, object, Sum(Meant, one)),
            IF prefix THEN Sum(Meant, one) ELSE Meant, meaning.late)

ReadValue ==
  /\ doing = "dereference" /\ qualifiers = <<>>
  /\ result' = AccessChainLoad(accessChain, object).value
  /\ meaning' = [meaning EXCEPT !.result = Meant]
  /\ doing' = "done"
  /\ UNCHANGED <<type, object, accessChain, lValues, rValues, qualifiers, pushes>>

----------------------------------------------------------------------------
(* handleUserFunctionCall.                                                 *)

\* Evaluate one argument; those that may be written stay l-values.
Argument(q) ==
  /\ Evaluating /\ pushes <= MaxInCall
  /\ CopiedOut(q) => Writable
  /\ qualifiers' = Append(qualifiers, q)
  /\ IF WritableParam(q)
     THEN lValues' = Append(lValues, accessChain) /\ UNCHANGED rValues
     ELSE rValues' = Append(rValues, AccessChainLoad(accessChain, object).value) /\ UNCHANGED lValues
  /\ accessChain' = Cleared(FALSE, NoValue)
  /\ meaning' = [meaning EXCEPT !.selected = All(type),
                   !.arguments = Append(@, [selected |-> meaning.selected, value |-> Meant])]
  /\ UNCHANGED <<type, object, result, pushes, doing>>

LValueCount(a) == Cardinality({b \in 1..a : WritableParam(qualifiers[b])})
RValueCount(a) == a - LValueCount(a)
Returned(a, t) == Whole(<<"returned", a>>, t)

SeenByCallee(a) ==
  IF CopiedIn(qualifiers[a]) THEN AccessChainLoad(lValues[LValueCount(a)], object).value
  ELSE IF CopiedOut(qualifiers[a]) THEN NoValue ELSE rValues[RValueCount(a)]
CopiedBack(into, a) ==
  IF CopiedOut(qualifiers[a])
  THEN AccessChainStore(lValues[LValueCount(a)], type, into,
                        Returned(a, meaning.arguments[a].selected.type))
  ELSE into
MeantBack(into, a) ==
  IF CopiedOut(qualifiers[a])
  THEN Assigned(meaning.arguments[a].selected, into, Returned(a, meaning.arguments[a].selected.type))
  ELSE into

\* Copies in, the call, which may change the object, and copies back in order.
UserFunctionCall(changes) ==
  /\ doing = "dereference" /\ Len(qualifiers) = 2
  /\ result' = [a \in 1..2 |-> SeenByCallee(a)]
  /\ object' = CopiedBack(CopiedBack(AfterRight(changes), 1), 2)
  /\ meaning' = [meaning EXCEPT
       !.object = MeantBack(MeantBack(AfterRight(changes), 1), 2),
       !.result = [a \in 1..2 |-> IF qualifiers[a] = "out" THEN NoValue ELSE meaning.arguments[a].value]]
  /\ doing' = "done"
  /\ UNCHANGED <<type, accessChain, lValues, rValues, qualifiers, pushes>>

ChainNext ==
  \/ \E i \in 0 .. NumComponents(meaning.selected.type) - 1 : Index(i) \/ IndexIndirect(i)
  \/ \E s \in Swizzles : VectorSwizzle(s)
  \/ \E b \in BOOLEAN : Assign(b) \/ OpAssign(b) \/ Increment(b) \/ UserFunctionCall(b)
  \/ ReadValue
  \/ \E q \in Qualifiers : Argument(q)

ChainSpec == ChainInit /\ [][ChainNext]_chainVars

----------------------------------------------------------------------------

\* Whatever indices, swizzles and dynamic components were stacked, a load gives
\* and a store changes exactly the components GLSL selects, in its order; the
\* target of an assignment is what it was when it was evaluated, though the
\* one chain was used for its right side; arguments are seen by the parameter
\* they are for, and copied back to where they came from.  Where the value of a
\* target or of an argument is read later than GLSL says, nothing is asked.
AccessesMeant == ~meaning.late => object = meaning.object /\ result = meaning.result
=============================================================================
