------------------------------ MODULE SpvMeaning ------------------------------
(***************************************************************************)
(* What the functions of a SPIR-V module do, as far as a tool that moves    *)
(* values and drops instructions could change it.  A function is run along  *)
(* a path through its blocks; what can be seen of the run is its trace: the *)
(* stores to outputs, the calls with what is behind their pointers, and the *)
(* conditions of its branches.  An instruction has a tag for the thing of   *)
(* the shader that it declares.                                             *)
(***************************************************************************)
EXTENDS Integers, Sequences, FiniteSets, SequencesExt, TLC

CONSTANT MaxPath   \* bound: blocks in a path

\* FoldLeft, as a recursive function.
Through(Step(_, _), base, seq) ==
    LET after[n \in 0..Len(seq)] == IF n = 0 THEN base ELSE Step(after[n - 1], seq[n])
    IN  after[Len(seq)]

NoResult == 0
Undefined == <<"undefined">>       \* what a local holds before it is stored to
Unavailable == <<"unavailable">>   \* what an id stands for on a path that does not define it

Positions(code) == [p \in DOMAIN code |-> p]
LabelsIn(code, range) ==
    SelectSeq(Positions(code), LAMBDA p : p \in range /\ code[p].op = "Label")
LabelId(code, labels, n) == code[labels[n]].res
BlockNumber(code, labels, id) == CHOOSE n \in DOMAIN labels : LabelId(code, labels, n) = id
BlockAt(labels, range, n) ==
    {p \in range : p > labels[n] /\ (n < Len(labels) => p < labels[n + 1])}
Targets(i) == CASE i.op = "Branch" -> i.ids
                [] i.op = "BranchConditional" -> Tail(i.ids)
                [] OTHER -> <<>>

\* The paths from the first block on that are MaxPath long or shorter.
Paths(code, range) ==
    LET labels == LabelsIn(code, range)
        after == [n \in DOMAIN labels |->
                    {BlockNumber(code, labels, id) :
                       id \in UNION {ToSet(Targets(code[p])) : p \in BlockAt(labels, range, n)}}]
        further(path) == {Append(path, n) : n \in after[Last(path)]}
        path[n \in 1..MaxPath] ==
            IF n = 1 THEN {<<1>>} ELSE path[n - 1] \cup UNION {further(q) : q \in path[n - 1]}
    IN  path[MaxPath]

\* values: of ids; memory: of locals; a pointer is the variable it points into.
Value(code, s, id) ==
    LET i == code[CHOOSE p \in DOMAIN code : code[p].res = id]
    IN  CASE id \in DOMAIN s.values -> s.values[id]
          [] id \notin DOMAIN s.values /\ i.op = "Variable" -> <<i.lit, i.tag>>
          [] id \notin DOMAIN s.values /\ i.op = "Constant" -> <<"constant", i.lit>>
          [] OTHER -> Unavailable
Seen(s, what, where, value) ==
    [s EXCEPT !.trace = Append(@, [what |-> what, where |-> where, value |-> value])]
Sets(s, id, value) == [s EXCEPT !.values = (id :> value) @@ @]
Stores(s, pointer, value) == [s EXCEPT !.memory = (pointer :> value) @@ @]
Declare(s, id, tag) == Stores(Sets(s, id, <<"local", tag>>), <<"local", tag>>, Undefined)
Local(s, pointer) == pointer \in DOMAIN s.memory
Read(s, pointer) == IF Local(s, pointer) THEN s.memory[pointer] ELSE pointer

Execute(code, labels, s, i) ==
    LET of(n) == Value(code, s, i.ids[n])
        looked == IF i.lit = "volatile" THEN Seen(s, "load", of(1), Read(s, of(1))) ELSE s
    IN  CASE i.op = "Variable" -> Declare(s, i.res, i.tag)
          [] i.op = "AccessChain" -> Sets(s, i.res, of(1))
          [] i.op = "Load" -> Sets(looked, i.res, Read(s, of(1)))
          [] i.op = "Store" -> IF Local(s, of(1)) THEN Stores(s, of(1), of(2))
                               ELSE Seen(s, "store", of(1), of(2))
          [] i.op = "FAdd" ->
               Sets(s, i.res, IF Unavailable \in {of(1), of(2)} THEN Unavailable
                              ELSE IF Undefined \in {of(1), of(2)} THEN Undefined
                              ELSE <<"sum", of(1), of(2)>>)
          [] i.op = "FunctionCall" ->
               LET f == code[CHOOSE p \in DOMAIN code : code[p].res = i.ids[1]].tag
                   called == Seen(s, "call", f, IF Len(i.ids) > 1 THEN Read(s, of(2)) ELSE <<>>)
               IN  IF Len(i.ids) > 1 /\ Local(s, of(2)) THEN Stores(called, of(2), <<"left by", f>>)
                   ELSE called
          [] i.op = "Branch" -> Seen(s, "branch", BlockNumber(code, labels, i.ids[1]), <<>>)
          [] i.op = "BranchConditional" ->
               Seen(s, "branch", [n \in 1..2 |-> BlockNumber(code, labels, i.ids[n + 1])], of(1))
          [] OTHER -> s

Traces(code, range, paths) ==
    LET labels == LabelsIn(code, range)
        block == [n \in DOMAIN labels |->
                    SelectSeq(Positions(code), LAMBDA p : p \in BlockAt(labels, range, n))]
        run(s, n) == Through(LAMBDA t, p : Execute(code, labels, t, code[p]), s, block[n])
    IN  [path \in paths |->
           Through(run, [values |-> <<>>, memory |-> <<>>, trace |-> <<>>], path).trace]

\* A trace may give any value where the first one has an undefined one.
Refines(trace, of) ==
    /\ Len(trace) = Len(of)
    /\ \A n \in DOMAIN of : /\ trace[n].what = of[n].what
                            /\ trace[n].value # Unavailable
                            /\ trace[n].where = of[n].where
                            /\ of[n].value = Undefined \/ trace[n].value = of[n].value
==============================================================================
