-------------------------- MODULE GlslStatements --------------------------
(***************************************************************************)
(* The statements of one function body as glslang.y reads them: which jump  *)
(* and label is accepted where (the nesting counters of TParseContext and   *)
(* the stack of switches), and what the accepted statements mean.           *)
(*                                                                          *)
(* A body is a sequence of tokens.  An opening token ("if", "loop",         *)
(* "switch") has an "end"; "else" and "end" name their opening token in the *)
(* field of; every token names the construct it stands in, in the field in. *)
(***************************************************************************)
EXTENDS Naturals, Sequences, FiniteSets

CONSTANTS MaxStatements,   \* bound: tokens that are neither "else" nor "end"
          MaxInside,       \* bound: statements directly in one construct, or in none
          Plain,           \* statements without a place of their own in the
                           \* grammar of jumps: "expr", "return", "discard"
          Jumps,           \* subset of {"break", "continue"}
          CaseValues,      \* labels: the values of case, and Default
          Default,
          IfOperators,     \* what the condition of an if may be: "plain", "and", "or"
          LoopShapes       \* the loops: records [first, test, term, op]

ASSUME StatementsAssumption ==
    /\ MaxStatements \in Nat /\ MaxInside \in Nat
    /\ Plain \subseteq {"expr", "return", "discard"}
    /\ Jumps \subseteq {"break", "continue"}
    /\ IfOperators \subseteq {"plain", "and", "or"}
    /\ LoopShapes \subseteq [first : BOOLEAN, test : BOOLEAN, term : BOOLEAN,
                             op : {"plain", "and", "or"}]

VARIABLES source,                \* the tokens read
          opened,                \* the constructs open (the stack of the parser)
          loopNestingLevel,
          statementNestingLevel,
          switchLevel,           \* one level per open switch
          switchSequences,       \* one per open switch: its labels and the pending statements
          accepted               \* FALSE after an error

parserVars == <<source, opened, loopNestingLevel, statementNestingLevel,
                switchLevel, switchSequences, accepted>>

Top(s) == s[Len(s)]
Popped(s) == SubSeq(s, 1, Len(s) - 1)
Here == Len(source) + 1
Within == IF opened = <<>> THEN 0 ELSE Top(opened)
Statements == {i \in 1..Len(source) : source[i].k \notin {"else", "end"}}
Inside(p) == {i \in Statements : source[i].in = p /\ source[i].k # "label"}
MayRead == accepted /\ Cardinality(Statements) < MaxStatements
MayReadStatement == MayRead /\ Cardinality(Inside(Within)) < MaxInside

(***************************************************************************)
(* Reading.                                                                 *)
(***************************************************************************)
ParserInit ==
    /\ source = <<>>
    /\ opened = <<>>
    /\ loopNestingLevel = 0
    /\ statementNestingLevel = 0
    /\ switchLevel = <<>>
    /\ switchSequences = <<>>
    /\ accepted = TRUE

\* A statement of the innermost list: the list of a switch is no longer empty.
PendingStatement ==
    IF Within # 0 /\ source[Within].k = "switch"
    THEN [switchSequences EXCEPT ![Len(switchSequences)].pending = TRUE]
    ELSE switchSequences

PlainStatement(kind) ==
    /\ MayReadStatement
    /\ source' = Append(source, [k |-> kind, in |-> Within])
    /\ switchSequences' = PendingStatement
    /\ UNCHANGED <<opened, loopNestingLevel, statementNestingLevel, switchLevel, accepted>>

JumpAllowed(kind) ==
    IF kind = "continue" THEN loopNestingLevel > 0
    ELSE loopNestingLevel + Len(switchSequences) > 0

JumpStatement(kind) ==
    /\ MayReadStatement
    /\ source' = Append(source, [k |-> kind, in |-> Within])
    /\ accepted' = JumpAllowed(kind)
    /\ switchSequences' = PendingStatement
    /\ UNCHANGED <<opened, loopNestingLevel, statementNestingLevel, switchLevel>>

OpenIf(op) ==
    /\ MayReadStatement
    /\ source' = Append(source, [k |-> "if", in |-> Within, op |-> op])
    /\ opened' = Append(opened, Here)
    /\ statementNestingLevel' = statementNestingLevel + 1
    /\ switchSequences' = PendingStatement
    /\ UNCHANGED <<loopNestingLevel, switchLevel, accepted>>

\* The statement after "else" is a scope of its own: the level goes down and up.
Else ==
    /\ accepted /\ Within # 0 /\ source[Within].k = "if"
    /\ ~\E i \in 1..Len(source) : source[i].k = "else" /\ source[i].of = Within
    /\ source' = Append(source, [k |-> "else", in |-> Within, of |-> Within])
    /\ UNCHANGED <<opened, loopNestingLevel, statementNestingLevel, switchLevel,
                   switchSequences, accepted>>

EndIf ==
    /\ accepted /\ Within # 0 /\ source[Within].k = "if"
    /\ source' = Append(source, [k |-> "end", in |-> source[Within].in, of |-> Within])
    /\ opened' = Popped(opened)
    /\ statementNestingLevel' = statementNestingLevel - 1
    /\ UNCHANGED <<loopNestingLevel, switchLevel, switchSequences, accepted>>

OpenLoop(shape) ==
    /\ MayReadStatement
    /\ source' = Append(source, [k |-> "loop", in |-> Within, first |-> shape.first,
                                 test |-> shape.test, term |-> shape.term, op |-> shape.op])
    /\ opened' = Append(opened, Here)
    /\ loopNestingLevel' = loopNestingLevel + 1
    /\ statementNestingLevel' = statementNestingLevel + 1
    /\ switchSequences' = PendingStatement
    /\ UNCHANGED <<switchLevel, accepted>>

LevelKept == loopNestingLevel
LevelAfterLoop == loopNestingLevel - 1
EndLoop ==
    /\ accepted /\ Within # 0 /\ source[Within].k = "loop"
    /\ source' = Append(source, [k |-> "end", in |-> source[Within].in, of |-> Within])
    /\ opened' = Popped(opened)
    /\ loopNestingLevel' = LevelAfterLoop
    /\ statementNestingLevel' = statementNestingLevel - 1
    /\ UNCHANGED <<switchLevel, switchSequences, accepted>>

OpenSwitch ==
    /\ MayReadStatement
    /\ source' = Append(source, [k |-> "switch", in |-> Within])
    /\ opened' = Append(opened, Here)
    /\ statementNestingLevel' = statementNestingLevel + 1
    /\ switchLevel' = Append(switchLevel, statementNestingLevel + 1)
    /\ switchSequences' = Append(PendingStatement, [labels |-> {}, pending |-> FALSE])
    /\ UNCHANGED <<loopNestingLevel, accepted>>

\* case_label: directly in the list of the innermost switch.
LabelInList == switchLevel # <<>> /\ Top(switchLevel) = statementNestingLevel

\* wrapupSwitchSubsequence: no statements before the first label, no label twice.
LabelFits(value) ==
    /\ LabelInList
    /\ value \notin Top(switchSequences).labels
    /\ ~(Top(switchSequences).pending /\ Top(switchSequences).labels = {})

Label(value) ==
    /\ MayRead
    /\ source' = Append(source, [k |-> "label", in |-> Within, value |-> value])
    /\ accepted' = LabelFits(value)
    /\ switchSequences' =
         IF LabelFits(value)
         THEN [switchSequences EXCEPT ![Len(switchSequences)] =
                 [labels |-> @.labels \cup {value}, pending |-> FALSE]]
         ELSE switchSequences
    /\ UNCHANGED <<opened, loopNestingLevel, statementNestingLevel, switchLevel>>

\* addSwitch: statements without a label are an error; a last label without
\* statements is given a break (in the versions where it is not an error).
EndSwitch ==
    /\ accepted /\ Within # 0 /\ source[Within].k = "switch"
    /\ LET last == Top(switchSequences)
           close == [k |-> "end", in |-> source[Within].in, of |-> Within]
       IN  /\ accepted' = ~(last.pending /\ last.labels = {})
           /\ source' = source \o
                IF last.labels # {} /\ ~last.pending
                THEN <<[k |-> "break", in |-> Within], close>>
                ELSE <<close>>
    /\ opened' = Popped(opened)
    /\ statementNestingLevel' = statementNestingLevel - 1
    /\ switchLevel' = Popped(switchLevel)
    /\ switchSequences' = Popped(switchSequences)
    /\ UNCHANGED loopNestingLevel

ReadToken ==
    \/ \E kind \in Plain : PlainStatement(kind)
    \/ \E kind \in Jumps : JumpStatement(kind)
    \/ \E op \in IfOperators : OpenIf(op)
    \/ Else
    \/ EndIf
    \/ \E shape \in LoopShapes : OpenLoop(shape)
    \/ EndLoop
    \/ OpenSwitch
    \/ \E value \in CaseValues \cup {Default} : Label(value)
    \/ EndSwitch

\* The parser by itself; SpvFlow goes on with what it accepts.
ParserSpec == ParserInit /\ [][ReadToken]_parserVars

(***************************************************************************)
(* What the structure of the text says, independently of the counters.      *)
(***************************************************************************)
\* The constructs around token i, of a kind in kinds: opened before it and not ended.
Around(kinds, i) ==
    {p \in 1..(i - 1) :
       /\ source[p].k \in kinds
       /\ ~\E j \in 1..i : source[j].k = "end" /\ source[j].of = p}
Innermost(kinds, i) == CHOOSE p \in Around(kinds, i) : \A q \in Around(kinds, i) : q <= p

(***************************************************************************)
(* Jumps and labels of an accepted body have the construct they need around *)
(* them: continue a loop, break a loop or a switch, a label is directly in  *)
(* a switch, once, with nothing before the first one.  The code decides it  *)
(* with counters that every production must put back.                       *)
(***************************************************************************)
OnlyLegalJumps ==
    accepted =>
      \A i \in 1..Len(source) :
        /\ source[i].k = "continue" => Around({"loop"}, i) # {}
        /\ source[i].k = "break" => Around({"loop", "switch"}, i) # {}
        /\ source[i].k = "label" =>
             /\ source[i].in # 0 /\ source[source[i].in].k = "switch"
             /\ \A j \in 1..(i - 1) :
                  (source[j].in = source[i].in /\ source[j].k = "label")
                    => source[j].value # source[i].value
        /\ (source[i].in # 0 /\ source[source[i].in].k = "switch" /\ source[i].k # "label"
              /\ opened = <<>>)
             => source[source[i].in + 1].k = "label"

(***************************************************************************)
(* The meaning of a body: after each thing that can be observed, which is   *)
(* next.  What can be observed is an expression statement, the operands of  *)
(* a condition ("left", and "right" of && and ||), the selector of a switch *)
(* ("select"), the last expression of a for ("term"), return and discard.   *)
(***************************************************************************)
EndOf(p) == CHOOSE i \in 1..Len(source) : source[i].k = "end" /\ source[i].of = p
ElseOf(p) == {i \in 1..Len(source) : source[i].k = "else" /\ source[i].of = p}
LabelsOf(p) == {i \in 1..Len(source) : source[i].k = "label" /\ source[i].in = p}

Steps == 2 * Len(source) + 2

\* The first thing observed when control arrives at token i; "spin" when there is
\* none because of a loop that does nothing.
Arrive(start) ==
    LET at[n \in 0..Steps, i \in 1..(Len(source) + 1)] ==
          IF n = 0 THEN <<"spin">>
          ELSE IF i = Len(source) + 1 THEN <<"exit">>
          ELSE LET t == source[i] IN
            CASE t.k \in {"expr", "return", "discard"} -> <<t.k, i>>
              [] t.k = "if" -> <<"left", i>>
              [] t.k = "switch" -> <<"select", i>>
              [] t.k = "loop" -> IF t.first /\ t.test THEN <<"left", i>> ELSE at[n - 1, i + 1]
              [] t.k = "else" -> at[n - 1, EndOf(t.of) + 1]
              [] t.k = "label" -> at[n - 1, i + 1]
              [] t.k = "break" -> at[n - 1, EndOf(Innermost({"loop", "switch"}, i)) + 1]
              [] t.k = "continue" -> at[n - 1, EndOf(Innermost({"loop"}, i))]
              [] t.k = "end" /\ source[t.of].k # "loop" -> at[n - 1, i + 1]
              [] t.k = "end" /\ source[t.of].k = "loop" ->
                   IF source[t.of].term THEN <<"term", t.of>>
                   ELSE IF source[t.of].test THEN <<"left", t.of>>
                   ELSE at[n - 1, t.of + 1]
    IN  at[Steps, start]

\* The condition of token p came out as o.
Decided(p, o) ==
    IF o THEN Arrive(p + 1)
    ELSE IF source[p].k = "if" /\ ElseOf(p) # {}
         THEN Arrive((CHOOSE e \in ElseOf(p) : TRUE) + 1)
         ELSE Arrive(EndOf(p) + 1)

\* The selector of switch p has the value v.
Selected(p, v) ==
    LET labels(x) == {i \in LabelsOf(p) : source[i].value = x}
    IN  IF labels(v) # {} THEN Arrive(CHOOSE i \in labels(v) : TRUE)
        ELSE IF labels(Default) # {} THEN Arrive(CHOOSE i \in labels(Default) : TRUE)
        ELSE Arrive(EndOf(p) + 1)

\* What the observed thing may come out as.
Outcomes(seen) ==
    CASE seen[1] \in {"left", "right"} -> BOOLEAN
      [] seen[1] = "select" -> CaseValues \cup {Default}    \* Default: any other value
      [] seen[1] \in {"expr", "term"} -> {"done"}
      [] OTHER -> {}

After(seen, o) ==
    LET p == seen[2] IN
    CASE seen[1] = "expr" -> Arrive(p + 1)
      [] seen[1] = "term" -> IF source[p].test THEN <<"left", p>> ELSE Arrive(p + 1)
      [] seen[1] = "left" ->
           IF (source[p].op = "and" /\ o) \/ (source[p].op = "or" /\ ~o)
           THEN <<"right", p>> ELSE Decided(p, o)
      [] seen[1] = "right" -> Decided(p, o)
      [] seen[1] = "select" -> Selected(p, o)
===========================================================================
