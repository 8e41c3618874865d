------------------------- MODULE GlslStatementsProofs -------------------------
(***************************************************************************)
(* The counters and the stacks of the parser decide as the structure of    *)
(* the text does: for a body of any length and depth, a jump or label is   *)
(* accepted only where the constructs around it allow it.                  *)
(*                                                                         *)
(* After an error nothing is read, so most of the invariant is about what  *)
(* is accepted so far.                                                     *)
(***************************************************************************)
EXTENDS GlslStatements, SequenceTheorems, FiniteSetTheorems, TLAPS

Openings == {"if", "loop", "switch"}
Labels == CaseValues \cup {Default}

Token ==
  [k : Plain \cup Jumps \cup {"break", "switch"}, in : Nat]
    \cup [k : {"if"}, in : Nat, op : IfOperators]
    \cup [k : {"loop"}, in : Nat, first : BOOLEAN, test : BOOLEAN, term : BOOLEAN,
          op : {"plain", "and", "or"}]
    \cup [k : {"label"}, in : Nat, value : Labels]
    \cup [k : {"else", "end"}, in : Nat, of : Nat]

Sequence == [labels : SUBSET Labels, pending : BOOLEAN]

ParserTypeOK ==
  /\ source \in Seq(Token)
  /\ opened \in Seq(Nat)
  /\ loopNestingLevel \in Nat
  /\ statementNestingLevel \in Nat
  /\ switchLevel \in Seq(Nat)
  /\ switchSequences \in Seq(Sequence)
  /\ accepted \in BOOLEAN

Ended(p) == \E j \in 1..Len(source) : source[j].k = "end" /\ source[j].of = p
IsOpen(p) == \E k \in 1..Len(opened) : opened[k] = p
OpenLoops == {p \in 1..Len(source) : source[p].k = "loop" /\ IsOpen(p)}

(* What is open is what was begun and has not ended, from the outside in.    *)
OpenedRight ==
  /\ \A i \in 1..Len(source) : source[i].in < i /\ (source[i].k = "end" => source[i].of < i)
  /\ \A k \in 1..Len(opened) : /\ opened[k] \in 1..Len(source)
                               /\ source[opened[k]].k \in Openings
                               /\ ~Ended(opened[k])
  /\ \A j, k \in 1..Len(opened) : j < k => opened[j] < opened[k]
  /\ \A p \in 1..Len(source) : source[p].k \in Openings => IsOpen(p) \/ Ended(p)

(* The levels count what is open.                                            *)
LevelsRight ==
  /\ loopNestingLevel = Cardinality(OpenLoops)
  /\ statementNestingLevel = Len(opened)

(* There is one entry in both stacks for each open switch, in their order.   *)
SwitchesRight ==
  /\ Len(switchLevel) = Len(switchSequences)
  /\ \A k \in 1..Len(switchLevel) : /\ switchLevel[k] \in 1..Len(opened)
                                    /\ source[opened[switchLevel[k]]].k = "switch"
  /\ \A j, k \in 1..Len(switchLevel) : j < k => switchLevel[j] < switchLevel[k]
  /\ \A j \in 1..Len(opened) :
       source[opened[j]].k = "switch" => \E k \in 1..Len(switchLevel) : switchLevel[k] = j

(* The labels of an open switch are known; if there are some the first comes *)
(* first, and if there are none and nothing pends, nothing has been read.    *)
SequenceRight(k) ==
  LET p == opened[switchLevel[k]]
      s == switchSequences[k]
  IN  /\ \A i \in 1..Len(source) :
           source[i].in = p /\ source[i].k = "label" => source[i].value \in s.labels
      /\ s.labels # {} => p < Len(source) /\ source[p + 1].k = "label"
      /\ s.labels = {} /\ ~s.pending => p = Len(source)
SequencesRight == \A k \in 1..Len(switchLevel) : SequenceRight(k)

(* A switch that has ended with statements in it has a label first.          *)
EndedRight ==
  \A p \in 1..Len(source) :
    source[p].k = "switch" /\ Ended(p)
      /\ (\E i \in 1..Len(source) : source[i].in = p /\ source[i].k # "label")
    => source[p + 1].k = "label"

(* Every jump and label has around it what it needs.                         *)
JumpRight(i) ==
  /\ source[i].k = "continue" => Around({"loop"}, i) # {}
  /\ source[i].k = "break" => Around({"loop", "switch"}, i) # {}
  /\ source[i].k = "label" =>
       /\ source[i].in # 0 /\ source[source[i].in].k = "switch"
       /\ \A j \in 1..(i - 1) :
            (source[j].in = source[i].in /\ source[j].k = "label")
              => source[j].value # source[i].value
JumpsRight == \A i \in 1..Len(source) : JumpRight(i)

Accepted ==
  OpenedRight /\ LevelsRight /\ SwitchesRight /\ SequencesRight /\ EndedRight /\ JumpsRight
StatementsIInv == ParserTypeOK /\ (accepted => Accepted)

-------------------------------------------------------------------------------
(* Sequences, and how the text grows.                                        *)

LEMMA AppendFacts ==
  ASSUME NEW S, NEW s \in Seq(S), NEW e \in S
  PROVE  /\ Append(s, e) \in Seq(S) /\ Len(s) \in Nat /\ Len(Append(s, e)) = Len(s) + 1
         /\ \A i \in 1 .. Len(s) : Append(s, e)[i] = s[i]
         /\ Append(s, e)[Len(s) + 1] = e
BY AppendProperties, LenProperties

LEMMA CutFacts ==
  ASSUME NEW S, NEW s \in Seq(S), NEW k \in Nat, k <= Len(s)
  PROVE  /\ SubSeq(s, 1, k) \in Seq(S) /\ Len(SubSeq(s, 1, k)) = k
         /\ \A i \in 1 .. k : SubSeq(s, 1, k)[i] = s[i]
<1>1. \A i \in 1 .. k : s[i] \in S
  BY ElementOfSeq
<1>2. /\ SubSeq(s, 1, k) \in Seq(S) /\ Len(SubSeq(s, 1, k)) = (IF 1 <= k THEN k - 1 + 1 ELSE 0)
      /\ \A i \in 1 .. k - 1 + 1 : SubSeq(s, 1, k)[i] = s[1 + i - 1]
  BY <1>1, SubSeqProperties
<1> QED BY <1>2

LEMMA PoppedFacts ==
  ASSUME NEW S, NEW s \in Seq(S), s # <<>>
  PROVE  /\ Popped(s) \in Seq(S) /\ Len(s) \in Nat /\ Len(s) > 0 /\ Len(Popped(s)) = Len(s) - 1
         /\ \A i \in 1 .. Len(s) - 1 : Popped(s)[i] = s[i]
         /\ Top(s) = s[Len(s)] /\ Top(s) \in S
<1>1. Len(s) \in Nat /\ Len(s) > 0
  BY EmptySeq, LenProperties
<1>2. PICK k \in Nat : k = Len(s) - 1
  BY <1>1
<1>3. Popped(s) = SubSeq(s, 1, k)
  BY <1>2 DEF Popped
<1>4. /\ SubSeq(s, 1, k) \in Seq(S) /\ Len(SubSeq(s, 1, k)) = k
      /\ \A i \in 1 .. k : SubSeq(s, 1, k)[i] = s[i]
  BY <1>1, <1>2, CutFacts
<1>5. /\ Popped(s) \in Seq(S) /\ Len(Popped(s)) = k
      /\ \A i \in 1 .. k : Popped(s)[i] = s[i]
  BY <1>3, <1>4, Zenon
<1> QED BY <1>1, <1>2, <1>5, ElementOfSeq DEF Top

(* The types of what is in the sequences.                                    *)
LEMMA TypeFacts ==
  ASSUME ParserTypeOK
  PROVE  /\ Len(source) \in Nat /\ Len(opened) \in Nat
         /\ Len(switchLevel) \in Nat /\ Len(switchSequences) \in Nat
         /\ \A i \in 1 .. Len(source) : /\ source[i] \in Token /\ source[i].in \in Nat
                                        /\ source[i].k = "end" => source[i].of \in Nat
         /\ \A i \in 1 .. Len(opened) : opened[i] \in Nat
         /\ \A i \in 1 .. Len(switchLevel) : switchLevel[i] \in Nat
         /\ \A i \in 1 .. Len(switchSequences) :
              /\ switchSequences[i] \in Sequence /\ switchSequences[i].labels \in SUBSET Labels
              /\ switchSequences[i].pending \in BOOLEAN
         /\ opened = <<>> <=> Len(opened) = 0
         /\ switchLevel = <<>> <=> Len(switchLevel) = 0
<1>1. /\ Len(source) \in Nat /\ Len(opened) \in Nat
      /\ Len(switchLevel) \in Nat /\ Len(switchSequences) \in Nat
      /\ \A i \in 1 .. Len(source) : source[i] \in Token
      /\ \A i \in 1 .. Len(opened) : opened[i] \in Nat
      /\ \A i \in 1 .. Len(switchLevel) : switchLevel[i] \in Nat
      /\ \A i \in 1 .. Len(switchSequences) : switchSequences[i] \in Sequence
      /\ opened = <<>> <=> Len(opened) = 0
      /\ switchLevel = <<>> <=> Len(switchLevel) = 0
  BY LenProperties, ElementOfSeq, EmptySeq DEF ParserTypeOK
<1>2. \A t \in Token : t.in \in Nat /\ (t.k = "end" => t.of \in Nat)
  BY StatementsAssumption DEF Token
<1>3. \A s \in Sequence : s.labels \in SUBSET Labels /\ s.pending \in BOOLEAN
  BY DEF Sequence
<1> QED BY <1>1, <1>2, <1>3

(* The text has more tokens at its end, each in a construct before it.       *)
Extends ==
  /\ source' \in Seq(Token)
  /\ Len(source') \in Nat /\ Len(source') > Len(source)
  /\ \A i \in 1 .. Len(source) : source'[i] = source[i]
  /\ \A i \in Len(source) + 1 .. Len(source') :
       source'[i].in \in Nat /\ source'[i].in <= Len(source)

(* What is around a token does not change by what is read later.             *)
LEMMA AroundKept ==
  ASSUME ParserTypeOK, Extends, NEW i \in 1 .. Len(source), NEW kinds
  PROVE  Around(kinds, i)' = Around(kinds, i)
<1>1. \A j \in 1 .. i : j \in 1 .. Len(source)
  BY TypeFacts
<1>2. \A p \in 1 .. i - 1 : p \in 1 .. Len(source)
  BY TypeFacts
<1>3. /\ \A j \in 1 .. i : source'[j] = source[j]
      /\ \A p \in 1 .. i - 1 : source'[p] = source[p]
  BY <1>1, <1>2 DEF Extends
<1> QED BY <1>3, Zenon DEF Around

(* An open construct is around the next token.                               *)
LEMMA OpenIsAround ==
  ASSUME ParserTypeOK, OpenedRight, Extends, NEW n \in Nat, n = Len(source),
         source'[n + 1].k # "end",
         NEW k \in 1 .. Len(opened), NEW kinds, source[opened[k]].k \in kinds
  PROVE  Around(kinds, n + 1)' # {}
<1> DEFINE p == opened[k]
<1>1. p \in 1 .. n /\ ~Ended(p)
  BY DEF OpenedRight
<1>2. \A j \in 1 .. n : source'[j] = source[j]
  BY DEF Extends
<1>3. p \in 1 .. (n + 1) - 1 /\ source'[p].k \in kinds
  BY <1>1, <1>2
<1>4. ~\E j \in 1 .. n + 1 : source'[j].k = "end" /\ source'[j].of = p
  <2> SUFFICES ASSUME NEW j \in 1 .. n + 1, source'[j].k = "end", source'[j].of = p
               PROVE  FALSE
    OBVIOUS
  <2>1. j \in 1 .. n
    OBVIOUS
  <2> QED BY <1>1, <1>2, <2>1 DEF Ended
<1>5. Around(kinds, n + 1)' =
        {q \in 1 .. (n + 1) - 1 :
           /\ source'[q].k \in kinds
           /\ ~\E j \in 1 .. n + 1 : source'[j].k = "end" /\ source'[j].of = q}
  BY DEF Around
<1> QED BY <1>3, <1>4, <1>5, Zenon

-------------------------------------------------------------------------------
(* What the three kinds of steps do to what is open: statements are read,    *)
(* a construct begins, the innermost construct ends.                         *)

Reads ==
  /\ Extends
  /\ opened' = opened
  /\ \A i \in Len(source) + 1 .. Len(source') : source'[i].k \notin Openings \cup {"end"}

Begins ==
  /\ Extends
  /\ Len(source') = Len(source) + 1
  /\ source'[Len(source')].k \in Openings
  /\ opened' = Append(opened, Len(source'))

Closes ==
  /\ Extends
  /\ opened # <<>>
  /\ opened' = Popped(opened)
  /\ source'[Len(source')].k = "end" /\ source'[Len(source')].of = Top(opened)
  /\ \A i \in Len(source) + 1 .. Len(source') - 1 : source'[i].k \notin Openings \cup {"end"}

LEMMA ReadsFacts ==
  ASSUME ParserTypeOK, Reads, NEW p
  PROVE  (Ended(p)' <=> Ended(p)) /\ (IsOpen(p)' <=> IsOpen(p))
<1>1. IsOpen(p)' <=> IsOpen(p)
  BY DEF Reads, IsOpen
<1>2. ASSUME Ended(p) PROVE Ended(p)'
  <2>1. PICK j \in 1 .. Len(source) : source[j].k = "end" /\ source[j].of = p
    BY <1>2 DEF Ended
  <2>2. j \in 1 .. Len(source') /\ source'[j] = source[j]
    BY <2>1, TypeFacts DEF Reads, Extends
  <2> QED BY <2>1, <2>2 DEF Ended
<1>3. ASSUME Ended(p)' PROVE Ended(p)
  <2>1. PICK j \in 1 .. Len(source') : source'[j].k = "end" /\ source'[j].of = p
    BY <1>3 DEF Ended
  <2>2. j \in 1 .. Len(source)
    BY <2>1, TypeFacts DEF Reads, Extends
  <2> QED BY <2>1, <2>2 DEF Ended, Reads, Extends
<1> QED BY <1>1, <1>2, <1>3

LEMMA BeginsFacts ==
  ASSUME ParserTypeOK, Begins, NEW p
  PROVE  /\ Ended(p)' <=> Ended(p)
         /\ IsOpen(p)' <=> IsOpen(p) \/ p = Len(source')
         /\ Len(opened') = Len(opened) + 1 /\ opened'[Len(opened) + 1] = Len(source')
         /\ \A k \in 1 .. Len(opened) : opened'[k] = opened[k]
<1>1. /\ Len(opened') = Len(opened) + 1 /\ opened'[Len(opened) + 1] = Len(source')
      /\ \A k \in 1 .. Len(opened) : opened'[k] = opened[k]
  BY AppendFacts DEF Begins, Extends, ParserTypeOK
<1>2. IsOpen(p)' <=> IsOpen(p) \/ p = Len(source')
  <2>1. Len(opened) \in Nat /\ \A k : k \in 1 .. Len(opened') <=> k \in 1 .. Len(opened)
                                                               \/ k = Len(opened) + 1
    BY <1>1, TypeFacts
  <2>2. ASSUME IsOpen(p) PROVE IsOpen(p)'
    <3>1. PICK k \in 1 .. Len(opened) : opened[k] = p
      BY <2>2 DEF IsOpen
    <3>2. k \in 1 .. Len(opened') /\ opened'[k] = p
      BY <1>1, <2>1, <3>1, Zenon
    <3> QED BY <3>2, Zenon DEF IsOpen
  <2>3. ASSUME p = Len(source') PROVE IsOpen(p)'
    <3>1. Len(opened) + 1 \in 1 .. Len(opened')
      BY <1>1, <2>1
    <3> QED BY <1>1, <2>3, <3>1, Zenon DEF IsOpen
  <2>4. ASSUME IsOpen(p)' PROVE IsOpen(p) \/ p = Len(source')
    <3>1. PICK k \in 1 .. Len(opened') : opened'[k] = p
      BY <2>4 DEF IsOpen
    <3>2. CASE k \in 1 .. Len(opened)
      BY <1>1, <3>1, <3>2, Zenon DEF IsOpen
    <3>3. CASE k = Len(opened) + 1
      BY <1>1, <3>1, <3>3, Zenon
    <3> QED BY <2>1, <3>2, <3>3, Zenon
  <2> QED BY <2>2, <2>3, <2>4, Zenon
<1>3. ASSUME Ended(p) PROVE Ended(p)'
  <2>1. PICK j \in 1 .. Len(source) : source[j].k = "end" /\ source[j].of = p
    BY <1>3 DEF Ended
  <2>2. j \in 1 .. Len(source') /\ source'[j] = source[j]
    BY <2>1, TypeFacts DEF Begins, Extends
  <2> QED BY <2>1, <2>2 DEF Ended
<1>4. ASSUME Ended(p)' PROVE Ended(p)
  <2>1. PICK j \in 1 .. Len(source') : source'[j].k = "end" /\ source'[j].of = p
    BY <1>4 DEF Ended
  <2>2. j \in 1 .. Len(source)
    BY <2>1, TypeFacts DEF Begins, Extends, Openings
  <2> QED BY <2>1, <2>2 DEF Ended, Begins, Extends
<1> QED BY <1>1, <1>2, <1>3, <1>4

LEMMA ClosesFacts ==
  ASSUME ParserTypeOK, OpenedRight, Closes, NEW p
  PROVE  /\ Ended(p)' <=> Ended(p) \/ p = Top(opened)
         /\ IsOpen(p)' <=> IsOpen(p) /\ p # Top(opened)
         /\ Len(opened) > 0 /\ Top(opened) = opened[Len(opened)]
         /\ Len(opened') = Len(opened) - 1
         /\ \A k \in 1 .. Len(opened') : opened'[k] = opened[k]
<1>1. /\ Len(opened') = Len(opened) - 1 /\ Len(opened) > 0 /\ Len(opened) \in Nat
      /\ \A k \in 1 .. Len(opened') : opened'[k] = opened[k]
      /\ Top(opened) = opened[Len(opened)] /\ Top(opened) \in Nat
  BY PoppedFacts DEF Closes, ParserTypeOK
<1>2. \A k \in 1 .. Len(opened) : k < Len(opened) => opened[k] < Top(opened)
  BY <1>1 DEF OpenedRight
<1>3. IsOpen(p)' <=> IsOpen(p) /\ p # Top(opened)
  <2>1. ASSUME IsOpen(p)' PROVE IsOpen(p) /\ p # Top(opened)
    <3>1. PICK k \in 1 .. Len(opened') : opened'[k] = p
      BY <2>1 DEF IsOpen
    <3>2. k \in 1 .. Len(opened) /\ k < Len(opened) /\ opened[k] = p
      BY <1>1, <3>1
    <3>3. p < Top(opened) /\ p \in Nat
      BY <1>2, <3>2, TypeFacts
    <3> QED BY <1>1, <3>2, <3>3 DEF IsOpen
  <2>2. ASSUME IsOpen(p), p # Top(opened) PROVE IsOpen(p)'
    <3>1. PICK k \in 1 .. Len(opened) : opened[k] = p
      BY <2>2 DEF IsOpen
    <3>2. k \in 1 .. Len(opened')
      BY <1>1, <2>2, <3>1
    <3> QED BY <1>1, <3>1, <3>2 DEF IsOpen
  <2> QED BY <2>1, <2>2
<1>4. ASSUME Ended(p) PROVE Ended(p)'
  <2>1. PICK j \in 1 .. Len(source) : source[j].k = "end" /\ source[j].of = p
    BY <1>4 DEF Ended
  <2>2. j \in 1 .. Len(source') /\ source'[j] = source[j]
    BY <2>1, TypeFacts DEF Closes, Extends
  <2> QED BY <2>1, <2>2 DEF Ended
<1>5. ASSUME p = Top(opened) PROVE Ended(p)'
  <2>1. Len(source') \in 1 .. Len(source')
    BY TypeFacts DEF Closes, Extends
  <2> QED BY <1>5, <2>1 DEF Closes, Ended
<1>6. ASSUME Ended(p)' PROVE Ended(p) \/ p = Top(opened)
  <2>1. PICK j \in 1 .. Len(source') : source'[j].k = "end" /\ source'[j].of = p
    BY <1>6 DEF Ended
  <2>2. CASE j \in 1 .. Len(source)
    BY <2>1, <2>2 DEF Ended, Closes, Extends
  <2>3. CASE j = Len(source')
    BY <2>1, <2>3 DEF Closes
  <2>4. CASE j \in Len(source) + 1 .. Len(source') - 1
    BY <2>1, <2>4 DEF Closes
  <2> QED BY <2>2, <2>3, <2>4, TypeFacts DEF Closes, Extends
<1> QED BY <1>1, <1>3, <1>4, <1>5, <1>6

LEMMA ReadsKeepOpened ==
  ASSUME ParserTypeOK, OpenedRight, Reads
  PROVE  OpenedRight'
<1>1. \A i \in 1 .. Len(source') :
        source'[i].in < i /\ (source'[i].k = "end" => source'[i].of < i)
  <2> TAKE i \in 1 .. Len(source')
  <2>1. CASE i \in 1 .. Len(source)
    BY <2>1 DEF OpenedRight, Reads, Extends
  <2>2. CASE i \in Len(source) + 1 .. Len(source')
    BY <2>2, TypeFacts DEF Reads, Extends
  <2> QED BY <2>1, <2>2, TypeFacts
<1>2. (\A k \in 1 .. Len(opened) : /\ opened[k] \in 1 .. Len(source)
                                   /\ source[opened[k]].k \in Openings
                                   /\ ~Ended(opened[k]))'
  <2> SUFFICES ASSUME NEW k \in 1 .. Len(opened')
               PROVE  /\ opened'[k] \in 1 .. Len(source')
                      /\ source'[opened'[k]].k \in Openings
                      /\ ~Ended(opened[k])'
    OBVIOUS
  <2>1. k \in 1 .. Len(opened) /\ opened'[k] = opened[k]
    BY DEF Reads
  <2>2. PICK p \in 1 .. Len(source) : p = opened'[k] /\ source[p].k \in Openings /\ ~Ended(p)
    BY <2>1 DEF OpenedRight
  <2>3. ~Ended(p)'
    BY <2>2, ReadsFacts
  <2>4. ~Ended(opened[k])'
    BY <2>2, <2>3 DEF Ended
  <2> QED BY <2>2, <2>4, TypeFacts DEF Reads, Extends
<1>3. \A p \in 1 .. Len(source') : source'[p].k \in Openings => IsOpen(p)' \/ Ended(p)'
  <2> SUFFICES ASSUME NEW p \in 1 .. Len(source'), source'[p].k \in Openings
               PROVE  IsOpen(p)' \/ Ended(p)'
    OBVIOUS
  <2>1. p \in 1 .. Len(source) /\ source[p].k \in Openings
    BY TypeFacts DEF Reads, Extends
  <2> QED BY <2>1, ReadsFacts DEF OpenedRight
<1>4. \A j, k \in 1 .. Len(opened') : j < k => opened'[j] < opened'[k]
  BY DEF OpenedRight, Reads
<1> QED BY <1>1, <1>2, <1>3, <1>4, Zenon DEF OpenedRight

LEMMA BeginsKeepOpened ==
  ASSUME ParserTypeOK, OpenedRight, Begins
  PROVE  OpenedRight'
<1> DEFINE n == Len(source')
<1>0. /\ Len(source) \in Nat /\ n = Len(source) + 1 /\ n \in Nat
      /\ \A i \in 1 .. Len(source) : source'[i] = source[i]
      /\ source'[n].in \in Nat /\ source'[n].in <= Len(source)
      /\ source'[n].k \in Openings
      /\ Len(opened) \in Nat /\ Len(opened') = Len(opened) + 1
      /\ opened'[Len(opened) + 1] = n
      /\ \A k \in 1 .. Len(opened) : opened'[k] = opened[k]
  BY TypeFacts, BeginsFacts DEF Begins, Extends
<1>1. \A i \in 1 .. n :
        source'[i].in < i /\ (source'[i].k = "end" => source'[i].of < i)
  <2> TAKE i \in 1 .. n
  <2>1. CASE i \in 1 .. Len(source)
    BY <1>0, <2>1 DEF OpenedRight
  <2>2. CASE i = n
    BY <1>0, <2>2 DEF Openings
  <2> QED BY <1>0, <2>1, <2>2
<1>2. (\A k \in 1 .. Len(opened) : /\ opened[k] \in 1 .. Len(source)
                                   /\ source[opened[k]].k \in Openings
                                   /\ ~Ended(opened[k]))'
  <2> SUFFICES ASSUME NEW k \in 1 .. Len(opened')
               PROVE  /\ opened'[k] \in 1 .. n
                      /\ source'[opened'[k]].k \in Openings
                      /\ ~Ended(opened[k])'
    OBVIOUS
  <2>1. PICK p \in 1 .. n : p = opened'[k] /\ source'[p].k \in Openings /\ ~Ended(p)
    <3>1. CASE k \in 1 .. Len(opened)
      <4>1. opened[k] \in 1 .. Len(source) /\ source[opened[k]].k \in Openings /\ ~Ended(opened[k])
        BY <3>1 DEF OpenedRight
      <4> QED BY <1>0, <3>1, <4>1
    <3>2. CASE k = Len(opened) + 1
      <4>1. ~Ended(n)
        BY <1>0 DEF Ended, OpenedRight
      <4> QED BY <1>0, <3>2, <4>1
    <3> QED BY <1>0, <3>1, <3>2
  <2>2. ~Ended(p)'
    BY <2>1, BeginsFacts
  <2>3. ~Ended(opened[k])'
    BY <2>1, <2>2 DEF Ended
  <2> QED BY <2>1, <2>3
<1>3. \A j, k \in 1 .. Len(opened') : j < k => opened'[j] < opened'[k]
  <2> SUFFICES ASSUME NEW j \in 1 .. Len(opened'), NEW k \in 1 .. Len(opened'), j < k
               PROVE  opened'[j] < opened'[k]
    OBVIOUS
  <2>1. j \in 1 .. Len(opened) /\ opened'[j] = opened[j] /\ opened[j] \in 1 .. Len(source)
    BY <1>0 DEF OpenedRight
  <2>2. CASE k \in 1 .. Len(opened)
    BY <1>0, <2>1, <2>2 DEF OpenedRight
  <2>3. CASE k = Len(opened) + 1
    BY <1>0, <2>1, <2>3
  <2> QED BY <1>0, <2>2, <2>3
<1>4. \A p \in 1 .. n : source'[p].k \in Openings => IsOpen(p)' \/ Ended(p)'
  <2> SUFFICES ASSUME NEW p \in 1 .. n, source'[p].k \in Openings
               PROVE  IsOpen(p)' \/ Ended(p)'
    OBVIOUS
  <2>1. CASE p = n
    BY <2>1, BeginsFacts
  <2>2. CASE p \in 1 .. Len(source)
    <3>1. IsOpen(p) \/ Ended(p)
      BY <1>0, <2>2 DEF OpenedRight
    <3> QED BY <3>1, BeginsFacts
  <2> QED BY <1>0, <2>1, <2>2
<1> QED BY <1>1, <1>2, <1>3, <1>4, Zenon DEF OpenedRight

LEMMA ClosesKeepOpened ==
  ASSUME ParserTypeOK, OpenedRight, Closes
  PROVE  OpenedRight'
<1> DEFINE n == Len(source')
           top == Top(opened)
<1>0. /\ Len(source) \in Nat /\ n > Len(source) /\ n \in Nat
      /\ \A i \in 1 .. Len(source) : source'[i] = source[i]
      /\ \A i \in Len(source) + 1 .. n : source'[i].in \in Nat /\ source'[i].in <= Len(source)
      /\ Len(opened) \in Nat /\ Len(opened) > 0 /\ Len(opened') = Len(opened) - 1
      /\ top = opened[Len(opened)]
      /\ \A k \in 1 .. Len(opened') : opened'[k] = opened[k]
      /\ source'[n].k = "end" /\ source'[n].of = top
      /\ \A i \in Len(source) + 1 .. n - 1 : source'[i].k \notin Openings \cup {"end"}
  BY TypeFacts, ClosesFacts DEF Closes, Extends
<1>00. /\ \A j, k \in 1 .. Len(opened) : j < k => opened[j] < opened[k]
       /\ \A k \in 1 .. Len(opened) : opened[k] \in Nat
  BY TypeFacts DEF OpenedRight
<1>1. \A i \in 1 .. n :
        source'[i].in < i /\ (source'[i].k = "end" => source'[i].of < i)
  <2> TAKE i \in 1 .. n
  <2>1. CASE i \in 1 .. Len(source)
    BY <1>0, <2>1 DEF OpenedRight
  <2>2. CASE i = n
    BY <1>0, <2>2 DEF OpenedRight
  <2>3. CASE i \in Len(source) + 1 .. n - 1
    BY <1>0, <2>3
  <2> QED BY <1>0, <2>1, <2>2, <2>3
<1>2. (\A k \in 1 .. Len(opened) : /\ opened[k] \in 1 .. Len(source)
                                   /\ source[opened[k]].k \in Openings
                                   /\ ~Ended(opened[k]))'
  <2> SUFFICES ASSUME NEW k \in 1 .. Len(opened')
               PROVE  /\ opened'[k] \in 1 .. n
                      /\ source'[opened'[k]].k \in Openings
                      /\ ~Ended(opened[k])'
    OBVIOUS
  <2>1. k \in 1 .. Len(opened) /\ k < Len(opened) /\ opened'[k] = opened[k]
    BY <1>0
  <2>2. PICK p \in 1 .. Len(source) : p = opened'[k] /\ source[p].k \in Openings /\ ~Ended(p)
    BY <2>1 DEF OpenedRight
  <2>3. p # top
    BY <1>0, <1>00, <2>1, <2>2
  <2>4. ~Ended(p)'
    BY <2>2, <2>3, ClosesFacts
  <2>5. ~Ended(opened[k])'
    BY <2>2, <2>4 DEF Ended
  <2> QED BY <1>0, <2>2, <2>5
<1>3. \A j, k \in 1 .. Len(opened') : j < k => opened'[j] < opened'[k]
  <2> SUFFICES ASSUME NEW j \in 1 .. Len(opened'), NEW k \in 1 .. Len(opened'), j < k
               PROVE  opened'[j] < opened'[k]
    BY Zenon
  <2>1. j \in 1 .. Len(opened) /\ k \in 1 .. Len(opened)
    BY <1>0
  <2>2. opened[j] < opened[k]
    BY <1>00, <2>1, Zenon
  <2> QED BY <1>0, <2>2, Zenon
<1>4. \A p \in 1 .. n : source'[p].k \in Openings => IsOpen(p)' \/ Ended(p)'
  <2> SUFFICES ASSUME NEW p \in 1 .. n, source'[p].k \in Openings
               PROVE  IsOpen(p)' \/ Ended(p)'
    OBVIOUS
  <2>1. p \in 1 .. Len(source)
    BY <1>0 DEF Openings
  <2>2. IsOpen(p) \/ Ended(p)
    BY <1>0, <2>1 DEF OpenedRight
  <2> QED BY <2>2, ClosesFacts
<1> QED BY <1>1, <1>2, <1>3, <1>4, Zenon DEF OpenedRight

(* The loops among what is open.                                             *)
LEMMA LoopsFacts ==
  ASSUME ParserTypeOK, OpenedRight
  PROVE  /\ IsFiniteSet(OpenLoops) /\ Cardinality(OpenLoops) \in Nat
         /\ Reads => OpenLoops' = OpenLoops
         /\ Begins => OpenLoops' = IF source'[Len(source')].k = "loop"
                                   THEN OpenLoops \cup {Len(source')} ELSE OpenLoops
         /\ Closes => OpenLoops' = OpenLoops \ {Top(opened)}
<1>0. Len(source) \in Nat
  BY TypeFacts
<1>1. IsFiniteSet(OpenLoops) /\ Cardinality(OpenLoops) \in Nat
  <2>1. IsFiniteSet(1 .. Len(source)) /\ OpenLoops \subseteq 1 .. Len(source)
    BY <1>0, FS_Interval DEF OpenLoops
  <2> QED BY <2>1, FS_Subset, FS_CardinalityType
<1>2. ASSUME Reads PROVE OpenLoops' = OpenLoops
  <2>1. ASSUME NEW p PROVE p \in OpenLoops' <=> p \in OpenLoops
    <3>1. IsOpen(p)' <=> IsOpen(p)
      BY <1>2, ReadsFacts
    <3> QED BY <1>0, <1>2, <3>1 DEF OpenLoops, Reads, Extends, Openings
  <2> QED BY <2>1
<1>3. ASSUME Begins
      PROVE  OpenLoops' = IF source'[Len(source')].k = "loop"
                          THEN OpenLoops \cup {Len(source')} ELSE OpenLoops
  <2>1. ASSUME NEW p
        PROVE  p \in OpenLoops' <=> \/ p \in OpenLoops
                                    \/ p = Len(source') /\ source'[p].k = "loop"
    <3>1. IsOpen(p)' <=> IsOpen(p) \/ p = Len(source')
      BY <1>3, BeginsFacts
    <3>2. IsOpen(p) => p \in 1 .. Len(source)
      BY DEF IsOpen, OpenedRight
    <3> QED BY <1>0, <1>3, <3>1, <3>2 DEF OpenLoops, Begins, Extends
  <2> QED BY <2>1
<1>4. ASSUME Closes PROVE OpenLoops' = OpenLoops \ {Top(opened)}
  <2>1. ASSUME NEW p PROVE p \in OpenLoops' <=> p \in OpenLoops /\ p # Top(opened)
    <3>1. IsOpen(p)' <=> IsOpen(p) /\ p # Top(opened)
      BY <1>4, ClosesFacts
    <3>2. IsOpen(p) => p \in 1 .. Len(source)
      BY DEF IsOpen, OpenedRight
    <3> QED BY <1>0, <1>4, <3>1, <3>2 DEF OpenLoops, Closes, Extends
  <2> QED BY <2>1
<1> QED BY <1>1, <1>2, <1>3, <1>4

-------------------------------------------------------------------------------
(* The innermost construct, and the innermost switch.                        *)

LEMMA WithinFacts ==
  ASSUME ParserTypeOK, OpenedRight
  PROVE  /\ Within \in Nat /\ Within <= Len(source)
         /\ Within # 0 <=> opened # <<>>
         /\ Within # 0 => /\ Len(opened) > 0 /\ Within = opened[Len(opened)] /\ Within = Top(opened)
                          /\ Within \in 1 .. Len(source) /\ ~Ended(Within)
                          /\ source[Within].k \in Openings
<1>1. CASE opened = <<>>
  BY <1>1, TypeFacts DEF Within
<1>2. CASE opened # <<>>
  <2>1. Within = Top(opened) /\ Top(opened) = opened[Len(opened)] /\ Len(opened) > 0
        /\ Len(opened) \in Nat
    BY <1>2, TypeFacts DEF Within, Top
  <2>2. Len(opened) \in 1 .. Len(opened)
    BY <2>1
  <2>3. PICK p : p = opened[Len(opened)]
    OBVIOUS
  <2>4. p \in 1 .. Len(source) /\ source[p].k \in Openings /\ ~Ended(p)
    BY <2>2, <2>3 DEF OpenedRight
  <2> QED BY <1>2, <2>1, <2>3, <2>4, TypeFacts
<1> QED BY <1>1, <1>2

LEMMA SwitchFacts ==
  ASSUME ParserTypeOK, OpenedRight, SwitchesRight
  PROVE  /\ Within # 0 /\ source[Within].k = "switch" =>
              Len(switchLevel) > 0 /\ switchLevel[Len(switchLevel)] = Len(opened)
         /\ \A k \in 1 .. Len(switchLevel) :
              /\ switchLevel[k] \in 1 .. Len(opened)
              /\ opened[switchLevel[k]] \in 1 .. Len(source)
              /\ source[opened[switchLevel[k]]].k = "switch"
              /\ opened[switchLevel[k]] <= Within
              /\ opened[switchLevel[k]] = Within => k = Len(switchLevel)
              /\ switchLevel[k] = Len(opened) => k = Len(switchLevel)
<1>0. Len(opened) \in Nat /\ Len(switchLevel) \in Nat
  BY TypeFacts
<1>1. ASSUME Within # 0, source[Within].k = "switch"
      PROVE  Len(switchLevel) > 0 /\ switchLevel[Len(switchLevel)] = Len(opened)
  <2>1. Len(opened) \in 1 .. Len(opened) /\ source[opened[Len(opened)]].k = "switch"
    BY <1>0, <1>1, WithinFacts
  <2>2. PICK k \in 1 .. Len(switchLevel) : switchLevel[k] = Len(opened)
    BY <2>1 DEF SwitchesRight
  <2>3. Len(switchLevel) \in 1 .. Len(switchLevel)
    BY <1>0, <2>2
  <2>4. switchLevel[Len(switchLevel)] \in 1 .. Len(opened)
    BY <2>3 DEF SwitchesRight
  <2>5. k < Len(switchLevel) => switchLevel[k] < switchLevel[Len(switchLevel)]
    BY <2>2, <2>3 DEF SwitchesRight
  <2> QED BY <1>0, <2>2, <2>3, <2>4, <2>5
<1>2. ASSUME NEW k \in 1 .. Len(switchLevel)
      PROVE  /\ switchLevel[k] \in 1 .. Len(opened)
             /\ opened[switchLevel[k]] \in 1 .. Len(source)
             /\ source[opened[switchLevel[k]]].k = "switch"
             /\ opened[switchLevel[k]] <= Within
             /\ opened[switchLevel[k]] = Within => k = Len(switchLevel)
             /\ switchLevel[k] = Len(opened) => k = Len(switchLevel)
  <2>1. switchLevel[k] \in 1 .. Len(opened) /\ source[opened[switchLevel[k]]].k = "switch"
    BY DEF SwitchesRight
  <2>2. PICK j \in 1 .. Len(opened) : j = switchLevel[k]
    BY <2>1
  <2>3. opened[j] \in 1 .. Len(source) /\ Len(opened) \in 1 .. Len(opened)
    BY <1>0, <2>2 DEF OpenedRight
  <2>4. Within = opened[Len(opened)] /\ Within \in Nat
    BY <1>0, <2>2, WithinFacts, TypeFacts
  <2>5. j < Len(opened) => opened[j] < Within
    BY <2>3, <2>4 DEF OpenedRight
  <2>6. Len(switchLevel) \in 1 .. Len(switchLevel)
    BY <1>0
  <2>7. switchLevel[Len(switchLevel)] \in 1 .. Len(opened)
    BY <2>6 DEF SwitchesRight
  <2>8. k < Len(switchLevel) => switchLevel[k] < switchLevel[Len(switchLevel)]
    BY <2>6 DEF SwitchesRight
  <2>9. opened[j] \in Nat
    BY TypeFacts
  <2>10. switchLevel[k] = Len(opened) => k = Len(switchLevel)
    BY <1>0, <2>7, <2>8
  <2>11. opened[j] <= Within /\ (opened[j] = Within => j = Len(opened))
    BY <1>0, <2>4, <2>5, <2>9
  <2> QED BY <2>1, <2>2, <2>3, <2>10, <2>11
<1> QED BY <1>1, <1>2

(* A switch with no labels where nothing pends has just begun.               *)
LEMMA JustBegun ==
  ASSUME ParserTypeOK, OpenedRight, SwitchesRight, SequencesRight,
         NEW k \in 1 .. Len(switchLevel),
         switchSequences[k].labels = {}, ~switchSequences[k].pending
  PROVE  /\ k = Len(switchLevel) /\ opened[switchLevel[k]] = Within /\ Within = Len(source)
         /\ Within # 0 /\ source[Within].k = "switch"
<1>1. opened[switchLevel[k]] = Len(source)
  BY DEF SequencesRight, SequenceRight
<1>2. /\ opened[switchLevel[k]] <= Within /\ opened[switchLevel[k]] \in 1 .. Len(source)
      /\ opened[switchLevel[k]] = Within => k = Len(switchLevel)
      /\ source[opened[switchLevel[k]]].k = "switch"
  BY SwitchFacts
<1>3. Within = Len(source)
  BY <1>1, <1>2, WithinFacts, TypeFacts
<1> QED BY <1>1, <1>2, <1>3, TypeFacts

(* What a statement does to the sequences: something pends in the innermost  *)
(* construct, if that is a switch.                                           *)
LEMMA PendingFacts ==
  ASSUME ParserTypeOK, OpenedRight, SwitchesRight
  PROVE  /\ PendingStatement \in Seq(Sequence)
         /\ Len(PendingStatement) = Len(switchSequences)
         /\ \A k \in 1 .. Len(switchSequences) :
              /\ PendingStatement[k].labels = switchSequences[k].labels
              /\ ~PendingStatement[k].pending => ~switchSequences[k].pending
              /\ (k = Len(switchSequences) /\ Within # 0 /\ source[Within].k = "switch")
                   => PendingStatement[k].pending
<1> DEFINE n == Len(switchSequences)
<1>1. /\ n \in Nat /\ switchSequences \in Seq(Sequence) /\ Len(switchLevel) = n
      /\ \A k \in 1 .. n : switchSequences[k] \in Sequence
  BY TypeFacts DEF ParserTypeOK, SwitchesRight
<1>2. CASE Within # 0 /\ source[Within].k = "switch"
  <2>1. n \in 1 .. n
    BY <1>1, <1>2, SwitchFacts
  <2>2. PendingStatement = [switchSequences EXCEPT ![n] = [@ EXCEPT !.pending = TRUE]]
    BY <1>2 DEF PendingStatement
  <2>3. [switchSequences[n] EXCEPT !.pending = TRUE] \in Sequence
    BY <1>1, <2>1 DEF Sequence
  <2>4. /\ PendingStatement \in Seq(Sequence) /\ Len(PendingStatement) = n
        /\ \A k \in 1 .. n : PendingStatement[k] =
             IF k = n THEN [switchSequences[n] EXCEPT !.pending = TRUE] ELSE switchSequences[k]
    BY <1>1, <2>1, <2>2, <2>3, ExceptSeq
  <2>5. \A k \in 1 .. n : switchSequences[k] \in Sequence
    BY <1>1
  <2> QED BY <2>1, <2>4, <2>5 DEF Sequence
<1>3. CASE ~(Within # 0 /\ source[Within].k = "switch")
  BY <1>1, <1>3 DEF PendingStatement
<1> QED BY <1>2, <1>3

-------------------------------------------------------------------------------
(* Each part of the invariant, through each kind of step.                    *)

One(kind, token) == IF token.k = kind THEN 1 ELSE 0

LEMMA LevelsKept ==
  ASSUME ParserTypeOK, OpenedRight, LevelsRight,
         \/ /\ Reads
            /\ loopNestingLevel' = loopNestingLevel
            /\ statementNestingLevel' = statementNestingLevel
         \/ /\ Begins
            /\ loopNestingLevel' = loopNestingLevel + One("loop", source'[Len(source')])
            /\ statementNestingLevel' = statementNestingLevel + 1
         \/ /\ Closes
            /\ loopNestingLevel' = loopNestingLevel - One("loop", source[Top(opened)])
            /\ statementNestingLevel' = statementNestingLevel - 1
  PROVE  LevelsRight' /\ loopNestingLevel' \in Nat /\ statementNestingLevel' \in Nat
<1>0. /\ IsFiniteSet(OpenLoops) /\ Cardinality(OpenLoops) \in Nat
      /\ loopNestingLevel = Cardinality(OpenLoops)
      /\ statementNestingLevel = Len(opened) /\ Len(opened) \in Nat
  BY LoopsFacts, TypeFacts DEF LevelsRight
<1>1. CASE /\ Reads
           /\ loopNestingLevel' = loopNestingLevel
           /\ statementNestingLevel' = statementNestingLevel
  <2>1. OpenLoops' = OpenLoops /\ opened' = opened
    BY <1>1, LoopsFacts DEF Reads
  <2> QED BY <1>0, <1>1, <2>1 DEF LevelsRight
<1>2. CASE /\ Begins
           /\ loopNestingLevel' = loopNestingLevel + One("loop", source'[Len(source')])
           /\ statementNestingLevel' = statementNestingLevel + 1
  <2>1. Len(opened') = Len(opened) + 1
    BY <1>2, BeginsFacts
  <2>2. Len(source') \notin OpenLoops
    BY <1>2, TypeFacts DEF Begins, OpenLoops
  <2>3. Cardinality(OpenLoops \cup {Len(source')}) = Cardinality(OpenLoops) + 1
    BY <1>0, <2>2, FS_AddElement
  <2>4. OpenLoops' = IF source'[Len(source')].k = "loop"
                     THEN OpenLoops \cup {Len(source')} ELSE OpenLoops
    BY <1>2, LoopsFacts
  <2>5. loopNestingLevel' = Cardinality(OpenLoops')
    BY <1>0, <1>2, <2>3, <2>4 DEF One
  <2> QED BY <1>0, <1>2, <2>1, <2>5 DEF LevelsRight, One
<1>3. CASE /\ Closes
           /\ loopNestingLevel' = loopNestingLevel - One("loop", source[Top(opened)])
           /\ statementNestingLevel' = statementNestingLevel - 1
  <2>1. Len(opened') = Len(opened) - 1 /\ Len(opened) > 0 /\ Top(opened) = opened[Len(opened)]
    BY <1>3, ClosesFacts
  <2>2. OpenLoops' = OpenLoops \ {Top(opened)}
    BY <1>3, LoopsFacts
  <2>3. Cardinality(OpenLoops \ {Top(opened)}) =
          IF Top(opened) \in OpenLoops THEN Cardinality(OpenLoops) - 1 ELSE Cardinality(OpenLoops)
    BY <1>0, FS_RemoveElement
  <2>4. Top(opened) \in OpenLoops <=> source[Top(opened)].k = "loop"
    <3>1. Len(opened) \in 1 .. Len(opened)
      BY <1>0, <2>1
    <3>2. Top(opened) \in 1 .. Len(source) /\ IsOpen(Top(opened))
      BY <2>1, <3>1 DEF OpenedRight, IsOpen
    <3> QED BY <3>2 DEF OpenLoops
  <2>5. Top(opened) \in OpenLoops => Cardinality(OpenLoops) # 0
    BY <1>0, FS_EmptySet
  <2>6. loopNestingLevel' = Cardinality(OpenLoops') /\ loopNestingLevel' \in Nat
    BY <1>0, <1>3, <2>2, <2>3, <2>4, <2>5 DEF One
  <2> QED BY <1>0, <1>3, <2>1, <2>6 DEF LevelsRight
<1> QED BY <1>1, <1>2, <1>3

(* Steps that leave the stacks of switches alone.                            *)
LEMMA SameSwitches ==
  ASSUME ParserTypeOK, OpenedRight, SwitchesRight,
         \/ Reads
         \/ Begins /\ source'[Len(source')].k # "switch"
         \/ Closes /\ source[Top(opened)].k # "switch",
         switchLevel' = switchLevel, Len(switchSequences') = Len(switchSequences)
  PROVE  /\ SwitchesRight'
         /\ \A k \in 1 .. Len(switchLevel) : opened'[switchLevel[k]] = opened[switchLevel[k]]
<1>0. /\ Len(opened) \in Nat /\ Len(switchLevel) \in Nat
      /\ \A i \in 1 .. Len(source) : source'[i] = source[i]
      /\ \A k \in 1 .. Len(opened) : opened[k] \in 1 .. Len(source)
      /\ \A k \in 1 .. Len(switchLevel) : switchLevel[k] \in 1 .. Len(opened)
  BY TypeFacts DEF Reads, Begins, Closes, Extends, OpenedRight, SwitchesRight
<1>1. /\ \A k \in 1 .. Len(switchLevel) :
           switchLevel[k] \in 1 .. Len(opened') /\ opened'[switchLevel[k]] = opened[switchLevel[k]]
      /\ \A j \in 1 .. Len(opened') :
           source'[opened'[j]].k = "switch" =>
             j \in 1 .. Len(opened) /\ opened'[j] = opened[j]
  <2>1. CASE Reads
    BY <1>0, <2>1 DEF Reads
  <2>2. CASE Begins /\ source'[Len(source')].k # "switch"
    <3>1. /\ Len(opened') = Len(opened) + 1 /\ opened'[Len(opened) + 1] = Len(source')
          /\ \A k \in 1 .. Len(opened) : opened'[k] = opened[k]
      BY <2>2, BeginsFacts
    <3> QED BY <1>0, <2>2, <3>1
  <2>3. CASE Closes /\ source[Top(opened)].k # "switch"
    <3>1. /\ Len(opened') = Len(opened) - 1 /\ Len(opened) > 0 /\ Top(opened) = opened[Len(opened)]
          /\ \A k \in 1 .. Len(opened') : opened'[k] = opened[k]
      BY <2>3, ClosesFacts
    <3>2. \A k \in 1 .. Len(switchLevel) : switchLevel[k] # Len(opened)
      BY <2>3, <3>1 DEF SwitchesRight
    <3>3. \A k \in 1 .. Len(switchLevel) : switchLevel[k] \in 1 .. Len(opened')
      BY <1>0, <3>1, <3>2
    <3>4. \A j \in 1 .. Len(opened') : j \in 1 .. Len(opened)
      BY <1>0, <3>1
    <3> QED BY <3>1, <3>3, <3>4, Zenon
  <2> QED BY <2>1, <2>2, <2>3
<1>2. \A k \in 1 .. Len(switchLevel') : /\ switchLevel'[k] \in 1 .. Len(opened')
                                        /\ source'[opened'[switchLevel'[k]]].k = "switch"
  <2> SUFFICES ASSUME NEW k \in 1 .. Len(switchLevel)
               PROVE  /\ switchLevel[k] \in 1 .. Len(opened')
                      /\ source'[opened'[switchLevel[k]]].k = "switch"
    OBVIOUS
  <2>1. source[opened[switchLevel[k]]].k = "switch" /\ opened[switchLevel[k]] \in 1 .. Len(source)
    BY SwitchFacts
  <2> QED BY <1>0, <1>1, <2>1
<1>3. \A j \in 1 .. Len(opened') :
        source'[opened'[j]].k = "switch" => \E k \in 1 .. Len(switchLevel') : switchLevel'[k] = j
  <2> SUFFICES ASSUME NEW j \in 1 .. Len(opened'), source'[opened'[j]].k = "switch"
               PROVE  \E k \in 1 .. Len(switchLevel) : switchLevel[k] = j
    OBVIOUS
  <2>1. j \in 1 .. Len(opened) /\ opened'[j] = opened[j]
    BY <1>1
  <2>2. source[opened[j]].k = "switch"
    BY <1>0, <2>1
  <2> QED BY <2>1, <2>2 DEF SwitchesRight
<1>4. \A j, k \in 1 .. Len(switchLevel') : j < k => switchLevel'[j] < switchLevel'[k]
  BY DEF SwitchesRight
<1>5. Len(switchLevel') = Len(switchSequences')
  BY DEF SwitchesRight
<1> QED BY <1>1, <1>2, <1>3, <1>4, <1>5, Zenon DEF SwitchesRight

LEMMA MoreSwitches ==
  ASSUME ParserTypeOK, OpenedRight, SwitchesRight,
         Begins, source'[Len(source')].k = "switch",
         switchLevel' = Append(switchLevel, Len(opened) + 1),
         Len(switchSequences') = Len(switchSequences) + 1
  PROVE  /\ SwitchesRight'
         /\ switchLevel' \in Seq(Nat) /\ Len(switchLevel') = Len(switchLevel) + 1
         /\ \A k \in 1 .. Len(switchLevel) : /\ switchLevel'[k] = switchLevel[k]
                                             /\ opened'[switchLevel[k]] = opened[switchLevel[k]]
         /\ opened'[switchLevel'[Len(switchLevel) + 1]] = Len(source')
<1> DEFINE n == Len(switchLevel)
<1>0. /\ Len(opened) \in Nat /\ n \in Nat
      /\ \A i \in 1 .. Len(source) : source'[i] = source[i]
      /\ \A k \in 1 .. Len(opened) : opened[k] \in 1 .. Len(source)
      /\ \A k \in 1 .. n : switchLevel[k] \in 1 .. Len(opened)
  BY TypeFacts DEF Begins, Extends, OpenedRight, SwitchesRight
<1>1. /\ switchLevel' \in Seq(Nat) /\ Len(switchLevel') = n + 1
      /\ \A k \in 1 .. n : switchLevel'[k] = switchLevel[k]
      /\ switchLevel'[n + 1] = Len(opened) + 1
  <2>1. Len(opened) + 1 \in Nat /\ switchLevel \in Seq(Nat)
    BY <1>0 DEF ParserTypeOK
  <2> QED BY <2>1, AppendFacts
<1>2. /\ Len(opened') = Len(opened) + 1 /\ opened'[Len(opened) + 1] = Len(source')
      /\ \A k \in 1 .. Len(opened) : opened'[k] = opened[k]
  BY BeginsFacts
<1>3. \A k \in 1 .. n + 1 : /\ switchLevel'[k] \in 1 .. Len(opened')
                            /\ source'[opened'[switchLevel'[k]]].k = "switch"
  <2> TAKE k \in 1 .. n + 1
  <2>1. CASE k = n + 1
    BY <1>0, <1>1, <1>2, <2>1
  <2>2. CASE k \in 1 .. n
    <3>1. /\ source[opened[switchLevel[k]]].k = "switch" /\ opened[switchLevel[k]] \in 1 .. Len(source)
          /\ switchLevel[k] \in 1 .. Len(opened)
      BY <2>2, SwitchFacts
    <3> QED BY <1>0, <1>1, <1>2, <2>2, <3>1
  <2> QED BY <1>0, <2>1, <2>2
<1>4. \A j \in 1 .. Len(opened') :
        source'[opened'[j]].k = "switch" => \E k \in 1 .. n + 1 : switchLevel'[k] = j
  <2> SUFFICES ASSUME NEW j \in 1 .. Len(opened'), source'[opened'[j]].k = "switch"
               PROVE  \E k \in 1 .. n + 1 : switchLevel'[k] = j
    OBVIOUS
  <2>1. CASE j = Len(opened) + 1
    BY <1>0, <1>1, <2>1
  <2>2. CASE j \in 1 .. Len(opened)
    <3>1. source[opened[j]].k = "switch"
      BY <1>0, <1>2, <2>2
    <3>2. PICK k \in 1 .. n : switchLevel[k] = j
      BY <2>2, <3>1 DEF SwitchesRight
    <3> QED BY <1>0, <1>1, <3>2
  <2> QED BY <1>0, <1>2, <2>1, <2>2
<1>5. \A j, k \in 1 .. n + 1 : j < k => switchLevel'[j] < switchLevel'[k]
  BY <1>0, <1>1 DEF SwitchesRight
<1>6. Len(switchLevel') = Len(switchSequences')
  BY <1>1 DEF SwitchesRight
<1>7. SwitchesRight'
  BY <1>1, <1>3, <1>4, <1>5, <1>6 DEF SwitchesRight
<1> QED BY <1>0, <1>1, <1>2, <1>7

LEMMA LessSwitches ==
  ASSUME ParserTypeOK, OpenedRight, SwitchesRight,
         Closes, source[Top(opened)].k = "switch",
         switchLevel' = Popped(switchLevel), switchSequences' = Popped(switchSequences)
  PROVE  /\ SwitchesRight'
         /\ switchLevel' \in Seq(Nat) /\ switchSequences' \in Seq(Sequence)
         /\ Len(switchLevel) > 0 /\ Len(switchLevel') = Len(switchLevel) - 1
         /\ \A k \in 1 .. Len(switchLevel') : /\ switchLevel'[k] = switchLevel[k]
                                              /\ switchSequences'[k] = switchSequences[k]
                                              /\ opened'[switchLevel[k]] = opened[switchLevel[k]]
<1> DEFINE n == Len(switchLevel)
<1>0. /\ Len(opened) \in Nat /\ n \in Nat
      /\ \A i \in 1 .. Len(source) : source'[i] = source[i]
      /\ \A k \in 1 .. Len(opened) : opened[k] \in 1 .. Len(source)
      /\ \A k \in 1 .. n : switchLevel[k] \in 1 .. Len(opened)
  BY TypeFacts DEF Closes, Extends, OpenedRight, SwitchesRight
<1>1. /\ Len(opened') = Len(opened) - 1 /\ Len(opened) > 0 /\ Top(opened) = opened[Len(opened)]
      /\ \A k \in 1 .. Len(opened') : opened'[k] = opened[k]
  BY ClosesFacts
<1>2. n > 0 /\ switchLevel[n] = Len(opened)
  <2>1. Within # 0 /\ Within = Top(opened)
    BY WithinFacts DEF Closes
  <2> QED BY <2>1, SwitchFacts
<1>3. Len(switchSequences) = n /\ switchLevel \in Seq(Nat) /\ switchSequences \in Seq(Sequence)
  BY DEF SwitchesRight, ParserTypeOK
<1>4. switchLevel # <<>> /\ switchSequences # <<>>
  BY <1>0, <1>2, <1>3, EmptySeq
<1>5. /\ switchLevel' \in Seq(Nat) /\ Len(switchLevel') = n - 1
      /\ \A k \in 1 .. n - 1 : switchLevel'[k] = switchLevel[k]
  BY <1>3, <1>4, PoppedFacts
<1>6. /\ switchSequences' \in Seq(Sequence) /\ Len(switchSequences') = n - 1
      /\ \A k \in 1 .. n - 1 : switchSequences'[k] = switchSequences[k]
  BY <1>3, <1>4, PoppedFacts
<1>7. \A k \in 1 .. n - 1 : /\ k \in 1 .. n /\ switchLevel[k] \in 1 .. Len(opened')
                            /\ opened'[switchLevel[k]] = opened[switchLevel[k]]
  <2> SUFFICES ASSUME NEW k \in 1 .. n - 1
               PROVE  k \in 1 .. n /\ switchLevel[k] \in 1 .. Len(opened')
    BY <1>1
  <2>1. k \in 1 .. n /\ n \in 1 .. n /\ k < n
    BY <1>0, <1>2
  <2>2. switchLevel[k] < switchLevel[n]
    BY <2>1 DEF SwitchesRight
  <2> QED BY <1>0, <1>1, <1>2, <2>1, <2>2
<1>8. \A k \in 1 .. n - 1 : /\ switchLevel'[k] \in 1 .. Len(opened')
                            /\ source'[opened'[switchLevel'[k]]].k = "switch"
  <2> TAKE k \in 1 .. n - 1
  <2>1. source[opened[switchLevel[k]]].k = "switch" /\ opened[switchLevel[k]] \in 1 .. Len(source)
    BY <1>7, SwitchFacts
  <2> QED BY <1>0, <1>5, <1>7, <2>1
<1>9. \A j \in 1 .. Len(opened') :
        source'[opened'[j]].k = "switch" => \E k \in 1 .. n - 1 : switchLevel'[k] = j
  <2> SUFFICES ASSUME NEW j \in 1 .. Len(opened'), source'[opened'[j]].k = "switch"
               PROVE  \E k \in 1 .. n - 1 : switchLevel'[k] = j
    BY Zenon
  <2>1. j \in 1 .. Len(opened) /\ j # Len(opened) /\ opened'[j] = opened[j]
    <3>1. \A m : m \in 1 .. Len(opened) - 1 => m \in 1 .. Len(opened) /\ m # Len(opened)
      BY <1>0
    <3> QED BY <1>1, <3>1, Zenon
  <2>2. source[opened[j]].k = "switch"
    BY <1>0, <2>1
  <2>3. PICK k \in 1 .. n : switchLevel[k] = j
    BY <2>1, <2>2 DEF SwitchesRight
  <2>4. k \in 1 .. n - 1
    BY <1>0, <1>2, <2>1, <2>3
  <2> QED BY <1>5, <2>3, <2>4
<1>10. \A j, k \in 1 .. n - 1 : j < k => switchLevel'[j] < switchLevel'[k]
  BY <1>0, <1>5, <1>7 DEF SwitchesRight
<1>11. SwitchesRight'
  BY <1>5, <1>6, <1>8, <1>9, <1>10 DEF SwitchesRight
<1> QED BY <1>0, <1>2, <1>5, <1>6, <1>7, <1>11

(* An open switch in which no label is read.                                 *)
LEMMA SequenceKept ==
  ASSUME ParserTypeOK, OpenedRight, SwitchesRight, SequencesRight, Extends,
         NEW k \in 1 .. Len(switchLevel),
         switchLevel'[k] = switchLevel[k], opened'[switchLevel[k]] = opened[switchLevel[k]],
         switchSequences'[k].labels = switchSequences[k].labels,
         ~switchSequences'[k].pending => ~switchSequences[k].pending,
         (k = Len(switchLevel) /\ Within # 0 /\ source[Within].k = "switch")
           => switchSequences'[k].pending,
         \A i \in Len(source) + 1 .. Len(source') :
           source'[i].k = "label" => source'[i].in # opened[switchLevel[k]]
  PROVE  SequenceRight(k)'
<1> DEFINE p == opened[switchLevel[k]]
<1>0. /\ Len(source) \in Nat /\ Len(source') \in Nat /\ Len(source') > Len(source)
      /\ \A i \in 1 .. Len(source) : source'[i] = source[i]
      /\ p \in 1 .. Len(source)
  BY TypeFacts, SwitchFacts DEF Extends
<1>1. SequenceRight(k)
  BY DEF SequencesRight
<1>2. ASSUME NEW i \in 1 .. Len(source'), source'[i].in = p, source'[i].k = "label"
      PROVE  source'[i].value \in switchSequences'[k].labels
  <2>1. i \in 1 .. Len(source)
    BY <1>0, <1>2
  <2> QED BY <1>0, <1>1, <1>2, <2>1 DEF SequenceRight
<1>3. ASSUME switchSequences'[k].labels # {}
      PROVE  p < Len(source') /\ source'[p + 1].k = "label"
  <2>1. p < Len(source) /\ source[p + 1].k = "label"
    BY <1>1, <1>3 DEF SequenceRight
  <2>2. p + 1 \in 1 .. Len(source)
    BY <1>0, <2>1
  <2> QED BY <1>0, <2>1, <2>2
<1>4. ASSUME switchSequences'[k].labels = {}, ~switchSequences'[k].pending
      PROVE  FALSE
  BY <1>4, JustBegun
<1>5. opened'[switchLevel'[k]] = p
  OBVIOUS
<1> HIDE DEF p
<1> QED BY <1>2, <1>3, <1>4, <1>5 DEF SequenceRight

(* The switches that have ended: new tokens are in what is open, and ends in *)
(* what their construct is in.                                               *)
LEMMA EndedKept ==
  ASSUME ParserTypeOK, OpenedRight, EndedRight,
         \/ Reads \/ Begins,
         \A i \in Len(source) + 1 .. Len(source') : source'[i].in = Within
  PROVE  EndedRight'
<1>0. /\ Len(source) \in Nat /\ Len(source') \in Nat /\ Len(source') > Len(source)
      /\ \A i \in 1 .. Len(source) : source'[i] = source[i]
      /\ \A i \in 1 .. Len(source) : source[i].in < i
  BY TypeFacts DEF Reads, Begins, Extends, OpenedRight
<1>1. ASSUME NEW p \in 1 .. Len(source'), source'[p].k = "switch", Ended(p)',
             NEW i \in 1 .. Len(source'), source'[i].in = p, source'[i].k # "label"
      PROVE  source'[p + 1].k = "label"
  <2>1. Ended(p)
    BY <1>1, ReadsFacts, BeginsFacts
  <2>2. p \in 1 .. Len(source)
    <3>1. PICK j \in 1 .. Len(source) : source[j].k = "end" /\ source[j].of = p
      BY <2>1 DEF Ended
    <3> QED BY <1>0, <3>1 DEF OpenedRight
  <2>3. p # Within
    BY <2>1, <2>2, WithinFacts
  <2>4. i \in 1 .. Len(source)
    BY <1>0, <1>1, <2>3
  <2>5. source[p].k = "switch" /\ source[i].in = p /\ source[i].k # "label"
    BY <1>0, <1>1, <2>2, <2>4
  <2>6. source[p + 1].k = "label" /\ p < i
    BY <1>0, <2>1, <2>2, <2>4, <2>5 DEF EndedRight
  <2>7. p + 1 \in 1 .. Len(source)
    BY <1>0, <2>2, <2>4, <2>6
  <2> QED BY <1>0, <2>6, <2>7
<1> QED BY <1>1 DEF EndedRight

LEMMA EndedMore ==
  ASSUME ParserTypeOK, OpenedRight, EndedRight, Closes,
         \A i \in Len(source) + 1 .. Len(source') - 1 : source'[i].in = Within,
         source'[Len(source')].in = source[Within].in,
         source[Within].k = "switch" =>
           \/ Within < Len(source) /\ source[Within + 1].k = "label"
           \/ Within = Len(source) /\ Len(source') = Len(source) + 1
  PROVE  EndedRight'
<1>0. /\ Len(source) \in Nat /\ Len(source') \in Nat /\ Len(source') > Len(source)
      /\ \A i \in 1 .. Len(source) : source'[i] = source[i]
      /\ \A i \in 1 .. Len(source) : source[i].in < i /\ source[i].in \in Nat
      /\ Within \in 1 .. Len(source) /\ Within = Top(opened)
      /\ source[Within].k \in Openings
  BY TypeFacts, WithinFacts DEF Closes, Extends, OpenedRight
<1>1. ASSUME NEW p \in 1 .. Len(source'), source'[p].k = "switch", Ended(p)',
             NEW i \in 1 .. Len(source'), source'[i].in = p, source'[i].k # "label"
      PROVE  source'[p + 1].k = "label"
  <2>1. CASE p = Within
    <3>1. source[p].k = "switch"
      BY <1>0, <1>1, <2>1
    <3>2. Within < Len(source) /\ source[Within + 1].k = "label"
      <4> SUFFICES ASSUME Within = Len(source), Len(source') = Len(source) + 1
                   PROVE  FALSE
        BY <2>1, <3>1
      <4>1. source[Within].in < Within
        BY <1>0
      <4>2. CASE i \in 1 .. Len(source)
        BY <1>0, <1>1, <2>1, <4>2
      <4>3. CASE i = Len(source')
        BY <1>1, <2>1, <4>1, <4>3, <1>0
      <4> QED BY <1>0, <4>2, <4>3
    <3>3. Within + 1 \in 1 .. Len(source)
      BY <1>0, <3>2
    <3> QED BY <1>0, <2>1, <3>2, <3>3
  <2>2. CASE p # Within
    <3>1. Ended(p)
      BY <1>0, <1>1, <2>2, ClosesFacts
    <3>2. p \in 1 .. Len(source)
      <4>1. PICK j \in 1 .. Len(source) : source[j].k = "end" /\ source[j].of = p
        BY <3>1 DEF Ended
      <4> QED BY <1>0, <4>1 DEF OpenedRight
    <3>3. PICK m \in 1 .. Len(source) : source[m].in = p /\ source[m].k # "label"
      <4>1. CASE i \in 1 .. Len(source)
        BY <1>0, <1>1, <4>1
      <4>2. CASE i \in Len(source) + 1 .. Len(source') - 1
        BY <1>1, <2>2, <4>2
      <4>3. CASE i = Len(source')
        <5>1. source[Within].in = p /\ source[Within].k # "label"
          BY <1>0, <1>1, <4>3 DEF Openings
        <5> QED BY <1>0, <5>1
      <4> QED BY <1>0, <4>1, <4>2, <4>3
    <3>4. source[p].k = "switch"
      BY <1>0, <1>1, <3>2
    <3>5. source[p + 1].k = "label" /\ p < m
      BY <1>0, <3>1, <3>2, <3>3, <3>4 DEF EndedRight
    <3>6. p + 1 \in 1 .. Len(source)
      BY <1>0, <3>2, <3>3, <3>5
    <3> QED BY <1>0, <3>5, <3>6
  <2> QED BY <2>1, <2>2
<1> QED BY <1>1 DEF EndedRight

(* The jumps and labels read before stay right.                              *)
LEMMA JumpsKept ==
  ASSUME ParserTypeOK, OpenedRight, JumpsRight, Extends,
         \A i \in Len(source) + 1 .. Len(source') : JumpRight(i)'
  PROVE  JumpsRight'
<1>0. /\ Len(source) \in Nat /\ Len(source') \in Nat /\ Len(source') > Len(source)
      /\ \A i \in 1 .. Len(source) : source'[i] = source[i]
      /\ \A i \in 1 .. Len(source) : source[i].in < i /\ source[i].in \in Nat
  BY TypeFacts DEF Extends, OpenedRight
<1>1. ASSUME NEW i \in 1 .. Len(source)
      PROVE  JumpRight(i)'
  <2>1. JumpRight(i)
    BY DEF JumpsRight
  <2>2. Around({"loop"}, i)' = Around({"loop"}, i)
        /\ Around({"loop", "switch"}, i)' = Around({"loop", "switch"}, i)
    BY AroundKept
  <2>3. source'[i] = source[i]
    BY <1>0
  <2>4. ASSUME source[i].k = "label"
        PROVE  /\ source'[i].in # 0 /\ source'[source'[i].in].k = "switch"
               /\ \A j \in 1 .. (i - 1) :
                    (source'[j].in = source'[i].in /\ source'[j].k = "label")
                      => source'[j].value # source'[i].value
    <3>1. /\ source[i].in # 0 /\ source[source[i].in].k = "switch"
          /\ \A j \in 1 .. (i - 1) :
               (source[j].in = source[i].in /\ source[j].k = "label")
                 => source[j].value # source[i].value
      BY <2>1, <2>4 DEF JumpRight
    <3>2. source[i].in \in 1 .. Len(source) /\ \A j \in 1 .. (i - 1) : j \in 1 .. Len(source)
      BY <1>0, <3>1
    <3> QED BY <1>0, <2>3, <3>1, <3>2
  <2> QED BY <2>1, <2>2, <2>3, <2>4, Zenon DEF JumpRight
<1>2. \A i \in 1 .. Len(source') : i \in 1 .. Len(source) \/ i \in Len(source) + 1 .. Len(source')
  BY <1>0
<1> QED BY <1>1, <1>2, Zenon DEF JumpsRight

-------------------------------------------------------------------------------
(* The actions.                                                              *)

LEMMA Appended ==
  ASSUME ParserTypeOK, OpenedRight, NEW t \in Token, source' = Append(source, t),
         NEW n \in Nat, n = Len(source), t.in \in Nat, t.in <= n
  PROVE  /\ Extends /\ source' \in Seq(Token)
         /\ Len(source') = n + 1 /\ source'[n + 1] = t
         /\ \A i \in n + 1 .. Len(source') : i = n + 1
         /\ \A i \in n + 1 .. Len(source') : source'[i] = t
<1>1. /\ source' \in Seq(Token) /\ Len(source') = n + 1 /\ source'[n + 1] = t
      /\ \A i \in 1 .. n : source'[i] = source[i]
  BY AppendFacts DEF ParserTypeOK
<1>2. \A i \in n + 1 .. Len(source') : i = n + 1
  BY <1>1
<1> QED BY <1>1, <1>2 DEF Extends

(* A token that begins and ends nothing and is no label.                     *)
LEMMA StatementKeeps ==
  ASSUME ParserTypeOK, Accepted,
         NEW t \in Token, t.in = Within, t.k \notin Openings \cup {"end", "label"},
         source' = Append(source, t),
         UNCHANGED <<opened, loopNestingLevel, statementNestingLevel, switchLevel>>,
         \/ switchSequences' = PendingStatement
         \/ switchSequences' = switchSequences /\ source[Within].k # "switch",
         accepted' \in BOOLEAN,
         NEW n \in Nat, n = Len(source), accepted' => JumpRight(n + 1)'
  PROVE  StatementsIInv'
<1>0. /\ OpenedRight /\ LevelsRight /\ SwitchesRight /\ SequencesRight /\ EndedRight /\ JumpsRight
  BY DEF Accepted
<1>1. Within \in Nat /\ Within <= n
  BY <1>0, WithinFacts
<1>2. /\ Extends /\ source' \in Seq(Token) /\ Len(source') = n + 1 /\ source'[n + 1] = t
      /\ \A i \in n + 1 .. Len(source') : i = n + 1
      /\ \A i \in n + 1 .. Len(source') : source'[i] = t
  BY <1>0, <1>1, Appended
<1>3. Reads
  BY <1>2 DEF Reads
<1>4. OpenedRight' /\ LevelsRight'
  BY <1>0, <1>3, ReadsKeepOpened, LevelsKept
<1>5. /\ switchSequences' \in Seq(Sequence)
      /\ Len(switchSequences') = Len(switchSequences)
      /\ \A k \in 1 .. Len(switchSequences) :
           /\ switchSequences'[k].labels = switchSequences[k].labels
           /\ ~switchSequences'[k].pending => ~switchSequences[k].pending
           /\ (k = Len(switchSequences) /\ Within # 0 /\ source[Within].k = "switch")
                => switchSequences'[k].pending
  <2>1. CASE switchSequences' = PendingStatement
    BY <1>0, <2>1, PendingFacts
  <2>2. CASE switchSequences' = switchSequences /\ source[Within].k # "switch"
    BY <2>2 DEF ParserTypeOK
  <2> QED BY <2>1, <2>2
<1>6. /\ SwitchesRight'
      /\ \A k \in 1 .. Len(switchLevel) : opened'[switchLevel[k]] = opened[switchLevel[k]]
  BY <1>0, <1>3, <1>5, SameSwitches
<1>7. SequencesRight'
  <2> SUFFICES ASSUME NEW k \in 1 .. Len(switchLevel)
               PROVE  SequenceRight(k)'
    BY DEF SequencesRight
  <2>1. Len(switchLevel) = Len(switchSequences)
    BY <1>0 DEF SwitchesRight
  <2> QED BY <1>0, <1>2, <1>5, <1>6, <2>1, SequenceKept
<1>8. EndedRight'
  BY <1>0, <1>2, <1>3, EndedKept
<1>9. accepted' => JumpsRight'
  <2> SUFFICES ASSUME accepted'
               PROVE  \A i \in n + 1 .. Len(source') : JumpRight(i)'
    BY <1>0, <1>2, JumpsKept
  <2> QED BY <1>2
<1>10. ParserTypeOK'
  BY <1>2, <1>5 DEF ParserTypeOK
<1> QED BY <1>4, <1>6, <1>7, <1>8, <1>9, <1>10 DEF StatementsIInv, Accepted

LEMMA PlainKeeps ==
  ASSUME ParserTypeOK, accepted, Accepted, NEW kind \in Plain, PlainStatement(kind)
  PROVE  StatementsIInv'
<1>0. OpenedRight /\ Within \in Nat /\ Len(source) \in Nat
  BY WithinFacts, TypeFacts DEF Accepted
<1>1. PICK t : t = [k |-> kind, in |-> Within]
  OBVIOUS
<1>2. t \in Token /\ t.in = Within /\ t.k = kind
  BY <1>0, <1>1 DEF Token
<1>3. kind \in {"expr", "return", "discard"}
  BY StatementsAssumption
<1>4. PICK n \in Nat : n = Len(source)
  BY <1>0
<1>5. source' = Append(source, t)
  BY <1>1 DEF PlainStatement
<1>6. source'[n + 1] = t
  BY <1>2, <1>4, <1>5, AppendFacts DEF ParserTypeOK
<1>7. JumpRight(n + 1)'
  BY <1>2, <1>3, <1>6 DEF JumpRight
<1>8. t.k \notin Openings \cup {"end", "label"}
  BY <1>2, <1>3 DEF Openings
<1> QED BY <1>2, <1>4, <1>5, <1>7, <1>8, StatementKeeps DEF PlainStatement, ParserTypeOK

(* Where a jump is allowed a construct for it is open.                       *)
LEMMA AllowedIsInside ==
  ASSUME ParserTypeOK, Accepted, NEW kind, JumpAllowed(kind)
  PROVE  \/ \E k \in 1 .. Len(opened) : source[opened[k]].k = "loop"
         \/ kind # "continue" /\ \E k \in 1 .. Len(opened) : source[opened[k]].k = "switch"
<1>0. /\ Len(switchSequences) \in Nat /\ Len(switchLevel) = Len(switchSequences)
      /\ loopNestingLevel \in Nat /\ loopNestingLevel = Cardinality(OpenLoops)
  BY TypeFacts DEF Accepted, SwitchesRight, LevelsRight, ParserTypeOK
<1>1. CASE loopNestingLevel > 0
  <2>1. OpenLoops # {}
    BY <1>0, <1>1, FS_EmptySet
  <2>2. PICK p \in OpenLoops : TRUE
    BY <2>1
  <2> QED BY <2>2 DEF OpenLoops, IsOpen
<1>2. CASE Len(switchSequences) > 0 /\ kind # "continue"
  <2>1. 1 \in 1 .. Len(switchLevel)
    BY <1>0, <1>2
  <2>2. /\ switchLevel[1] \in 1 .. Len(opened)
        /\ source[opened[switchLevel[1]]].k = "switch"
    BY <2>1 DEF Accepted, SwitchesRight
  <2> QED BY <1>2, <2>2
<1> QED BY <1>0, <1>1, <1>2 DEF JumpAllowed

LEMMA JumpKeeps ==
  ASSUME ParserTypeOK, accepted, Accepted, NEW kind \in Jumps, JumpStatement(kind)
  PROVE  StatementsIInv'
<1>0. OpenedRight /\ Within \in Nat /\ Within <= Len(source) /\ Len(source) \in Nat
  BY WithinFacts, TypeFacts DEF Accepted
<1>1. PICK t : t = [k |-> kind, in |-> Within]
  OBVIOUS
<1>2. t \in Token /\ t.in = Within /\ t.k = kind
  BY <1>0, <1>1 DEF Token
<1>3. kind \in {"break", "continue"}
  BY StatementsAssumption
<1>4. PICK n \in Nat : n = Len(source)
  BY <1>0
<1>5. source' = Append(source, t)
  BY <1>1 DEF JumpStatement
<1>6. Extends /\ source'[n + 1] = t
  BY <1>0, <1>2, <1>4, <1>5, Appended
<1>7. ASSUME accepted' PROVE JumpRight(n + 1)'
  <2>1. JumpAllowed(kind)
    BY <1>7 DEF JumpStatement
  <2>2. source'[n + 1].k # "end"
    BY <1>2, <1>3, <1>6
  <2>3. CASE \E k \in 1 .. Len(opened) : source[opened[k]].k = "loop"
    <3>1. Around({"loop"}, n + 1)' # {} /\ Around({"loop", "switch"}, n + 1)' # {}
      BY <1>0, <1>4, <1>6, <2>2, <2>3, OpenIsAround
    <3> QED BY <1>2, <1>3, <1>6, <3>1 DEF JumpRight
  <2>4. CASE kind # "continue" /\ \E k \in 1 .. Len(opened) : source[opened[k]].k = "switch"
    <3>1. Around({"loop", "switch"}, n + 1)' # {}
      BY <1>0, <1>4, <1>6, <2>2, <2>4, OpenIsAround
    <3> QED BY <1>2, <1>3, <1>6, <2>4, <3>1 DEF JumpRight
  <2> QED BY <2>1, <2>3, <2>4, AllowedIsInside
<1>8. t.k \notin Openings \cup {"end", "label"}
  BY <1>2, <1>3 DEF Openings
<1>9. accepted' \in BOOLEAN
  <2>1. JumpAllowed(kind) = TRUE \/ JumpAllowed(kind) = FALSE
    <3>1. CASE kind = "continue"
      <4>1. JumpAllowed(kind) = (loopNestingLevel > 0)
        BY <3>1, Zenon DEF JumpAllowed
      <4> QED BY <4>1
    <3>2. CASE kind # "continue"
      <4>1. JumpAllowed(kind) = (loopNestingLevel + Len(switchSequences) > 0)
        BY <3>2, Zenon DEF JumpAllowed
      <4> QED BY <4>1
    <3> QED BY <3>1, <3>2
  <2> QED BY <2>1, Zenon DEF JumpStatement
<1> QED BY <1>2, <1>4, <1>5, <1>7, <1>8, <1>9, StatementKeeps DEF JumpStatement

LEMMA ElseKeeps ==
  ASSUME ParserTypeOK, accepted, Accepted, Else
  PROVE  StatementsIInv'
<1>0. OpenedRight /\ Within \in Nat /\ Len(source) \in Nat
  BY WithinFacts, TypeFacts DEF Accepted
<1>1. PICK t : t = [k |-> "else", in |-> Within, of |-> Within]
  OBVIOUS
<1>2. t \in Token /\ t.in = Within /\ t.k = "else"
  BY <1>0, <1>1 DEF Token
<1>3. PICK n \in Nat : n = Len(source)
  BY <1>0
<1>4. source' = Append(source, t) /\ source[Within].k = "if"
  BY <1>1 DEF Else
<1>5. source'[n + 1] = t
  BY <1>2, <1>3, <1>4, AppendFacts DEF ParserTypeOK
<1>6. JumpRight(n + 1)'
  BY <1>2, <1>5 DEF JumpRight
<1>7. t.k \notin Openings \cup {"end", "label"}
  BY <1>2 DEF Openings
<1> QED BY <1>2, <1>3, <1>4, <1>6, <1>7, StatementKeeps DEF Else, ParserTypeOK

(* The beginning of an if or a loop.                                         *)
LEMMA BeginKeeps ==
  ASSUME ParserTypeOK, accepted, Accepted,
         NEW t \in Token, t.in = Within, t.k \in {"if", "loop"},
         source' = Append(source, t),
         opened' = Append(opened, Here),
         loopNestingLevel' = loopNestingLevel + One("loop", t),
         statementNestingLevel' = statementNestingLevel + 1,
         switchSequences' = PendingStatement,
         UNCHANGED <<switchLevel, accepted>>
  PROVE  StatementsIInv'
<1>0. /\ OpenedRight /\ LevelsRight /\ SwitchesRight /\ SequencesRight /\ EndedRight /\ JumpsRight
  BY DEF Accepted
<1>1. Within \in Nat /\ Within <= Len(source) /\ Len(source) \in Nat
  BY <1>0, WithinFacts, TypeFacts
<1>2. PICK n \in Nat : n = Len(source)
  BY <1>1
<1>3. /\ Extends /\ source' \in Seq(Token) /\ Len(source') = n + 1 /\ source'[n + 1] = t
      /\ \A i \in n + 1 .. Len(source') : i = n + 1
      /\ \A i \in n + 1 .. Len(source') : source'[i] = t
  BY <1>0, <1>1, <1>2, Appended
<1>4. Begins /\ opened' \in Seq(Nat) /\ source'[Len(source')] = t
  <2>1. opened' = Append(opened, n + 1) /\ n + 1 \in Nat
    BY <1>2 DEF Here
  <2>2. opened' \in Seq(Nat)
    BY <2>1, AppendFacts DEF ParserTypeOK
  <2> QED BY <1>2, <1>3, <2>1, <2>2 DEF Begins, Openings
<1>5. OpenedRight' /\ LevelsRight' /\ loopNestingLevel' \in Nat /\ statementNestingLevel' \in Nat
  BY <1>0, <1>4, BeginsKeepOpened, LevelsKept
<1>6. /\ switchSequences' \in Seq(Sequence)
      /\ Len(switchSequences') = Len(switchSequences)
      /\ \A k \in 1 .. Len(switchSequences) :
           /\ switchSequences'[k].labels = switchSequences[k].labels
           /\ ~switchSequences'[k].pending => ~switchSequences[k].pending
           /\ (k = Len(switchSequences) /\ Within # 0 /\ source[Within].k = "switch")
                => switchSequences'[k].pending
  BY <1>0, PendingFacts
<1>7. /\ SwitchesRight'
      /\ \A k \in 1 .. Len(switchLevel) : opened'[switchLevel[k]] = opened[switchLevel[k]]
  BY <1>0, <1>4, <1>6, SameSwitches
<1>8. SequencesRight'
  <2> SUFFICES ASSUME NEW k \in 1 .. Len(switchLevel)
               PROVE  SequenceRight(k)'
    BY DEF SequencesRight
  <2>1. Len(switchLevel) = Len(switchSequences)
    BY <1>0 DEF SwitchesRight
  <2> QED BY <1>0, <1>2, <1>3, <1>6, <1>7, <2>1, SequenceKept
<1>9. EndedRight'
  BY <1>0, <1>2, <1>3, <1>4, EndedKept
<1>10. JumpsRight'
  <2>1. JumpRight(n + 1)'
    BY <1>3 DEF JumpRight
  <2>2. \A i \in n + 1 .. Len(source') : JumpRight(i)'
    BY <1>3, <2>1
  <2> QED BY <1>0, <1>2, <1>3, <2>2, JumpsKept
<1>11. ParserTypeOK'
  BY <1>3, <1>4, <1>5, <1>6 DEF ParserTypeOK
<1> QED BY <1>5, <1>7, <1>8, <1>9, <1>10, <1>11 DEF StatementsIInv, Accepted

LEMMA OpenIfKeeps ==
  ASSUME ParserTypeOK, accepted, Accepted, NEW op \in IfOperators, OpenIf(op)
  PROVE  StatementsIInv'
<1>0. Within \in Nat
  BY WithinFacts DEF Accepted
<1>1. PICK t : t = [k |-> "if", in |-> Within, op |-> op]
  OBVIOUS
<1>2. t \in Token /\ t.in = Within /\ t.k = "if"
  BY <1>0, <1>1 DEF Token
<1>3. loopNestingLevel' = loopNestingLevel + One("loop", t)
  BY <1>2 DEF OpenIf, One, ParserTypeOK
<1>4. source' = Append(source, t)
  BY <1>1 DEF OpenIf
<1> QED BY <1>2, <1>3, <1>4, BeginKeeps DEF OpenIf

LEMMA OpenLoopKeeps ==
  ASSUME ParserTypeOK, accepted, Accepted, NEW shape \in LoopShapes, OpenLoop(shape)
  PROVE  StatementsIInv'
<1>0. Within \in Nat
  BY WithinFacts DEF Accepted
<1>1. PICK t : t = [k |-> "loop", in |-> Within, first |-> shape.first,
                    test |-> shape.test, term |-> shape.term, op |-> shape.op]
  OBVIOUS
<1>2. t \in Token /\ t.in = Within /\ t.k = "loop"
  <2>1. shape \in [first : BOOLEAN, test : BOOLEAN, term : BOOLEAN, op : {"plain", "and", "or"}]
    BY StatementsAssumption
  <2>2. /\ shape.first \in BOOLEAN /\ shape.test \in BOOLEAN /\ shape.term \in BOOLEAN
        /\ shape.op \in {"plain", "and", "or"}
    BY <2>1
  <2>3. t \in [k : {"loop"}, in : Nat, first : BOOLEAN, test : BOOLEAN, term : BOOLEAN,
               op : {"plain", "and", "or"}]
    BY <1>0, <1>1, <2>2
  <2> QED BY <1>1, <2>3 DEF Token
<1>3. loopNestingLevel' = loopNestingLevel + One("loop", t)
  BY <1>2 DEF OpenLoop, One
<1>4. source' = Append(source, t)
  BY <1>1 DEF OpenLoop
<1> QED BY <1>2, <1>3, <1>4, BeginKeeps DEF OpenLoop

(* The end of an if or a loop.                                               *)
LEMMA EndKeeps ==
  ASSUME ParserTypeOK, accepted, Accepted,
         Within # 0, source[Within].k \in {"if", "loop"},
         source' = Append(source, [k |-> "end", in |-> source[Within].in, of |-> Within]),
         opened' = Popped(opened),
         loopNestingLevel' = loopNestingLevel - One("loop", source[Within]),
         statementNestingLevel' = statementNestingLevel - 1,
         UNCHANGED <<switchLevel, switchSequences, accepted>>
  PROVE  StatementsIInv'
<1>0. /\ OpenedRight /\ LevelsRight /\ SwitchesRight /\ SequencesRight /\ EndedRight /\ JumpsRight
  BY DEF Accepted
<1>1. /\ Within \in 1 .. Len(source) /\ Len(source) \in Nat /\ opened # <<>>
      /\ source[Within].in \in Nat /\ source[Within].in < Within /\ Within = Top(opened)
  BY <1>0, WithinFacts, TypeFacts DEF OpenedRight
<1>2. PICK n \in Nat : n = Len(source)
  BY <1>1
<1>3. PICK t : t = [k |-> "end", in |-> source[Within].in, of |-> Within]
  OBVIOUS
<1>4. t \in Token /\ t.in = source[Within].in /\ t.k = "end" /\ t.of = Within
  BY <1>1, <1>3 DEF Token
<1>5. /\ Extends /\ source' \in Seq(Token) /\ Len(source') = n + 1 /\ source'[n + 1] = t
      /\ \A i \in n + 1 .. Len(source') : i = n + 1
      /\ \A i \in n + 1 .. Len(source') : source'[i] = t
  BY <1>0, <1>1, <1>2, <1>3, <1>4, Appended
<1>6. Closes /\ opened' \in Seq(Nat)
  <2>1. opened' \in Seq(Nat)
    BY <1>1, PoppedFacts DEF ParserTypeOK
  <2>2. /\ source'[Len(source')].k = "end" /\ source'[Len(source')].of = Top(opened)
        /\ \A i \in Len(source) + 1 .. Len(source') - 1 : FALSE
    BY <1>1, <1>2, <1>4, <1>5
  <2> QED BY <1>1, <1>5, <2>1, <2>2 DEF Closes
<1>7. OpenedRight' /\ LevelsRight' /\ loopNestingLevel' \in Nat /\ statementNestingLevel' \in Nat
  BY <1>0, <1>1, <1>6, ClosesKeepOpened, LevelsKept
<1>8. /\ SwitchesRight'
      /\ \A k \in 1 .. Len(switchLevel) : opened'[switchLevel[k]] = opened[switchLevel[k]]
  BY <1>0, <1>1, <1>6, SameSwitches
<1>9. SequencesRight'
  <2> SUFFICES ASSUME NEW k \in 1 .. Len(switchLevel)
               PROVE  SequenceRight(k)'
    BY DEF SequencesRight
  <2>1. \A i \in n + 1 .. Len(source') : source'[i].k # "label"
    BY <1>4, <1>5
  <2> QED BY <1>0, <1>2, <1>5, <1>8, <2>1, SequenceKept
<1>10. EndedRight'
  <2>1. /\ \A i \in Len(source) + 1 .. Len(source') - 1 : source'[i].in = Within
        /\ source'[Len(source')].in = source[Within].in
    BY <1>2, <1>4, <1>5
  <2> QED BY <1>0, <1>6, <2>1, EndedMore
<1>11. JumpsRight'
  <2>1. JumpRight(n + 1)'
    BY <1>4, <1>5 DEF JumpRight
  <2>2. \A i \in n + 1 .. Len(source') : JumpRight(i)'
    BY <1>5, <2>1
  <2> QED BY <1>0, <1>2, <1>5, <2>2, JumpsKept
<1>12. ParserTypeOK'
  BY <1>5, <1>6, <1>7 DEF ParserTypeOK
<1> QED BY <1>7, <1>8, <1>9, <1>10, <1>11, <1>12 DEF StatementsIInv, Accepted

LEMMA EndIfKeeps ==
  ASSUME ParserTypeOK, accepted, Accepted, EndIf
  PROVE  StatementsIInv'
<1>1. loopNestingLevel' = loopNestingLevel - One("loop", source[Within])
  BY DEF EndIf, One, ParserTypeOK
<1> QED BY <1>1, EndKeeps DEF EndIf

LEMMA EndLoopKeeps ==
  ASSUME ParserTypeOK, accepted, Accepted, EndLoop
  PROVE  StatementsIInv'
<1>1. loopNestingLevel' = loopNestingLevel - One("loop", source[Within])
  BY DEF EndLoop, LevelAfterLoop, One
<1> QED BY <1>1, EndKeeps DEF EndLoop

LEMMA OpenSwitchKeeps ==
  ASSUME ParserTypeOK, accepted, Accepted, OpenSwitch
  PROVE  StatementsIInv'
<1>0. /\ OpenedRight /\ LevelsRight /\ SwitchesRight /\ SequencesRight /\ EndedRight /\ JumpsRight
  BY DEF Accepted
<1>1. /\ Within \in Nat /\ Within <= Len(source) /\ Len(source) \in Nat
      /\ Len(switchLevel) \in Nat /\ Len(switchSequences) = Len(switchLevel)
      /\ statementNestingLevel = Len(opened)
  BY <1>0, WithinFacts, TypeFacts DEF SwitchesRight, LevelsRight
<1>2. PICK n \in Nat : n = Len(source)
  BY <1>1
<1>3. PICK t : t = [k |-> "switch", in |-> Within]
  OBVIOUS
<1>4. t \in Token /\ t.in = Within /\ t.k = "switch" /\ source' = Append(source, t)
  BY <1>1, <1>3 DEF Token, OpenSwitch
<1>5. /\ Extends /\ source' \in Seq(Token) /\ Len(source') = n + 1 /\ source'[n + 1] = t
      /\ \A i \in n + 1 .. Len(source') : i = n + 1
      /\ \A i \in n + 1 .. Len(source') : source'[i] = t
  BY <1>0, <1>1, <1>2, <1>4, Appended
<1>6. Begins /\ opened' \in Seq(Nat) /\ source'[Len(source')] = t
  <2>1. opened' = Append(opened, n + 1) /\ n + 1 \in Nat
    BY <1>2 DEF Here, OpenSwitch
  <2>2. opened' \in Seq(Nat)
    BY <2>1, AppendFacts DEF ParserTypeOK
  <2> QED BY <1>2, <1>4, <1>5, <2>1, <2>2 DEF Begins, Openings
<1>7. OpenedRight' /\ LevelsRight' /\ loopNestingLevel' \in Nat /\ statementNestingLevel' \in Nat
  <2>1. /\ loopNestingLevel' = loopNestingLevel + One("loop", source'[Len(source')])
        /\ statementNestingLevel' = statementNestingLevel + 1
    BY <1>4, <1>6 DEF OpenSwitch, One, ParserTypeOK
  <2> QED BY <1>0, <1>6, <2>1, BeginsKeepOpened, LevelsKept
<1> DEFINE new == [labels |-> {}, pending |-> FALSE]
           m == Len(switchLevel)
<1>8. /\ PendingStatement \in Seq(Sequence) /\ Len(PendingStatement) = m
      /\ \A k \in 1 .. m :
           /\ PendingStatement[k].labels = switchSequences[k].labels
           /\ ~PendingStatement[k].pending => ~switchSequences[k].pending
           /\ (k = m /\ Within # 0 /\ source[Within].k = "switch")
                => PendingStatement[k].pending
  BY <1>0, <1>1, PendingFacts
<1>9. /\ switchSequences' \in Seq(Sequence) /\ Len(switchSequences') = m + 1
      /\ switchSequences'[m + 1].labels = {}
      /\ \A k \in 1 .. m : switchSequences'[k] = PendingStatement[k]
  <2>1. new \in Sequence
    BY DEF Sequence
  <2>2. switchSequences' = Append(PendingStatement, new)
    BY DEF OpenSwitch
  <2>3. switchSequences'[m + 1] = new
    BY <1>8, <2>1, <2>2, AppendFacts
  <2> QED BY <1>8, <2>1, <2>2, <2>3, AppendFacts
<1>10. /\ SwitchesRight'
       /\ switchLevel' \in Seq(Nat) /\ Len(switchLevel') = m + 1
       /\ \A k \in 1 .. m : /\ switchLevel'[k] = switchLevel[k]
                            /\ opened'[switchLevel[k]] = opened[switchLevel[k]]
       /\ opened'[switchLevel'[m + 1]] = Len(source')
  <2>1. switchLevel' = Append(switchLevel, Len(opened) + 1)
    BY <1>1 DEF OpenSwitch
  <2> QED BY <1>0, <1>1, <1>4, <1>6, <1>9, <2>1, MoreSwitches
<1>11. SequencesRight'
  <2>1. ASSUME NEW k \in 1 .. m
        PROVE  SequenceRight(k)'
    BY <1>0, <1>2, <1>4, <1>5, <1>8, <1>9, <1>10, SequenceKept
  <2>2. ASSUME NEW k, k = m + 1
        PROVE  SequenceRight(k)'
    <3>1. opened'[switchLevel'[k]] = n + 1 /\ switchSequences'[k].labels = {}
      BY <1>5, <1>9, <1>10, <2>2
    <3>2. ~\E i \in 1 .. Len(source') : source'[i].k = "label" /\ source'[i].in = n + 1
      <4> SUFFICES ASSUME NEW i \in 1 .. n + 1, source'[i].k = "label", source'[i].in = n + 1
                   PROVE  FALSE
        BY <1>5
      <4>1. i # n + 1
        BY <1>4, <1>5
      <4>2. i \in 1 .. Len(source) /\ source'[i] = source[i]
        BY <1>2, <1>5, <4>1 DEF Extends
      <4>3. source[i].in < i
        BY <1>0, <4>2 DEF OpenedRight
      <4> QED BY <1>2, <4>2, <4>3
    <3> QED BY <1>5, <3>1, <3>2 DEF SequenceRight
  <2>3. \A k \in 1 .. Len(switchLevel') : k \in 1 .. m \/ k = m + 1
    BY <1>1, <1>10
  <2> QED BY <2>1, <2>2, <2>3, Zenon DEF SequencesRight
<1>12. EndedRight'
  BY <1>0, <1>2, <1>4, <1>5, <1>6, EndedKept
<1>13. JumpsRight'
  <2>1. JumpRight(n + 1)'
    BY <1>4, <1>5 DEF JumpRight
  <2>2. \A i \in n + 1 .. Len(source') : JumpRight(i)'
    BY <1>5, <2>1
  <2> QED BY <1>0, <1>2, <1>5, <2>2, JumpsKept
<1>14. ParserTypeOK'
  BY <1>5, <1>6, <1>7, <1>9, <1>10 DEF ParserTypeOK, OpenSwitch
<1> QED BY <1>7, <1>10, <1>11, <1>12, <1>13, <1>14 DEF StatementsIInv, Accepted

LEMMA LabelKeeps ==
  ASSUME ParserTypeOK, accepted, Accepted, NEW value \in Labels, Label(value)
  PROVE  StatementsIInv'
<1>0. /\ OpenedRight /\ LevelsRight /\ SwitchesRight /\ SequencesRight /\ EndedRight /\ JumpsRight
  BY DEF Accepted
<1> DEFINE m == Len(switchLevel)
<1>1. /\ Within \in Nat /\ Within <= Len(source) /\ Len(source) \in Nat
      /\ m \in Nat /\ Len(switchSequences) = m
      /\ statementNestingLevel = Len(opened) /\ Len(opened) \in Nat
  BY <1>0, WithinFacts, TypeFacts DEF SwitchesRight, LevelsRight
<1>2. PICK n \in Nat : n = Len(source)
  BY <1>1
<1>3. PICK t : t = [k |-> "label", in |-> Within, value |-> value]
  OBVIOUS
<1>4. t \in Token /\ t.in = Within /\ t.k = "label" /\ t.value = value
      /\ source' = Append(source, t)
  BY <1>1, <1>3 DEF Token, Label
<1>5. /\ Extends /\ source' \in Seq(Token) /\ Len(source') = n + 1 /\ source'[n + 1] = t
      /\ \A i \in n + 1 .. Len(source') : i = n + 1
      /\ \A i \in n + 1 .. Len(source') : source'[i] = t
  BY <1>0, <1>1, <1>2, <1>4, Appended
<1>6. Reads
  BY <1>4, <1>5 DEF Reads, Openings, Label
<1>7. accepted' \in BOOLEAN /\ (accepted' <=> LabelFits(value))
  BY DEF Label, LabelFits
<1>8. CASE ~LabelFits(value)
  <2>1. switchSequences' = switchSequences
    BY <1>8 DEF Label
  <2>2. ParserTypeOK'
    BY <1>5, <1>7, <2>1 DEF ParserTypeOK, Label
  <2> QED BY <1>7, <1>8, <2>2 DEF StatementsIInv
<1>9. CASE LabelFits(value)
  <2> DEFINE s == switchSequences[m]
  <2>1. /\ m > 0 /\ m \in 1 .. m /\ switchLevel[m] = Len(opened)
        /\ value \notin s.labels /\ ~(s.pending /\ s.labels = {})
    <3>1. switchLevel # <<>> /\ Top(switchLevel) = statementNestingLevel
      BY <1>9 DEF LabelFits, LabelInList
    <3>2. m > 0
      BY <1>1, <3>1, TypeFacts
    <3>3. Top(switchLevel) = switchLevel[m] /\ Top(switchSequences) = s
      BY <1>1 DEF Top
    <3> QED BY <1>1, <1>9, <3>1, <3>2, <3>3 DEF LabelFits
  <2>2. /\ Within # 0 /\ source[Within].k = "switch" /\ opened[switchLevel[m]] = Within
        /\ Within \in 1 .. Len(source)
    <3>1. switchLevel[m] \in 1 .. Len(opened) /\ source[opened[switchLevel[m]]].k = "switch"
      BY <1>0, <2>1, SwitchFacts
    <3>2. opened # <<>>
      BY <1>1, <3>1, TypeFacts
    <3> QED BY <1>0, <2>1, <3>1, <3>2, WithinFacts
  <2>3. SequenceRight(m)
    BY <1>0, <2>1 DEF SequencesRight
  <2> DEFINE new == [labels |-> s.labels \cup {value}, pending |-> FALSE]
  <2>4. /\ switchSequences' \in Seq(Sequence) /\ Len(switchSequences') = m
        /\ \A k \in 1 .. m : k # m => switchSequences'[k] = switchSequences[k]
        /\ switchSequences'[m].labels = s.labels \cup {value}
    <3>1. s \in Sequence /\ new \in Sequence
      BY <1>1, <2>1, TypeFacts DEF Sequence
    <3>2. switchSequences' = [switchSequences EXCEPT ![m] = new]
      BY <1>1, <1>9 DEF Label
    <3>3. /\ switchSequences' \in Seq(Sequence) /\ Len(switchSequences') = m
          /\ \A k \in 1 .. m : switchSequences'[k] = IF k = m THEN new ELSE switchSequences[k]
      BY <1>1, <2>1, <3>1, <3>2, ExceptSeq DEF ParserTypeOK
    <3> QED BY <2>1, <3>3
  <2>5. OpenedRight' /\ LevelsRight'
    BY <1>0, <1>6, ReadsKeepOpened, LevelsKept DEF Label
  <2>6. /\ SwitchesRight' /\ switchLevel' = switchLevel
        /\ \A k \in 1 .. m : opened'[switchLevel[k]] = opened[switchLevel[k]]
    BY <1>0, <1>1, <1>6, <2>4, SameSwitches DEF Label
  <2>7. SequencesRight'
    <3>1. ASSUME NEW k \in 1 .. m, k # m
          PROVE  SequenceRight(k)'
      <4>1. opened[switchLevel[k]] # Within
        BY <1>0, <3>1, SwitchFacts
      <4>2. \A i \in n + 1 .. Len(source') : source'[i].in # opened[switchLevel[k]]
        BY <1>4, <1>5, <4>1
      <4> QED BY <1>0, <1>2, <1>5, <2>4, <2>6, <3>1, <4>2, SequenceKept
    <3>2. ASSUME NEW k, k = m
          PROVE  SequenceRight(k)'
      <4>1. opened'[switchLevel'[k]] = Within
        BY <2>1, <2>2, <2>6, <3>2
      <4>2. ASSUME NEW i \in 1 .. Len(source'), source'[i].in = Within, source'[i].k = "label"
            PROVE  source'[i].value \in switchSequences'[k].labels
        <5>1. CASE i = n + 1
          BY <1>4, <1>5, <2>4, <3>2, <5>1
        <5>2. CASE i \in 1 .. Len(source)
          <6>1. source'[i] = source[i]
            BY <1>5, <5>2 DEF Extends
          <6> QED BY <2>2, <2>3, <2>4, <3>2, <4>2, <5>2, <6>1 DEF SequenceRight
        <5> QED BY <1>2, <1>5, <5>1, <5>2
      <4>3. Within < Len(source') /\ source'[Within + 1].k = "label"
        <5>1. CASE s.labels = {}
          <6>1. Within = n
            BY <1>2, <2>1, <2>2, <2>3, <5>1 DEF SequenceRight
          <6> QED BY <1>4, <1>5, <6>1
        <5>2. CASE s.labels # {}
          <6>1. Within < Len(source) /\ source[Within + 1].k = "label"
            BY <2>2, <2>3, <5>2 DEF SequenceRight
          <6>2. Within + 1 \in 1 .. Len(source)
            BY <1>1, <6>1
          <6>3. source'[Within + 1] = source[Within + 1]
            BY <1>5, <6>2 DEF Extends
          <6>4. Within < n + 1
            BY <1>1, <1>2, <6>1
          <6> QED BY <1>5, <6>1, <6>3, <6>4
        <5> QED BY <5>1, <5>2
      <4>4. switchSequences'[k].labels # {}
        BY <2>4, <3>2
      <4> QED BY <4>1, <4>2, <4>3, <4>4 DEF SequenceRight
    <3> QED BY <2>6, <3>1, <3>2, Zenon DEF SequencesRight
  <2>8. EndedRight'
    BY <1>0, <1>2, <1>4, <1>5, <1>6, EndedKept
  <2>9. JumpsRight'
    <3>1. /\ source'[n + 1].in # 0 /\ source'[source'[n + 1].in].k = "switch"
      BY <1>4, <1>5, <2>2 DEF Extends
    <3>2. \A j \in 1 .. (n + 1) - 1 :
            (source'[j].in = source'[n + 1].in /\ source'[j].k = "label")
              => source'[j].value # source'[n + 1].value
      <4> SUFFICES ASSUME NEW j \in 1 .. n, source'[j].in = Within, source'[j].k = "label"
                   PROVE  source'[j].value # value
        BY <1>4, <1>5
      <4>1. j \in 1 .. Len(source) /\ source'[j] = source[j]
        BY <1>2, <1>5 DEF Extends
      <4>2. source[j].value \in s.labels
        BY <2>2, <2>3, <4>1 DEF SequenceRight
      <4> QED BY <2>1, <4>1, <4>2
    <3>3. JumpRight(n + 1)'
      BY <1>4, <1>5, <3>1, <3>2 DEF JumpRight
    <3>4. \A i \in n + 1 .. Len(source') : JumpRight(i)'
      BY <1>5, <3>3
    <3> QED BY <1>0, <1>2, <1>5, <3>4, JumpsKept
  <2>10. ParserTypeOK'
    BY <1>5, <1>7, <2>4 DEF ParserTypeOK, Label
  <2> QED BY <2>5, <2>6, <2>7, <2>8, <2>9, <2>10 DEF StatementsIInv, Accepted
<1> QED BY <1>8, <1>9

(* The end of a switch: two tokens when its last label has no statements.    *)
LEMMA EndSwitchText ==
  ASSUME ParserTypeOK, Accepted, EndSwitch, NEW n \in Nat, n = Len(source)
  PROVE  /\ Extends /\ source' \in Seq(Token) /\ Len(source') \in {n + 1, n + 2}
         /\ source'[Len(source')].k = "end" /\ source'[Len(source')].of = Within
         /\ source'[Len(source')].in = source[Within].in
         /\ \A i \in n + 1 .. Len(source') - 1 :
              i = n + 1 /\ source'[i].k = "break" /\ source'[i].in = Within
         /\ Len(source') = n + 2 => Top(switchSequences).labels # {}
<1>0. /\ Within \in 1 .. Len(source) /\ source[Within].in \in Nat /\ source[Within].in < Within
  <2>1. Within \in 1 .. Len(source)
    BY WithinFacts DEF Accepted, EndSwitch
  <2> QED BY <2>1, TypeFacts DEF Accepted, OpenedRight
<1>1. PICK t : t = [k |-> "end", in |-> source[Within].in, of |-> Within]
  OBVIOUS
<1>2. t \in Token /\ t.in = source[Within].in /\ t.k = "end" /\ t.of = Within
  BY <1>0, <1>1 DEF Token
<1>3. PICK b : b = [k |-> "break", in |-> Within]
  OBVIOUS
<1>4. b \in Token /\ b.in = Within /\ b.k = "break"
  BY <1>0, <1>3 DEF Token
<1>5. CASE Top(switchSequences).labels # {} /\ ~Top(switchSequences).pending
  <2>1. source' = source \o <<b, t>>
    BY <1>1, <1>3, <1>5 DEF EndSwitch
  <2>2. PICK two : two = <<b, t>>
    OBVIOUS
  <2>3. two \in Seq(Token) /\ Len(two) = 2 /\ two[1] = b /\ two[2] = t
    BY <1>2, <1>4, <2>2
  <2>4. /\ source' \in Seq(Token) /\ Len(source') = n + 2
        /\ \A i \in 1 .. n + 2 : source'[i] = IF i <= n THEN source[i] ELSE two[i - n]
    BY <2>1, <2>2, <2>3, ConcatProperties DEF ParserTypeOK
  <2>5. /\ source'[n + 1] = b /\ source'[n + 2] = t
        /\ \A i \in 1 .. n : source'[i] = source[i]
    BY <2>3, <2>4
  <2>6. /\ \A i \in n + 1 .. Len(source') : i = n + 1 \/ i = n + 2
        /\ \A i \in n + 1 .. Len(source') - 1 : i = n + 1
    BY <2>4
  <2>7. Extends
    BY <1>0, <1>2, <1>4, <2>4, <2>5, <2>6 DEF Extends
  <2> QED BY <1>2, <1>4, <1>5, <2>4, <2>5, <2>6, <2>7
<1>6. CASE ~(Top(switchSequences).labels # {} /\ ~Top(switchSequences).pending)
  <2>1. source' = source \o <<t>>
    BY <1>1, <1>6 DEF EndSwitch
  <2>2. PICK one : one = <<t>>
    OBVIOUS
  <2>3. one \in Seq(Token) /\ Len(one) = 1 /\ one[1] = t
    BY <1>2, <2>2
  <2>4. /\ source' \in Seq(Token) /\ Len(source') = n + 1
        /\ \A i \in 1 .. n + 1 : source'[i] = IF i <= n THEN source[i] ELSE one[i - n]
    BY <2>1, <2>2, <2>3, ConcatProperties DEF ParserTypeOK
  <2>5. /\ source'[n + 1] = t
        /\ \A i \in 1 .. n : source'[i] = source[i]
    BY <2>3, <2>4
  <2>6. /\ \A i \in n + 1 .. Len(source') : i = n + 1
        /\ \A i \in n + 1 .. Len(source') - 1 : FALSE
    BY <2>4
  <2>7. Extends
    BY <1>0, <1>2, <2>4, <2>5, <2>6 DEF Extends
  <2> QED BY <1>2, <2>4, <2>5, <2>6, <2>7
<1> QED BY <1>5, <1>6

LEMMA EndSwitchKeeps ==
  ASSUME ParserTypeOK, accepted, Accepted, EndSwitch
  PROVE  StatementsIInv'
<1>0. /\ OpenedRight /\ LevelsRight /\ SwitchesRight /\ SequencesRight /\ EndedRight /\ JumpsRight
  BY DEF Accepted
<1> DEFINE m == Len(switchLevel)
<1>1. /\ Within \in 1 .. Len(source) /\ Len(source) \in Nat /\ opened # <<>>
      /\ Within = Top(opened) /\ Within = opened[Len(opened)] /\ Within # 0
      /\ source[Within].k = "switch"
      /\ m \in Nat /\ Len(switchSequences) = m /\ statementNestingLevel = Len(opened)
      /\ Len(opened) \in Nat /\ Len(opened) > 0
  BY <1>0, WithinFacts, TypeFacts DEF EndSwitch, SwitchesRight, LevelsRight
<1>2. PICK n \in Nat : n = Len(source)
  BY <1>1
<1>3. /\ Extends /\ source' \in Seq(Token) /\ Len(source') \in {n + 1, n + 2}
      /\ source'[Len(source')].k = "end" /\ source'[Len(source')].of = Within
      /\ source'[Len(source')].in = source[Within].in
      /\ \A i \in n + 1 .. Len(source') - 1 :
           i = n + 1 /\ source'[i].k = "break" /\ source'[i].in = Within
      /\ Len(source') = n + 2 => Top(switchSequences).labels # {}
  BY <1>2, EndSwitchText
<1>4. Closes /\ opened' \in Seq(Nat)
  <2>1. opened' = Popped(opened)
    BY DEF EndSwitch
  <2>2. opened' \in Seq(Nat)
    BY <1>1, <2>1, PoppedFacts DEF ParserTypeOK
  <2>3. \A i \in Len(source) + 1 .. Len(source') - 1 : source'[i].k \notin Openings \cup {"end"}
    BY <1>2, <1>3 DEF Openings
  <2> QED BY <1>1, <1>3, <2>1, <2>2, <2>3 DEF Closes
<1>5. OpenedRight' /\ LevelsRight' /\ loopNestingLevel' \in Nat /\ statementNestingLevel' \in Nat
  <2>1. /\ loopNestingLevel' = loopNestingLevel - One("loop", source[Top(opened)])
        /\ statementNestingLevel' = statementNestingLevel - 1
    BY <1>1 DEF EndSwitch, One, ParserTypeOK
  <2> QED BY <1>0, <1>4, <2>1, ClosesKeepOpened, LevelsKept
<1>6. /\ SwitchesRight'
      /\ switchLevel' \in Seq(Nat) /\ switchSequences' \in Seq(Sequence)
      /\ m > 0 /\ Len(switchLevel') = m - 1
      /\ \A k \in 1 .. Len(switchLevel') : /\ switchLevel'[k] = switchLevel[k]
                                           /\ switchSequences'[k] = switchSequences[k]
                                           /\ opened'[switchLevel[k]] = opened[switchLevel[k]]
  <2>1. switchLevel' = Popped(switchLevel) /\ switchSequences' = Popped(switchSequences)
    BY DEF EndSwitch
  <2> QED BY <1>0, <1>1, <1>4, <2>1, LessSwitches
<1>7. \A i \in n + 1 .. Len(source') : source'[i].k \in {"break", "end"}
  <2>1. \A i \in n + 1 .. Len(source') : i = Len(source') \/ i \in n + 1 .. Len(source') - 1
    BY <1>3
  <2> QED BY <1>3, <2>1
<1>8. SequencesRight'
  <2> SUFFICES ASSUME NEW k \in 1 .. Len(switchLevel')
               PROVE  SequenceRight(k)'
    BY DEF SequencesRight
  <2>1. k \in 1 .. m /\ k # m
    BY <1>1, <1>6
  <2>2. \A i \in Len(source) + 1 .. Len(source') : source'[i].k # "label"
    BY <1>2, <1>7
  <2> QED BY <1>0, <1>3, <1>6, <2>1, <2>2, SequenceKept
<1>9. m \in 1 .. m /\ switchLevel[m] = Len(opened) /\ opened[switchLevel[m]] = Within
      /\ Top(switchSequences) = switchSequences[m] /\ SequenceRight(m)
  <2>1. m \in 1 .. m
    BY <1>1, <1>6
  <2>2. switchLevel[m] = Len(opened)
    BY <1>0, <1>1, SwitchFacts
  <2> QED BY <1>0, <1>1, <2>1, <2>2 DEF Top, SequencesRight
<1>10. ASSUME accepted' PROVE EndedRight'
  <2>1. ~(Top(switchSequences).pending /\ Top(switchSequences).labels = {})
    BY <1>10 DEF EndSwitch
  <2>2. CASE Top(switchSequences).labels # {}
    <3>1. Within < Len(source) /\ source[Within + 1].k = "label"
      BY <1>9, <2>2 DEF SequenceRight
    <3> QED BY <1>0, <1>2, <1>3, <1>4, <3>1, EndedMore
  <2>3. CASE Top(switchSequences).labels = {}
    <3>1. Within = Len(source)
      BY <1>9, <2>1, <2>3 DEF SequenceRight
    <3>2. Len(source') = Len(source) + 1
      BY <1>2, <1>3, <2>3
    <3> QED BY <1>0, <1>2, <1>3, <1>4, <3>1, <3>2, EndedMore
  <2> QED BY <2>2, <2>3
<1>11. JumpsRight'
  <2>1. ASSUME NEW i \in n + 1 .. Len(source')
        PROVE  JumpRight(i)'
    <3>1. CASE source'[i].k = "end"
      BY <3>1 DEF JumpRight
    <3>2. CASE source'[i].k = "break"
      <4>1. i = n + 1
        <5>1. i # Len(source')
          BY <1>3, <3>2
        <5> QED BY <1>3, <5>1
      <4>2. source'[n + 1].k # "end"
        BY <3>2, <4>1
      <4>3. Len(opened) \in 1 .. Len(opened) /\ source[opened[Len(opened)]].k \in {"loop", "switch"}
        BY <1>1
      <4>4. Around({"loop", "switch"}, n + 1)' # {}
        BY <1>0, <1>2, <1>3, <4>2, <4>3, OpenIsAround
      <4>5. Around({"loop", "switch"}, i)' # {}
        BY <4>1, <4>4
      <4> QED BY <3>2, <4>5 DEF JumpRight
    <3> QED BY <1>7, <3>1, <3>2
  <2> QED BY <1>0, <1>2, <1>3, <2>1, JumpsKept
<1>12. accepted' \in BOOLEAN
  BY DEF EndSwitch
<1>13. ParserTypeOK'
  BY <1>3, <1>4, <1>5, <1>6, <1>12 DEF ParserTypeOK
<1> QED BY <1>5, <1>6, <1>8, <1>10, <1>11, <1>13 DEF StatementsIInv, Accepted

-------------------------------------------------------------------------------
LEMMA ParserInitKeeps ==
  ASSUME ParserInit
  PROVE  StatementsIInv
<1>1. /\ source = <<>> /\ opened = <<>> /\ switchLevel = <<>> /\ switchSequences = <<>>
      /\ Len(source) = 0 /\ Len(opened) = 0 /\ Len(switchLevel) = 0 /\ Len(switchSequences) = 0
      /\ loopNestingLevel = 0 /\ statementNestingLevel = 0 /\ accepted = TRUE
  BY DEF ParserInit
<1>2. ParserTypeOK
  BY <1>1 DEF ParserTypeOK
<1>3. LevelsRight
  <2>1. OpenLoops = {}
    BY <1>1 DEF OpenLoops
  <2> QED BY <1>1, <2>1, FS_EmptySet DEF LevelsRight
<1>4. OpenedRight /\ SwitchesRight /\ SequencesRight /\ EndedRight /\ JumpsRight
  BY <1>1 DEF OpenedRight, SwitchesRight, SequencesRight, EndedRight, JumpsRight
<1> QED BY <1>2, <1>3, <1>4 DEF StatementsIInv, Accepted

(***************************************************************************)
(* The inductive invariant, for bodies of any length and depth: counters   *)
(* and stacks of TParseContext count and list exactly what is open in the  *)
(* text, whatever glslang.y has read so far.                               *)
(***************************************************************************)
THEOREM StatementsInvariance == ParserSpec => []StatementsIInv
<1>1. ParserInit => StatementsIInv
  BY ParserInitKeeps
<1>2. StatementsIInv /\ [ReadToken]_parserVars => StatementsIInv'
  <2> SUFFICES ASSUME StatementsIInv, [ReadToken]_parserVars
               PROVE  StatementsIInv'
    OBVIOUS
  <2>0. ParserTypeOK /\ (accepted => Accepted)
    BY DEF StatementsIInv
  <2>1. CASE \E kind \in Plain : PlainStatement(kind)
    BY <2>0, <2>1, PlainKeeps DEF PlainStatement, MayReadStatement, MayRead
  <2>2. CASE \E kind \in Jumps : JumpStatement(kind)
    BY <2>0, <2>2, JumpKeeps DEF JumpStatement, MayReadStatement, MayRead
  <2>3. CASE \E op \in IfOperators : OpenIf(op)
    BY <2>0, <2>3, OpenIfKeeps DEF OpenIf, MayReadStatement, MayRead
  <2>4. CASE Else
    BY <2>0, <2>4, ElseKeeps DEF Else
  <2>5. CASE EndIf
    BY <2>0, <2>5, EndIfKeeps DEF EndIf
  <2>6. CASE \E shape \in LoopShapes : OpenLoop(shape)
    BY <2>0, <2>6, OpenLoopKeeps DEF OpenLoop, MayReadStatement, MayRead
  <2>7. CASE EndLoop
    BY <2>0, <2>7, EndLoopKeeps DEF EndLoop
  <2>8. CASE OpenSwitch
    BY <2>0, <2>8, OpenSwitchKeeps DEF OpenSwitch, MayReadStatement, MayRead
  <2>9. CASE \E value \in CaseValues \cup {Default} : Label(value)
    BY <2>0, <2>9, LabelKeeps DEF Label, MayRead, Labels
  <2>10. CASE EndSwitch
    BY <2>0, <2>10, EndSwitchKeeps DEF EndSwitch
  <2>11. CASE UNCHANGED parserVars
    BY <2>0, <2>11 DEF parserVars, StatementsIInv, ParserTypeOK, Accepted, OpenedRight,
       LevelsRight, OpenLoops, IsOpen, Ended, SwitchesRight, SequencesRight, SequenceRight,
       EndedRight, JumpsRight, JumpRight, Around
  <2> QED BY <2>1, <2>2, <2>3, <2>4, <2>5, <2>6, <2>7, <2>8, <2>9, <2>10, <2>11 DEF ReadToken
<1> QED BY <1>1, <1>2, PTL DEF ParserSpec

(***************************************************************************)
(* In a body that is accepted, whatever its length and depth, continue is  *)
(* in a loop, break in a loop or a switch, a label directly in a switch    *)
(* and not twice, and no statement of a switch comes before its first      *)
(* label: what glslang.y and wrapupSwitchSubsequence decide by counters.   *)
(***************************************************************************)
THEOREM JumpsAreLegal == ParserSpec => []OnlyLegalJumps
<1>1. StatementsIInv => OnlyLegalJumps
  <2> SUFFICES ASSUME ParserTypeOK, Accepted, NEW i \in 1 .. Len(source)
               PROVE  /\ source[i].k = "continue" => Around({"loop"}, i) # {}
                      /\ source[i].k = "break" => Around({"loop", "switch"}, i) # {}
                      /\ source[i].k = "label" =>
                           /\ source[i].in # 0 /\ source[source[i].in].k = "switch"
                           /\ \A j \in 1..(i - 1) :
                                (source[j].in = source[i].in /\ source[j].k = "label")
                                  => source[j].value # source[i].value
                      /\ (source[i].in # 0 /\ source[source[i].in].k = "switch"
                            /\ source[i].k # "label" /\ opened = <<>>)
                           => source[source[i].in + 1].k = "label"
    BY Zenon DEF StatementsIInv, OnlyLegalJumps
  <2>1. JumpRight(i)
    BY DEF Accepted, JumpsRight
  <2>2. ASSUME source[i].in # 0, source[source[i].in].k = "switch", source[i].k # "label",
               opened = <<>>
        PROVE  source[source[i].in + 1].k = "label"
    <3>1. PICK p : p = source[i].in
      OBVIOUS
    <3>2. p \in 1 .. Len(source)
      BY <2>2, <3>1, TypeFacts DEF Accepted, OpenedRight
    <3>3. Ended(p)
      <4>1. ~IsOpen(p)
        BY <2>2, TypeFacts DEF IsOpen
      <4> QED BY <2>2, <3>1, <3>2, <4>1 DEF Accepted, OpenedRight, Openings
    <3> QED BY <2>2, <3>1, <3>2, <3>3 DEF Accepted, EndedRight
  <2> QED BY <2>1, <2>2, Zenon DEF JumpRight
<1> QED BY <1>1, StatementsInvariance, PTL
===============================================================================
