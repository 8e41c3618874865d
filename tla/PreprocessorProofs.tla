-------------------------- MODULE PreprocessorProofs --------------------------
(***************************************************************************)
(* What holds of the conditional directives (PpConditionals) for every     *)
(* nesting limit, and that they implement conditional groups (CondGroups), *)
(* with one lemma per kind of step, each shown to be a step of the groups. *)
(*                                                                         *)
(* Then: the stack of inputs stays in order under any includer (PpInclude),*)
(* the includer of the standalone program is one, and it searches the open *)
(* files' directories (DirStackIncluder), for every set of files, every    *)
(* directory tree and every depth of inclusion.                            *)
(***************************************************************************)
EXTENDS PpConditionals, DirStackIncluder, SequenceTheorems, WellFoundedInduction, TLAPS

(***************************************************************************)
(* The conditional directives.                                             *)
(***************************************************************************)

OutputOK == line \in Abstract!Lines /\ out \in BOOLEAN /\ errors \in BOOLEAN
DoneOK == done \in BOOLEAN
CountersOK == ifdepth \in Nat /\ elsetracker \in Int
FlagsOK == elseSeen \in [Slots \cup Padding -> BOOLEAN]
SkipOK == skip \in SkipType

(* The type invariant, by what its parts are about.                          *)
LEMMA TypeParts == TypeOK <=> OutputOK /\ DoneOK /\ CountersOK /\ FlagsOK /\ SkipOK
BY DEF TypeOK, OutputOK, DoneOK, CountersOK, FlagsOK, SkipOK

(* Every action says whether the input has ended.                            *)
LEMMA DoneStep == Next => DoneOK'
<1> SUFFICES ASSUME Next PROVE Continue \/ EndOfInput \/ done' = TRUE
  BY DEF DoneOK, Continue, EndOfInput
<1> QED
  BY DEF Next, Text, End, Else, Endif, If, Ifdef, Open, Elif, SkipText, SkipEnd,
     SkipEndif, MatchElse, SkipElse, SkipIf, MatchElif, SkipElif

(* What Handle does for every line.                                          *)
LEMMA HandleType ==
  ASSUME NEW kind, NEW cond, NEW e, Line(kind, cond) \in Abstract!Lines,
         Handle(kind, cond, e)
  PROVE  OutputOK'
<1>1. line' \in Abstract!Lines
  BY DEF Handle
<1>2. out' \in BOOLEAN
  <2>1. out' = (kind = "text" /\ skip = NotSkipping)
    BY DEF Handle
  <2> QED BY <2>1
<1>3. errors' \in BOOLEAN
  <2>1. errors' = (errors \/ e)
    BY DEF Handle
  <2> QED BY <2>1
<1> QED BY <1>1, <1>2, <1>3 DEF OutputOK

(* The lines that the actions read are lines.                                *)
LEMMA LinesOK ==
  /\ \A k \in {"text", "else", "endif", "end"} : Line(k, "true") \in Abstract!Lines
  /\ \A k \in {"if", "ifdef", "elif"}, c \in Conditions : Line(k, c) \in Abstract!Lines
BY DEF Line, Conditions, Abstract!Lines, Abstract!Conditions

(* Every action handles a line.                                              *)
LEMMA OutputStep == Next => OutputOK'
<1> SUFFICES ASSUME Next PROVE OutputOK'
  OBVIOUS
<1>1. CASE Text
  BY <1>1, HandleType, LinesOK DEF Text, Reading
<1>2. CASE End
  BY <1>2, HandleType, LinesOK DEF End, Reading
<1>3. CASE Else
  BY <1>3, HandleType, LinesOK DEF Else, Reading
<1>4. CASE Endif
  BY <1>4, HandleType, LinesOK DEF Endif, Reading
<1>5. CASE \E c \in Conditions : If(c) \/ Ifdef(c)
  BY <1>5, HandleType, LinesOK DEF If, Ifdef, Open, Reading
<1>6. CASE \E c \in Conditions : Elif(c)
  BY <1>6, HandleType, LinesOK DEF Elif, Reading
<1>7. CASE SkipText
  BY <1>7, HandleType, LinesOK DEF SkipText, InElse
<1>8. CASE SkipEnd
  BY <1>8, HandleType, LinesOK DEF SkipEnd, InElse
<1>9. CASE SkipEndif
  BY <1>9, HandleType, LinesOK DEF SkipEndif, InElse
<1>10. CASE MatchElse
  BY <1>10, HandleType, LinesOK DEF MatchElse, InElse
<1>11. CASE SkipElse
  BY <1>11, HandleType, LinesOK DEF SkipElse, InElse
<1>12. CASE \E c \in Conditions : SkipIf("if", c) \/ SkipIf("ifdef", c)
  BY <1>12, HandleType, LinesOK DEF SkipIf, InElse
<1>13. CASE \E c \in Conditions : MatchElif(c)
  BY <1>13, HandleType, LinesOK DEF MatchElif, InElse
<1>14. CASE \E c \in Conditions : SkipElif(c)
  BY <1>14, HandleType, LinesOK DEF SkipElif, InElse
<1> QED
  BY <1>1, <1>2, <1>3, <1>4, <1>5, <1>6, <1>7, <1>8, <1>9, <1>10, <1>11, <1>12,
     <1>13, <1>14 DEF Next

-------------------------------------------------------------------------------
(* The parameters of CPPelse, told from there being none.                    *)
LEMMA SkippingFacts ==
  /\ NotSkipping \in SkipType
  /\ \A m \in BOOLEAN : /\ Skipping(m) \in SkipType /\ Skipping(m) # NotSkipping
                        /\ Skipping(m).depth = 0 /\ Skipping(m).matchelse = m
BY DEF NotSkipping, Skipping, SkipType

(* What CPPelse is entered with after a condition was tested.                *)
LEMMA AfterTestFacts ==
  ASSUME NEW c, AfterTest(c)
  PROVE  SkipOK' /\ (skip' # NotSkipping => skip'.depth = 0)
<1>1. TRUE \in BOOLEAN
  OBVIOUS
<1> QED BY <1>1, SkippingFacts DEF AfterTest, SkipOK

(* What a skip in progress is, and what a change of its depth makes of it.   *)
LEMMA DepthFacts ==
  ASSUME SkipOK, skip # NotSkipping
  PROVE  /\ skip.depth \in Nat /\ skip.matchelse \in BOOLEAN
         /\ \A d \in Nat : LET s == [skip EXCEPT !.depth = d] IN
              /\ s \in SkipType /\ s # NotSkipping
              /\ s.depth = d /\ s.matchelse = skip.matchelse
BY DEF SkipOK, SkipType, NotSkipping

(* Setting a flag within reach leaves the others alone.                      *)
LEMMA FlagFacts ==
  ASSUME FlagsOK, InArray, NEW b \in BOOLEAN, SetSeen(b)
  PROVE  /\ FlagsOK'
         /\ elseSeen'[elsetracker] = b
         /\ \A i \in Slots \cup Padding : i # elsetracker => elseSeen'[i] = elseSeen[i]
BY DEF FlagsOK, InArray, SetSeen

(* Errors stay.                                                              *)
LEMMA ErrorsStay ==
  ASSUME NEW kind, NEW cond, NEW e, Handle(kind, cond, e)
  PROVE  ~errors' => ~errors /\ ~e
BY DEF Handle

CounterInv == CountersOK /\ FlagsOK /\ SkipOK /\ SkipInside /\ TrackersAgree

(* A step that changes neither counters, flags nor parameters.               *)
LEMMA StateStays ==
  ASSUME CounterInv, UNCHANGED state, ~errors' => ~errors
  PROVE  CounterInv'
BY DEF CounterInv, CountersOK, FlagsOK, SkipOK, SkipInside, TrackersAgree, state

(* The counters stay in step through every line that is read ...             *)
LEMMA ReadingStep ==
  ASSUME CounterInv, NEW c \in Conditions,
         Text \/ End \/ If(c) \/ Ifdef(c) \/ Else \/ Elif(c) \/ Endif
  PROVE  CounterInv'
<1> USE MaxIfNestingAssumption
<1>1. CASE Text
  <2>1. UNCHANGED state /\ (~errors' => ~errors)
    BY <1>1, ErrorsStay DEF Text, Reading, Continue
  <2> QED BY <2>1, StateStays
<1>2. CASE End
  <2>1. UNCHANGED state /\ (~errors' => ~errors)
    BY <1>2, ErrorsStay DEF End, Reading, EndOfInput
  <2> QED BY <2>1, StateStays
<1>3. ASSUME NEW kind, NEW tooDeep, Open(kind, c, tooDeep),
             ~tooDeep => ifdepth <= MaxIfNesting /\ elsetracker <= MaxIfNesting
      PROVE  CounterInv'
  <2>1. ~errors' => ~errors /\ ~(tooDeep \/ c = "bad")
    BY <1>3, ErrorsStay DEF Open, Reading
  <2>2. CASE tooDeep /\ EndOfInput
    <3>1. UNCHANGED state
      BY <2>2 DEF EndOfInput
    <3> QED BY <3>1, <2>1, StateStays
  <2>3. CASE ~tooDeep /\ Deeper /\ AfterTest(c) /\ Continue /\ UNCHANGED elseSeen
    <3>1. /\ ifdepth' = ifdepth + 1 /\ elsetracker' = elsetracker + 1 /\ elseSeen' = elseSeen
      BY <2>3 DEF Deeper, Continue
    <3>2. ifdepth <= MaxIfNesting /\ elsetracker <= MaxIfNesting
      BY <2>3, <1>3
    <3>3. SkipOK' /\ (skip' # NotSkipping => skip'.depth = 0)
      BY <2>3, AfterTestFacts
    <3>4. CountersOK' /\ FlagsOK'
      BY <3>1 DEF CounterInv, CountersOK, FlagsOK
    <3>5. SkipInside'
      BY <3>1, <3>3 DEF SkipInside, CounterInv, CountersOK
    <3>6. ~errors' => ~errors
      BY <2>1
    <3>7. TrackersAgree'
      BY <3>1, <3>2, <3>3, <3>6
      DEF TrackersAgree, CounterInv, CountersOK, Slots
    <3> QED BY <3>3, <3>4, <3>5, <3>7 DEF CounterInv
  <2> QED BY <1>3, <2>2, <2>3 DEF Open
<1>4. CASE If(c)
  <2>1. ~IfTooDeep => ifdepth <= MaxIfNesting /\ elsetracker <= MaxIfNesting
    BY DEF IfTooDeep, CounterInv, CountersOK
  <2>2. Open("if", c, IfTooDeep)
    BY <1>4 DEF If
  <2> QED BY <1>3, <2>1, <2>2
<1>5. CASE Ifdef(c)
  <2>1. ~IfdefTooDeep => ifdepth <= MaxIfNesting /\ elsetracker <= MaxIfNesting
    BY DEF IfdefTooDeep, CounterInv, CountersOK
  <2>2. Open("ifdef", c, IfdefTooDeep)
    BY <1>5 DEF Ifdef
  <2> QED BY <1>3, <2>1, <2>2
<1>6. CASE Else
  <2>1. (~errors' => ~errors /\ ifdepth # 0) /\ InArray
    BY <1>6, ErrorsStay DEF Else, Reading, Handle
  <2>2. FlagsOK' /\ \A i \in Slots \cup Padding : i # elsetracker => elseSeen'[i] = elseSeen[i]
    BY <1>6, <2>1, FlagFacts DEF Else, CounterInv
  <2>3. CountersOK' /\ SkipOK' /\ skip' # NotSkipping /\ skip'.depth = 0 /\ skip'.matchelse = FALSE
    BY <1>6, SkippingFacts DEF Else, Continue, CounterInv, CountersOK, SkipOK
  <2>4. ifdepth' = ifdepth /\ elsetracker' = elsetracker
    BY <1>6 DEF Else
  <2>5. SkipInside'
    BY <2>3 DEF SkipInside, CountersOK
  <2>6. TrackersAgree'
    BY <2>1, <2>2, <2>3, <2>4 DEF CounterInv, CountersOK, TrackersAgree, Slots
  <2> QED BY <2>2, <2>3, <2>5, <2>6 DEF CounterInv
<1>7. CASE Elif(c)
  <2>1. ~errors' => ~errors /\ ifdepth # 0
    BY <1>7, ErrorsStay DEF Elif, Reading
  <2>2. CountersOK' /\ FlagsOK' /\ SkipOK' /\ skip' # NotSkipping /\ skip'.depth = 0 /\ skip'.matchelse = FALSE
    BY <1>7, SkippingFacts DEF Elif, Continue, CounterInv, CountersOK, FlagsOK, SkipOK
  <2>3. ifdepth' = ifdepth /\ elsetracker' = elsetracker /\ elseSeen' = elseSeen
    BY <1>7 DEF Elif
  <2>4. SkipInside'
    BY <2>2 DEF SkipInside, CountersOK
  <2>5. TrackersAgree'
    BY <2>1, <2>2, <2>3 DEF CounterInv, CountersOK, TrackersAgree
  <2> QED BY <2>2, <2>4, <2>5 DEF CounterInv
<1>8. CASE Endif
  <2>1. (~errors' => ~errors /\ ifdepth # 0) /\ InArray /\ skip = NotSkipping
    BY <1>8, ErrorsStay DEF Endif, Reading, Handle
  <2>2. SkipOK' /\ skip' = NotSkipping
    BY <1>8, <2>1 DEF Endif, CounterInv, SkipOK
  <2>3. CASE ifdepth = 0
    <3>1. UNCHANGED state
      BY <1>8, <2>1, <2>2, <2>3 DEF Endif, Continue, state
    <3> QED BY <3>1, <2>1, StateStays
  <2>4. CASE ifdepth # 0
    <3>1. FlagsOK' /\ elseSeen'[elsetracker] = FALSE
          /\ \A i \in Slots \cup Padding : i # elsetracker => elseSeen'[i] = elseSeen[i]
      BY <1>8, <2>1, <2>4, FlagFacts DEF Endif, CounterInv
    <3>2. ifdepth' = ifdepth - 1 /\ elsetracker' = elsetracker - 1
      BY <1>8, <2>4 DEF Endif, Continue
    <3>3. CountersOK'
      BY <2>4, <3>2 DEF CounterInv, CountersOK
    <3>4. TrackersAgree'
      BY <2>1, <2>2, <3>1, <3>2 DEF CounterInv, CountersOK, TrackersAgree, Slots
    <3> QED BY <2>2, <3>1, <3>3, <3>4 DEF CounterInv, SkipInside
  <2> QED BY <2>3, <2>4
<1> QED BY <1>1, <1>2, <1>4, <1>5, <1>6, <1>7, <1>8

(* ... and through every line that is skipped.                               *)
LEMMA SkippingStep ==
  ASSUME CounterInv, NEW c \in Conditions,
         \/ SkipText \/ SkipEnd \/ SkipEndif \/ MatchElse \/ SkipElse
         \/ SkipIf("if", c) \/ SkipIf("ifdef", c) \/ MatchElif(c) \/ SkipElif(c)
  PROVE  CounterInv'
<1> USE MaxIfNestingAssumption
<1>1. CASE SkipText
  <2>1. UNCHANGED state /\ (~errors' => ~errors)
    BY <1>1, ErrorsStay DEF SkipText, InElse, Continue
  <2> QED BY <2>1, StateStays
<1>2. CASE SkipEnd
  <2>1. UNCHANGED state /\ (~errors' => ~errors)
    BY <1>2, ErrorsStay DEF SkipEnd, InElse, EndOfInput
  <2> QED BY <2>1, StateStays
<1>3. CASE SkipElif(c)
  <2>1. UNCHANGED state /\ (~errors' => ~errors)
    BY <1>3, ErrorsStay DEF SkipElif, InElse, Continue
  <2> QED BY <2>1, StateStays
<1>4. ASSUME NEW kind, SkipIf(kind, c) PROVE CounterInv'
  <2>1. (~errors' => ~errors) /\ skip # NotSkipping
    BY <1>4, ErrorsStay DEF SkipIf, InElse
  <2>2. CASE IfTooDeep /\ EndOfInput
    <3>1. UNCHANGED state
      BY <2>2 DEF EndOfInput
    <3> QED BY <3>1, <2>1, StateStays
  <2>3. CASE /\ ~IfTooDeep /\ Deeper /\ Continue
             /\ skip' = [skip EXCEPT !.depth = @ + 1]
             /\ UNCHANGED elseSeen
    <3>1. /\ ifdepth' = ifdepth + 1 /\ elsetracker' = elsetracker + 1 /\ elseSeen' = elseSeen
      BY <2>3 DEF Deeper, Continue
    <3>2. ifdepth <= MaxIfNesting /\ elsetracker <= MaxIfNesting
      BY <2>3 DEF IfTooDeep, CounterInv, CountersOK
    <3>3. /\ SkipOK' /\ skip' # NotSkipping
          /\ skip'.depth = skip.depth + 1 /\ skip'.matchelse = skip.matchelse
      BY <2>1, <2>3, DepthFacts DEF SkipOK, CounterInv
    <3>4. CountersOK' /\ FlagsOK'
      BY <3>1 DEF CounterInv, CountersOK, FlagsOK
    <3>5. SkipInside'
      BY <3>1, <3>3, <2>1, DepthFacts DEF SkipInside, CounterInv, CountersOK
    <3>6. TrackersAgree'
      BY <2>1, <3>1, <3>2, <3>3, DepthFacts DEF TrackersAgree, CounterInv, CountersOK, Slots
    <3> QED BY <3>3, <3>4, <3>5, <3>6 DEF CounterInv
  <2> QED BY <1>4, <2>2, <2>3 DEF SkipIf
<1>5. CASE SkipEndif
  <2>1. (~errors' => ~errors) /\ InArray /\ skip # NotSkipping
    BY <1>5, ErrorsStay DEF SkipEndif, InElse, Handle
  <2>2. FlagsOK' /\ elseSeen'[elsetracker] = FALSE
        /\ \A i \in Slots \cup Padding : i # elsetracker => elseSeen'[i] = elseSeen[i]
    BY <1>5, <2>1, FlagFacts DEF SkipEndif, CounterInv
  <2>3. elsetracker' = elsetracker - 1
    BY <1>5 DEF SkipEndif, Continue
  <2>4. CASE AtBase
    <3>1. ifdepth' = (IF ifdepth = 0 THEN 0 ELSE ifdepth - 1) /\ skip' = NotSkipping
      BY <1>5, <2>4 DEF SkipEndif
    <3>2. CountersOK' /\ SkipOK' /\ SkipInside'
      BY <2>3, <3>1, SkippingFacts DEF CountersOK, SkipOK, SkipInside, CounterInv
    <3>3. ~errors' => ifdepth # 0
      BY <2>1, <2>4, DepthFacts DEF AtBase, TrackersAgree, CounterInv, CountersOK
    <3>4. TrackersAgree'
      BY <2>1, <2>2, <2>3, <3>1, <3>3 DEF TrackersAgree, CounterInv, CountersOK, Slots
    <3> QED BY <2>2, <3>2, <3>4 DEF CounterInv
  <2>5. CASE ~AtBase
    <3>1. ifdepth' = ifdepth - 1 /\ skip' = [skip EXCEPT !.depth = @ - 1]
      BY <1>5, <2>5 DEF SkipEndif
    <3>2. skip.depth \in Nat /\ skip.depth # 0 /\ skip.depth <= ifdepth
      BY <2>1, <2>5, DepthFacts DEF AtBase, CounterInv, SkipInside
    <3>3. /\ SkipOK' /\ skip' # NotSkipping
          /\ skip'.depth = skip.depth - 1 /\ skip'.matchelse = skip.matchelse
      BY <2>1, <3>1, <3>2, DepthFacts DEF SkipOK, CounterInv
    <3>4. CountersOK'
      BY <2>3, <3>1, <3>2 DEF CounterInv, CountersOK
    <3>5. SkipInside'
      BY <2>1, <3>1, <3>2, <3>3 DEF SkipInside, CounterInv, CountersOK
    <3>6. TrackersAgree'
      BY <2>1, <2>2, <2>3, <3>1, <3>2, <3>3 DEF TrackersAgree, CounterInv, CountersOK, Slots
    <3> QED BY <2>2, <3>3, <3>4, <3>5, <3>6 DEF CounterInv
  <2> QED BY <2>4, <2>5
<1>6. CASE MatchElse
  <2>1. (~errors' => ~errors) /\ InArray
    BY <1>6, ErrorsStay DEF MatchElse, InElse, Handle
  <2>2. FlagsOK' /\ \A i \in Slots \cup Padding : i # elsetracker => elseSeen'[i] = elseSeen[i]
    BY <1>6, <2>1, FlagFacts DEF MatchElse, CounterInv
  <2>3. /\ ifdepth' = ifdepth /\ elsetracker' = elsetracker /\ skip' = NotSkipping
    BY <1>6 DEF MatchElse, Continue
  <2>4. CountersOK' /\ SkipOK' /\ SkipInside'
    BY <2>3, SkippingFacts DEF CountersOK, SkipOK, SkipInside, CounterInv
  <2>5. TrackersAgree'
    BY <2>1, <2>2, <2>3 DEF TrackersAgree, CounterInv, CountersOK, Slots
  <2> QED BY <2>2, <2>4, <2>5 DEF CounterInv
<1>7. CASE SkipElse
  <2>1. (~errors' => ~errors) /\ InArray /\ skip # NotSkipping
    BY <1>7, ErrorsStay DEF SkipElse, InElse, Handle
  <2>2. FlagsOK' /\ \A i \in Slots \cup Padding : i # elsetracker => elseSeen'[i] = elseSeen[i]
    BY <1>7, <2>1, FlagFacts DEF SkipElse, CounterInv
  <2>3. /\ ifdepth' = ifdepth /\ elsetracker' = elsetracker /\ skip' = skip
    BY <1>7 DEF SkipElse, Continue
  <2>4. CountersOK' /\ SkipOK' /\ SkipInside'
    BY <2>3 DEF CountersOK, SkipOK, SkipInside, CounterInv
  <2>5. TrackersAgree'
    BY <2>1, <2>2, <2>3 DEF TrackersAgree, CounterInv, CountersOK, Slots
  <2> QED BY <2>2, <2>4, <2>5 DEF CounterInv
<1>8. CASE MatchElif(c)
  <2>1. (~errors' => ~errors) /\ InArray /\ skip # NotSkipping /\ skip.matchelse /\ skip.depth = 0
    BY <1>8, ErrorsStay DEF MatchElif, InElse, Handle, MayMatch, AtBase
  <2>2. FlagsOK' /\ elseSeen'[elsetracker] = FALSE
        /\ \A i \in Slots \cup Padding : i # elsetracker => elseSeen'[i] = elseSeen[i]
    BY <1>8, <2>1, FlagFacts DEF MatchElif, CounterInv
  <2>3. ifdepth # 0
    BY <2>1, DepthFacts DEF SkipInside, CounterInv, CountersOK
  <2>4. \/ /\ ifdepth' = ifdepth - 1 /\ elsetracker' = elsetracker - 1
           /\ skip' = NotSkipping
        \/ /\ ifdepth' = ifdepth /\ elsetracker' = elsetracker
    BY <1>8 DEF MatchElif
  <2>5. SkipOK' /\ (skip' # NotSkipping => skip'.depth = 0)
    BY <1>8, SkippingFacts, AfterTestFacts DEF MatchElif, SkipOK
  <2>6. CountersOK' /\ SkipInside'
    BY <2>3, <2>4, <2>5 DEF CountersOK, SkipInside, CounterInv
  <2>7. TrackersAgree'
    BY <2>1, <2>2, <2>3, <2>4, <2>5 DEF TrackersAgree, CounterInv, CountersOK, Slots
  <2> QED BY <2>2, <2>6, <2>7, <2>5 DEF CounterInv
<1> QED BY <1>1, <1>2, <1>3, <1>4, <1>5, <1>6, <1>7, <1>8

(* A group in which a match is sought keeps its flag clear: flags are set for*)
(* the innermost group, at the end of the search or inside another group.    *)
LEMMA MatchStep ==
  ASSUME CounterInv, NoElseYet, CounterInv', Next
  PROVE  NoElseYet'
<1> USE MaxIfNestingAssumption
<1> SUFFICES ASSUME ~errors', skip' # NotSkipping, skip'.matchelse, Sought' \in Slots
             PROVE  ~elseSeen'[Sought']
  BY DEF NoElseYet, Slots
<1>1. ~errors
  BY ErrorsStay DEF Next, Text, End, Else, Endif, If, Ifdef, Open, Elif, SkipText, SkipEnd,
     SkipEndif, MatchElse, SkipElse, SkipIf, MatchElif, SkipElif, Reading, InElse, Handle
<1>2. /\ ifdepth \in Nat /\ elsetracker = ifdepth
      /\ Sought = ifdepth - skip.depth /\ Sought' = ifdepth' - skip'.depth
  BY <1>1 DEF CounterInv, CountersOK, TrackersAgree, Sought
<1>3. ASSUME elseSeen' = elseSeen, skip # NotSkipping, skip.matchelse, Sought' = Sought
      PROVE  ~elseSeen'[Sought']
  BY <1>1, <1>3 DEF NoElseYet
<1>4. CASE UNCHANGED state
  BY <1>3, <1>4 DEF state, Sought
<1>5. ASSUME NEW c \in Conditions, NEW kind, NEW tooDeep, Open(kind, c, tooDeep)
      PROVE  ~elseSeen'[Sought']
  <2>1. CASE ifdepth' = ifdepth + 1 /\ elseSeen' = elseSeen /\ AfterTest(c)
    <3>1. skip'.depth = 0
      BY <2>1, AfterTestFacts
    <3>2. Sought' > ifdepth
      BY <1>2, <2>1, <3>1
    <3> QED BY <1>1, <2>1, <3>2 DEF CounterInv, TrackersAgree
  <2>2. CASE UNCHANGED state
    BY <2>2, <1>4
  <2> QED BY <1>5, <2>1, <2>2 DEF Open, Deeper, EndOfInput
<1>6. ASSUME NEW c, NEW kind, SkipIf(kind, c) PROVE ~elseSeen'[Sought']
  <2>1. CASE /\ ifdepth' = ifdepth + 1 /\ elseSeen' = elseSeen
             /\ skip' = [skip EXCEPT !.depth = @ + 1]
    <3>1. skip # NotSkipping
      BY <1>6 DEF SkipIf, InElse
    <3>2. skip.depth \in Nat /\ skip'.depth = skip.depth + 1 /\ skip'.matchelse = skip.matchelse
      <4>1. skip.depth \in Nat /\ skip.depth + 1 \in Nat
        BY <3>1, DepthFacts DEF CounterInv
      <4> QED BY <2>1, <3>1, <4>1, DepthFacts DEF CounterInv
    <3>3. Sought' = Sought
      BY <1>2, <2>1, <3>2
    <3> QED BY <1>3, <2>1, <3>1, <3>2, <3>3
  <2>2. CASE UNCHANGED state
    BY <2>2, <1>4
  <2> QED BY <1>6, <2>1, <2>2 DEF SkipIf, Deeper, EndOfInput
<1>7. CASE Else \/ \E c \in Conditions : Elif(c)
  <2>1. skip' = Skipping(FALSE)
    BY <1>7 DEF Else, Elif
  <2>2. ~skip'.matchelse
    BY <2>1 DEF Skipping
  <2> QED BY <2>2
<1>8. CASE Endif \/ MatchElse
  BY <1>8 DEF Endif, MatchElse, Reading
<1>9. CASE SkipEndif
  <2>1. /\ skip' = [skip EXCEPT !.depth = @ - 1] /\ ifdepth' = ifdepth - 1
        /\ skip.depth # 0 /\ skip # NotSkipping /\ InArray
    BY <1>9 DEF SkipEndif, AtBase, InElse, Handle
  <2>2. skip.depth \in Nat /\ skip'.depth = skip.depth - 1 /\ skip'.matchelse = skip.matchelse
    <3>1. skip.depth \in Nat /\ skip.depth - 1 \in Nat
      BY <2>1, DepthFacts DEF CounterInv
    <3> QED BY <2>1, <3>1, DepthFacts DEF CounterInv
  <2>3. Sought' = Sought /\ Sought # elsetracker
    BY <1>2, <2>1, <2>2
  <2>4. \A i \in Slots \cup Padding : i # elsetracker => elseSeen'[i] = elseSeen[i]
    BY <1>9, <2>1, FlagFacts DEF SkipEndif, CounterInv
  <2>5. ~elseSeen[Sought]
    BY <1>1, <2>1, <2>2, <2>3 DEF NoElseYet
  <2> QED BY <2>3, <2>4, <2>5
<1>10. CASE SkipElse
  <2>1. /\ ifdepth' = ifdepth /\ skip' = skip /\ skip # NotSkipping /\ InArray
        /\ ~ (skip.matchelse /\ skip.depth = 0)
    BY <1>10 DEF SkipElse, InElse, Handle, MayMatch, AtBase
  <2>2. Sought' = Sought /\ Sought # elsetracker
    BY <1>2, <2>1, DepthFacts DEF CounterInv
  <2>3. \A i \in Slots \cup Padding : i # elsetracker => elseSeen'[i] = elseSeen[i]
    BY <1>10, <2>1, FlagFacts DEF SkipElse, CounterInv
  <2>4. ~elseSeen[Sought]
    BY <1>1, <2>1, <2>2 DEF NoElseYet
  <2> QED BY <2>2, <2>3, <2>4
<1>11. ASSUME NEW c \in Conditions, MatchElif(c) PROVE ~elseSeen'[Sought']
  <2>1. /\ ifdepth' = ifdepth /\ AfterTest(c) /\ SetSeen(FALSE) /\ InArray
    BY <1>11 DEF MatchElif, InElse, Handle
  <2>2. skip'.depth = 0
    BY <2>1, AfterTestFacts
  <2>3. Sought' = elsetracker
    BY <1>2, <2>1, <2>2
  <2>4. elseSeen'[elsetracker] = FALSE
    BY <2>1, FlagFacts DEF CounterInv
  <2> QED BY <2>3, <2>4
<1>12. CASE Text \/ End \/ SkipText \/ SkipEnd \/ \E c \in Conditions : SkipElif(c)
  BY <1>4, <1>12 DEF Text, End, SkipText, SkipEnd, SkipElif, EndOfInput
<1> QED
  BY <1>5, <1>6, <1>7, <1>8, <1>9, <1>10, <1>11, <1>12 DEF Next, If, Ifdef

-------------------------------------------------------------------------------
(* The invariant holds at first ...                                          *)
LEMMA InvInit == Init => IInv
<1> SUFFICES ASSUME Init PROVE IInv
  OBVIOUS
<1>1. OutputOK
  BY LinesOK DEF Init, OutputOK
<1>2. DoneOK
  BY DEF Init, DoneOK
<1>3. CountersOK /\ SkipOK
  BY SkippingFacts DEF Init, CountersOK, SkipOK
<1>4. FlagsOK /\ \A i \in Slots : ~elseSeen[i]
  BY DEF Init, FlagsOK
<1>5. SkipInside /\ TrackersAgree /\ NoElseYet
  BY <1>4, MaxIfNestingAssumption DEF Init, SkipInside, TrackersAgree, NoElseYet
<1> QED BY <1>1, <1>2, <1>3, <1>4, <1>5, TypeParts DEF IInv

(* ... and is preserved.                                                     *)
LEMMA InvStep == IInv /\ [Next]_vars => IInv'
<1> SUFFICES ASSUME IInv, [Next]_vars PROVE IInv'
  OBVIOUS
<1>1. CounterInv /\ NoElseYet
  BY TypeParts DEF IInv, CounterInv
<1>2. CASE Next
  <2>1. "true" \in Conditions
    BY DEF Conditions
  <2>2. CounterInv'
    BY <1>1, <1>2, <2>1, ReadingStep, SkippingStep DEF Next
  <2>3. OutputOK' /\ DoneOK'
    BY <1>2, OutputStep, DoneStep
  <2>4. NoElseYet'
    BY <1>1, <1>2, <2>2, MatchStep
  <2> QED BY <2>2, <2>3, <2>4
          DEF IInv, CounterInv, TypeOK, OutputOK, DoneOK, CountersOK, FlagsOK, SkipOK
<1>3. CASE UNCHANGED vars
  BY <1>3 DEF IInv, TypeOK, SkipInside, TrackersAgree, NoElseYet, Sought, vars
<1> QED BY <1>2, <1>3

(* For every nesting limit: until the first error ifdepth and elsetracker    *)
(* agree and stay in reach of the array, and no #else is remembered of a     *)
(* group that was closed; always, CPPelse skips within counted groups.       *)
THEOREM TrackersCorrect == Spec => []IInv
BY InvInit, InvStep, PTL DEF Spec

-------------------------------------------------------------------------------
(* Appending to a function on 1 .. n extends it.                             *)
LEMMA AppendFacts ==
  ASSUME NEW S, NEW n \in Nat, NEW f \in [1 .. n -> S], NEW g \in S
  PROVE  Append(f, g) = [i \in 1 .. n + 1 |-> IF i = n + 1 THEN g ELSE f[i]]
<1>1. f \in Seq(S) /\ Len(f) = n
  OBVIOUS
<1>2. Append(f, g) \in [1 .. n + 1 -> S]
  BY <1>1, AppendProperties, LenProperties
<1>3. \A i \in 1 .. n + 1 : Append(f, g)[i] = IF i = n + 1 THEN g ELSE f[i]
  BY <1>1, AppendProperties
<1> QED BY <1>2, <1>3

(* A function on 1 .. n as a sequence.                                       *)
LEMMA SeqFacts ==
  ASSUME NEW S, NEW n \in Nat, NEW f \in [1 .. n -> S]
  PROVE  /\ f \in Seq(S) /\ Len(f) = n
         /\ f = <<>> <=> n = 0
         /\ n > 0 => SubSeq(f, 1, n - 1) = [i \in 1 .. n - 1 |-> f[i]]
<1>1. f \in Seq(S) /\ Len(f) = n
  OBVIOUS
<1>2. f = <<>> <=> n = 0
  BY <1>1
<1>3. n > 0 => SubSeq(f, 1, n - 1) = [i \in 1 .. n - 1 |-> f[i]]
  BY <1>1
<1> QED BY <1>1, <1>2, <1>3

\* The group at depth i.
Elem(i, n, s, seen) ==
  [state |-> StateAt(i, n - s.depth, s.matchelse), elseSeen |-> seen[i]]
(* GroupsOf gives one group for each depth.                                  *)
LEMMA GroupsFacts ==
  ASSUME NEW n \in Nat, NEW s, NEW seen
  PROVE  LET g == GroupsOf(n, s, seen) IN
         /\ Len(g) = n /\ DOMAIN g = 1 .. n
         /\ g = <<>> <=> n = 0
         /\ \A i \in 1 .. n : g[i] = Elem(i, n, s, seen)
<1> DEFINE g == GroupsOf(n, s, seen)
           S == {g[i] : i \in 1 .. n}
<1>1. g \in [1 .. n -> S] /\ DOMAIN g = 1 .. n
  BY DEF GroupsOf
<1>2. Len(g) = n /\ (g = <<>> <=> n = 0)
  <2> HIDE DEF g, S
  <2> QED BY <1>1, SeqFacts
<1>3. \A i \in 1 .. n : g[i] = Elem(i, n, s, seen)
  BY DEF GroupsOf, Elem
<1> QED BY <1>1, <1>2, <1>3

(* Counting one group more opens one: the groups outside it stay as they are.*)
LEMMA AppendGroup ==
  ASSUME NEW n \in Nat, NEW m, m = n + 1, NEW s, NEW t, NEW seen, NEW st,
         \A i \in 1 .. n : StateAt(i, n - s.depth, s.matchelse)
                             = StateAt(i, m - t.depth, t.matchelse),
         StateAt(m, m - t.depth, t.matchelse) = st
  PROVE  Append(GroupsOf(n, s, seen), [state |-> st, elseSeen |-> seen[m]])
           = GroupsOf(m, t, seen)
<1> DEFINE g == GroupsOf(n, s, seen)
           e == [state |-> st, elseSeen |-> seen[m]]
           S == {g[i] : i \in 1 .. n} \cup {e}
<1>1. g \in [1 .. n -> S] /\ e \in S
  BY DEF GroupsOf
<1>2. Append(g, e) = [i \in 1 .. m |-> IF i = m THEN e ELSE g[i]]
  <2> HIDE DEF g, S, e
  <2>1. Append(g, e) = [i \in 1 .. n + 1 |-> IF i = n + 1 THEN e ELSE g[i]]
    <3>1. n \in Nat /\ g \in [1 .. n -> S] /\ e \in S
      BY <1>1
    <3> QED BY <3>1, AppendFacts
  <2> QED BY <2>1
<1>3. \A i \in 1 .. m : (IF i = m THEN e ELSE g[i]) = Elem(i, m, t, seen)
  <2>1. \A i \in 1 .. n : g[i] = Elem(i, n, s, seen)
    BY GroupsFacts
  <2>2. \A i \in 1 .. n : Elem(i, n, s, seen) = Elem(i, m, t, seen)
    BY DEF Elem
  <2>3. e = Elem(m, m, t, seen)
    BY DEF Elem
  <2> HIDE DEF g, e
  <2> QED BY <2>1, <2>2, <2>3
<1> HIDE DEF g, e
<1>4. Append(g, e) = [i \in 1 .. m |-> Elem(i, m, t, seen)]
  BY <1>2, <1>3
<1> QED BY <1>4 DEF GroupsOf, Elem, g, e

(* Counting one group less closes the innermost.                             *)
LEMMA CloseGroup ==
  ASSUME ifdepth \in Nat, NEW k \in Nat, ifdepth = k + 1,
         \A i \in 1 .. k : StateAt(i, ifdepth - skip.depth, skip.matchelse)
                             = StateAt(i, k - skip'.depth, skip'.matchelse),
         \A i \in 1 .. k : elseSeen[i] = elseSeen'[i]
  PROVE  SubSeq(GroupsOf(ifdepth, skip, elseSeen), 1, k) = GroupsOf(k, skip', elseSeen')
<1> DEFINE n == ifdepth
           g == GroupsOf(n, skip, elseSeen)
           S == {g[i] : i \in 1 .. n}
<1>1. g \in [1 .. n -> S]
  BY DEF GroupsOf
<1>2. SubSeq(g, 1, k) = [i \in 1 .. k |-> g[i]]
  <2>1. n \in Nat /\ n > 0 /\ n - 1 = k
    OBVIOUS
  <2> HIDE DEF g, S, n
  <2> QED BY <1>1, <2>1, SeqFacts
<1>3. \A i \in 1 .. k : g[i] = Elem(i, k, skip', elseSeen')
  BY GroupsFacts DEF Elem
<1> HIDE DEF g
<1>4. SubSeq(g, 1, k) = [i \in 1 .. k |-> Elem(i, k, skip', elseSeen')]
  BY <1>2, <1>3
<1> QED BY <1>4 DEF GroupsOf, Elem, g

(* New skip parameters and flags for the innermost group start its next      *)
(* branch.                                                                   *)
LEMMA BranchGroup ==
  ASSUME NEW n \in Nat, n > 0, NEW s, NEW t, NEW seen, NEW seen2,
         \A i \in 1 .. n - 1 :
           /\ StateAt(i, n - s.depth, s.matchelse) = StateAt(i, n - t.depth, t.matchelse)
           /\ seen[i] = seen2[i]
  PROVE  [GroupsOf(n, s, seen) EXCEPT ![n] = Elem(n, n, t, seen2)] = GroupsOf(n, t, seen2)
<1> DEFINE g == GroupsOf(n, s, seen)
           e == Elem(n, n, t, seen2)
<1>1. DOMAIN g = 1 .. n /\ \A i \in 1 .. n : g[i] = Elem(i, n, s, seen)
  BY GroupsFacts
<1>2. \A i \in 1 .. n - 1 : g[i] = Elem(i, n, t, seen2)
  BY <1>1 DEF Elem
<1>3. [g EXCEPT ![n] = e] = [i \in 1 .. n |-> IF i = n THEN e ELSE g[i]]
  <2> HIDE DEF g, e
  <2> QED BY <1>1
<1>4. \A i \in 1 .. n : (IF i = n THEN e ELSE g[i]) = Elem(i, n, t, seen2)
  <2> HIDE DEF g
  <2> QED BY <1>2
<1> HIDE DEF g, e
<1>5. [g EXCEPT ![n] = e] = [i \in 1 .. n |-> Elem(i, n, t, seen2)]
  BY <1>3, <1>4
<1> QED BY <1>5 DEF GroupsOf, Elem, g, e

\* A step of the abstract specification.
Sim == Abstract!Next

(* What a line is after it was handled.                                      *)
LEMMA HandleFacts ==
  ASSUME NEW kind, NEW cond, NEW e, Handle(kind, cond, e)
  PROVE  /\ ~done /\ InArray
         /\ line' = Line(kind, cond) /\ line'.kind = kind /\ line'.cond = cond
         /\ out' <=> (kind = "text" /\ skip = NotSkipping)
         /\ errors' <=> (errors \/ e)
BY DEF Handle, Line

(* The abstract state that the counters stand for, until the first error.    *)
LEMMA Situation ==
  ASSUME IInv, ~errors
  PROVE  /\ Groups = GroupsOf(ifdepth, skip, elseSeen)
         /\ Len(Groups) = ifdepth /\ (Groups = <<>> <=> ifdepth = 0)
         /\ Abstract!Live <=> skip = NotSkipping
         /\ ifdepth # 0 => Abstract!Top = Elem(ifdepth, ifdepth, skip, elseSeen)
<1>1. Groups = GroupsOf(ifdepth, skip, elseSeen) /\ ifdepth \in Nat
  BY DEF Groups, IInv, TypeOK
<1>2. /\ Len(Groups) = ifdepth /\ DOMAIN Groups = 1 .. ifdepth
      /\ (Groups = <<>> <=> ifdepth = 0)
      /\ \A i \in 1 .. ifdepth : Groups[i] = Elem(i, ifdepth, skip, elseSeen)
  BY <1>1, GroupsFacts
<1>3. Abstract!Live <=> skip = NotSkipping
  <2>1. Abstract!Live <=> \A i \in 1 .. ifdepth :
                            StateAt(i, ifdepth - skip.depth, skip.matchelse) = "active"
    BY <1>2 DEF Abstract!Live, Elem
  <2>2. CASE skip = NotSkipping
    <3>1. skip.depth = -1
      BY <2>2 DEF NotSkipping
    <3>2. \A i \in 1 .. ifdepth : StateAt(i, ifdepth - skip.depth, skip.matchelse) = "active"
      BY <3>1, <1>1 DEF StateAt
    <3> QED BY <2>1, <2>2, <3>2
  <2>3. CASE skip # NotSkipping
    <3>1. skip.depth \in Nat /\ skip.depth < ifdepth
      BY <2>3, DepthFacts DEF IInv, TypeOK, SkipOK, TrackersAgree
    <3> DEFINE base == ifdepth - skip.depth
    <3>2. base \in 1 .. ifdepth
      BY <3>1, <1>1
    <3>3. StateAt(base, base, skip.matchelse) # "active"
      BY <3>2 DEF StateAt
    <3> QED BY <2>1, <2>3, <3>2, <3>3
  <2> QED BY <2>2, <2>3
<1>4. ifdepth # 0 => Abstract!Top = Elem(ifdepth, ifdepth, skip, elseSeen)
  BY <1>1, <1>2 DEF Abstract!Top
<1> QED BY <1>1, <1>2, <1>3, <1>4

(* A line that is handled without error is taken.                            *)
LEMMA TakeLine ==
  ASSUME IInv, ~errors, ~errors', NEW kind, NEW cond, NEW e, Handle(kind, cond, e),
         Line(kind, cond) \in Abstract!Lines,
         ~Abstract!Malformed(line'),
         \/ Abstract!Open(line') \/ Abstract!StartBranch(line')
         \/ Abstract!Close(line') \/ Abstract!Stay(line'),
         done' <=> kind = "end"
  PROVE  Sim
<1>1. Status = "reading" /\ line' \in Abstract!Lines
  BY HandleFacts DEF Status
<1>2. Status' = IF line'.kind = "end" THEN "ended" ELSE "reading"
  BY HandleFacts DEF Status
<1>3. out' = (line'.kind = "text" /\ Abstract!Live)
  <2>1. out' <=> (line'.kind = "text" /\ Abstract!Live)
    BY HandleFacts, Situation
  <2>2. out' = (kind = "text" /\ skip = NotSkipping)
    BY DEF Handle
  <2>3. out' \in BOOLEAN
    BY <2>2
  <2> QED BY <2>1, <2>3
<1> QED BY <1>1, <1>2, <1>3 DEF Sim, Abstract!Next, Abstract!ReadLine, Abstract!Take

(* A line that is the first with an error is refused.                        *)
LEMMA RefuseLine ==
  ASSUME ~errors, errors', NEW kind, NEW cond, NEW e, Handle(kind, cond, e),
         Line(kind, cond) \in Abstract!Lines,
         Abstract!Malformed(line') \/ Abstract!TooDeep(line')
  PROVE  Sim
<1>1. Status = "reading" /\ line' \in Abstract!Lines
  BY HandleFacts DEF Status
<1>2. Status' = "failed"
  BY DEF Status
<1>3. Groups' = <<>>
  BY DEF Groups, GroupsOf
<1> QED BY <1>1, <1>2, <1>3 DEF Sim, Abstract!Next, Abstract!ReadLine, Abstract!Refuse

(* Groups in the next state.                                                 *)
LEMMA GroupsPrimed ==
  ASSUME ~errors'
  PROVE  Groups' = GroupsOf(ifdepth', skip', elseSeen')
BY DEF Groups, GroupsOf, StateAt

(* Text is sent or dropped as the groups say.                                *)
LEMMA TextSim ==
  ASSUME IInv, ~errors, Text \/ SkipText PROVE Sim
<1>1. Handle("text", "true", FALSE) /\ Continue /\ UNCHANGED state
  BY DEF Text, SkipText, Reading, InElse
<1>2. ~errors' /\ line'.kind = "text" /\ ~done'
  BY <1>1, HandleFacts DEF Continue
<1>3. Groups' = Groups
  BY <1>1, <1>2 DEF state, Groups, GroupsOf, StateAt
<1>4. Abstract!Stay(line') /\ ~Abstract!Malformed(line')
  BY <1>2, <1>3 DEF Abstract!Stay, Abstract!Malformed, Abstract!Evaluated
<1> QED BY <1>1, <1>2, <1>4, TakeLine, LinesOK

(* Input ends inside no group, or that is an error.                          *)
LEMMA EndSim ==
  ASSUME IInv, ~errors, End \/ SkipEnd PROVE Sim
<1>1. Handle("end", "true", ifdepth > 0) /\ EndOfInput
  BY DEF End, SkipEnd, Reading, InElse
<1>2. line'.kind = "end" /\ done' /\ (errors' <=> ifdepth > 0)
  <2>1. line'.kind = "end"
    BY <1>1, HandleFacts
  <2>2. errors' = (errors \/ ifdepth > 0)
    BY <1>1 DEF Handle
  <2> QED BY <1>1, <2>1, <2>2 DEF EndOfInput
<1>3. ifdepth \in Nat
  BY DEF IInv, TypeOK
<1>4. CASE ifdepth > 0
  <2>1. Abstract!Malformed(line')
    BY <1>2, <1>3, <1>4, Situation DEF Abstract!Malformed
  <2> QED BY <1>1, <1>2, <1>4, <2>1, RefuseLine, LinesOK
<1>5. CASE ifdepth = 0
  <2>1. Groups' = Groups
    BY <1>1, <1>2, <1>5 DEF EndOfInput, state, Groups, GroupsOf, StateAt
  <2>2. Abstract!Stay(line')
    BY <1>2, <2>1 DEF Abstract!Stay
  <2>3. ~Abstract!Malformed(line')
    BY <1>2, <1>5, Situation DEF Abstract!Malformed, Abstract!Evaluated
  <2> QED BY <1>1, <1>2, <1>5, <2>2, <2>3, TakeLine, LinesOK
<1> QED BY <1>3, <1>4, <1>5

(* Opening a group in a part that is read.                                   *)
LEMMA OpenSim ==
  ASSUME IInv, IInv', ~errors, NEW kind \in {"if", "ifdef"}, NEW c \in Conditions, NEW tooDeep,
         Open(kind, c, tooDeep), tooDeep => ifdepth >= MaxIfNesting
  PROVE  Sim
<1>1. Handle(kind, c, tooDeep \/ c = "bad") /\ skip = NotSkipping
  BY DEF Open, Reading
<1>2. line'.kind = kind /\ line'.cond = c /\ line' = Line(kind, c)
  BY <1>1, HandleFacts
<1>3. errors' = (errors \/ tooDeep \/ c = "bad")
  BY <1>1 DEF Handle
<1>4. ifdepth \in Nat /\ elsetracker = ifdepth
  BY DEF IInv, TypeOK, TrackersAgree
<1>5. CASE tooDeep
  <2>1. errors'
    BY <1>3, <1>5
  <2>2. Len(Groups) = ifdepth /\ ifdepth >= MaxIfNesting
    BY <1>5, Situation
  <2>3. Abstract!TooDeep(line')
    BY <1>2, <1>4, <2>2, MaxIfNestingAssumption DEF Abstract!TooDeep, Abstract!Tracked
  <2> QED BY <1>1, <2>1, <2>3, RefuseLine, LinesOK
<1>6. CASE ~tooDeep /\ c = "bad"
  <2>1. Abstract!Malformed(line') /\ errors'
    BY <1>1, <1>2, <1>3, <1>6, Situation DEF Abstract!Malformed, Abstract!Evaluated
  <2> QED BY <1>1, <2>1, RefuseLine, LinesOK
<1>7. CASE ~tooDeep /\ c # "bad"
  <2>1. ~errors'
    BY <1>3, <1>7
  <2>2. ifdepth' = ifdepth + 1 /\ elseSeen' = elseSeen /\ AfterTest(c) /\ done' = FALSE
    BY <1>7 DEF Open, Deeper, Continue
  <2>3. ~Abstract!Malformed(line')
    BY <1>2, <1>7, Situation DEF Abstract!Malformed, Abstract!Evaluated
  <2> DEFINE st == Abstract!Branch(c)
             n == ifdepth + 1
             g == [state |-> st, elseSeen |-> elseSeen[n]]
  <2>4. /\ \A i \in 1 .. ifdepth : StateAt(i, ifdepth - skip.depth, skip.matchelse)
                                     = StateAt(i, n - skip'.depth, skip'.matchelse)
        /\ StateAt(n, n - skip'.depth, skip'.matchelse) = st
    <3>1. skip.depth = -1
      BY <1>1 DEF NotSkipping
    <3>2. CASE c = "true"
      <4>1. skip' = NotSkipping /\ skip'.depth = -1 /\ st = "active"
        BY <2>2, <3>2 DEF AfterTest, NotSkipping, Abstract!Branch
      <4> QED BY <3>1, <4>1, <1>4 DEF StateAt
    <3>3. CASE c = "false"
      <4>1. skip'.depth = 0 /\ skip'.matchelse /\ st = "waiting"
        BY <2>2, <3>3 DEF AfterTest, Skipping, Abstract!Branch
      <4> QED BY <3>1, <4>1, <1>4 DEF StateAt
    <3> QED BY <1>7, <3>2, <3>3 DEF Conditions
  <2>5. Append(Groups, g) = Groups'
    <3>1. Append(GroupsOf(ifdepth, skip, elseSeen), g) = GroupsOf(n, skip', elseSeen)
      <4> HIDE DEF st
      <4> QED BY <2>4, <1>4, AppendGroup
    <3>2. Groups = GroupsOf(ifdepth, skip, elseSeen)
      BY Situation
    <3>3. Groups' = GroupsOf(n, skip', elseSeen)
      BY <2>1, <2>2, GroupsPrimed
    <3> QED BY <3>1, <3>2, <3>3
  <2>6. elseSeen[n] \in IF n < MaxIfNesting THEN {FALSE} ELSE BOOLEAN
    <3>1. CASE n < MaxIfNesting
      <4>1. n \in Slots /\ n > ifdepth
        BY <3>1, <1>4, MaxIfNestingAssumption DEF Slots
      <4>2. ~elseSeen[n]
        BY <4>1 DEF IInv, TrackersAgree
      <4>3. elseSeen[n] \in BOOLEAN
        BY <4>1 DEF IInv, TypeOK
      <4> QED BY <3>1, <4>2, <4>3
    <3>2. CASE ~ (n < MaxIfNesting)
      <4>1. n \in Slots \cup Padding
        BY <2>1, <2>2, <1>4, <3>2, MaxIfNestingAssumption
        DEF IInv, TrackersAgree, TypeOK, Slots, Padding
      <4> QED BY <4>1, <3>2 DEF IInv, TypeOK
    <3> QED BY <3>1, <3>2
  <2>7. Abstract!Open(line')
    BY <1>1, <1>2, <2>5, <2>6, Situation DEF Abstract!Open
  <2> QED BY <1>1, <2>1, <2>2, <2>3, <2>7, TakeLine, LinesOK
<1> QED BY <1>5, <1>6, <1>7

(* Opening a group in a part that is dropped.                                *)
LEMMA SkipIfSim ==
  ASSUME IInv, IInv', ~errors, NEW kind \in {"if", "ifdef"}, NEW c \in Conditions,
         SkipIf(kind, c)
  PROVE  Sim
<1>1. Handle(kind, c, IfTooDeep) /\ skip # NotSkipping
  BY DEF SkipIf, InElse
<1>2. line'.kind = kind /\ line'.cond = c /\ line' = Line(kind, c)
  BY <1>1, HandleFacts
<1>3. errors' = (errors \/ IfTooDeep)
  BY <1>1 DEF Handle
<1>4. ifdepth \in Nat /\ elsetracker = ifdepth
  BY DEF IInv, TypeOK, TrackersAgree
<1>5. CASE IfTooDeep
  <2>1. errors'
    BY <1>3, <1>5
  <2>2. Len(Groups) = ifdepth /\ ifdepth >= MaxIfNesting
    BY <1>4, <1>5, Situation DEF IfTooDeep
  <2>3. Abstract!TooDeep(line')
    BY <1>2, <1>4, <2>2, MaxIfNestingAssumption DEF Abstract!TooDeep, Abstract!Tracked
  <2> QED BY <1>1, <2>1, <2>3, RefuseLine, LinesOK
<1>6. CASE ~IfTooDeep
  <2>1. ~errors'
    BY <1>3, <1>6
  <2>2. /\ ifdepth' = ifdepth + 1 /\ elseSeen' = elseSeen /\ done' = FALSE
        /\ skip' = [skip EXCEPT !.depth = @ + 1]
    BY <1>6 DEF SkipIf, Deeper, Continue
  <2>3. ~Abstract!Malformed(line')
    BY <1>1, <1>2, Situation DEF Abstract!Malformed, Abstract!Evaluated
  <2> DEFINE n == ifdepth + 1
             g == [state |-> "dead", elseSeen |-> elseSeen[n]]
  <2>4. /\ \A i \in 1 .. ifdepth : StateAt(i, ifdepth - skip.depth, skip.matchelse)
                                     = StateAt(i, n - skip'.depth, skip'.matchelse)
        /\ StateAt(n, n - skip'.depth, skip'.matchelse) = "dead"
    <3>1. skip.depth \in Nat /\ skip'.depth = skip.depth + 1 /\ skip'.matchelse = skip.matchelse
      BY <1>1, <2>2, DepthFacts DEF IInv, TypeOK, SkipOK
    <3>2. n - skip'.depth = ifdepth - skip.depth /\ n > ifdepth - skip.depth
      BY <3>1, <1>4
    <3>3. StateAt(n, n - skip'.depth, skip'.matchelse) = "dead"
      BY <3>2, <1>4, <3>1 DEF StateAt
    <3> QED BY <3>1, <3>2, <3>3
  <2>5. Append(Groups, g) = Groups'
    <3>1. Append(GroupsOf(ifdepth, skip, elseSeen), g) = GroupsOf(n, skip', elseSeen)
      BY <2>4, <1>4, AppendGroup
    <3>2. Groups = GroupsOf(ifdepth, skip, elseSeen)
      BY Situation
    <3>3. Groups' = GroupsOf(n, skip', elseSeen)
      BY <2>1, <2>2, GroupsPrimed
    <3> QED BY <3>1, <3>2, <3>3
  <2>6. elseSeen[n] \in IF n < MaxIfNesting THEN {FALSE} ELSE BOOLEAN
    <3>1. n <= MaxIfNesting /\ n \in Slots \cup Padding
      BY <1>4, <1>6, MaxIfNestingAssumption DEF IfTooDeep, Slots, Padding
    <3>2. elseSeen[n] \in BOOLEAN
      BY <3>1 DEF IInv, TypeOK
    <3>3. n < MaxIfNesting => ~elseSeen[n]
      BY <1>4, MaxIfNestingAssumption DEF IInv, TrackersAgree, Slots
    <3> QED BY <3>2, <3>3
  <2>7. Abstract!Open(line')
    BY <1>1, <1>2, <2>5, <2>6, Situation DEF Abstract!Open
  <2> QED BY <1>1, <2>1, <2>2, <2>3, <2>7, TakeLine, LinesOK
<1> QED BY <1>5, <1>6

(* The next branch of the innermost group, when it is well formed.           *)
LEMMA BranchSim ==
  ASSUME IInv, ~errors, ~errors', ifdepth # 0, ifdepth' = ifdepth, done' = FALSE,
         NEW kind \in {"else", "elif"}, NEW c \in Conditions, NEW e, Handle(kind, c, e),
         Line(kind, c) \in Abstract!Lines,
         ifdepth \in Slots => ~elseSeen[ifdepth],
         kind = "elif" /\ skip # NotSkipping /\ skip.depth = 0 /\ skip.matchelse => c # "bad",
         \A i \in 1 .. ifdepth - 1 :
           /\ StateAt(i, ifdepth - skip.depth, skip.matchelse)
                = StateAt(i, ifdepth - skip'.depth, skip'.matchelse)
           /\ elseSeen[i] = elseSeen'[i],
         StateAt(ifdepth, ifdepth - skip'.depth, skip'.matchelse)
           = Abstract!NextBranch(StateAt(ifdepth, ifdepth - skip.depth, skip.matchelse), c),
         elseSeen'[ifdepth] = (kind = "else")
  PROVE  Sim
<1>1. line'.kind = kind /\ line'.cond = c /\ line' = Line(kind, c)
  BY HandleFacts
<1>2. /\ ifdepth \in Nat /\ Groups # <<>> /\ Len(Groups) = ifdepth
      /\ Abstract!Top = Elem(ifdepth, ifdepth, skip, elseSeen)
      /\ Groups = GroupsOf(ifdepth, skip, elseSeen)
      /\ skip \in SkipType
  BY Situation DEF IInv, TypeOK
<1>3. Abstract!Top.state = "waiting" => skip # NotSkipping /\ skip.depth = 0 /\ skip.matchelse
  <2>1. SUFFICES ASSUME StateAt(ifdepth, ifdepth - skip.depth, skip.matchelse) = "waiting"
                 PROVE  skip # NotSkipping /\ skip.depth = 0 /\ skip.matchelse
    BY <1>2 DEF Elem
  <2>2. ifdepth = ifdepth - skip.depth /\ skip.matchelse
    BY <2>1 DEF StateAt
  <2>3. skip.depth \in Int
    BY <1>2 DEF SkipType, NotSkipping
  <2> QED BY <1>2, <2>2, <2>3 DEF NotSkipping
<1>4. Abstract!Tracked => ~Abstract!Top.elseSeen
  BY <1>2, MaxIfNestingAssumption DEF Abstract!Tracked, Elem, Slots
<1>5. ~Abstract!Malformed(line')
  BY <1>1, <1>2, <1>3, <1>4 DEF Abstract!Malformed, Abstract!Evaluated
<1>6. Groups' = [Groups EXCEPT ![ifdepth] = Elem(ifdepth, ifdepth, skip', elseSeen')]
  <2>1. Groups' = GroupsOf(ifdepth, skip', elseSeen')
    BY GroupsPrimed
  <2>2. ifdepth > 0
    BY <1>2
  <2> QED BY <1>2, <2>1, <2>2, BranchGroup
<1>7. Elem(ifdepth, ifdepth, skip', elseSeen')
        = [state |-> Abstract!NextBranch(Groups[ifdepth].state, c), elseSeen |-> kind = "else"]
  BY <1>2 DEF Elem, Abstract!Top
<1>8. Abstract!StartBranch(line')
  BY <1>1, <1>2, <1>6, <1>7 DEF Abstract!StartBranch
<1> QED BY <1>5, <1>8, TakeLine
-------------------------------------------------------------------------------
(* A second #else, or one outside every group, is an error when it may be.   *)
LEMMA RefuseBranch ==
  ASSUME IInv, ~errors, errors', NEW kind \in {"else", "elif"}, NEW c, NEW e, Handle(kind, c, e),
         Line(kind, c) \in Abstract!Lines, SeenElse \/ ifdepth = 0
  PROVE  Sim
<1>1. line'.kind = kind /\ line' = Line(kind, c)
  BY HandleFacts
<1>2. ifdepth \in Nat /\ elsetracker = ifdepth
  BY DEF IInv, TypeOK, TrackersAgree
<1>3. CASE ifdepth = 0
  <2>1. Abstract!Malformed(line')
    BY <1>1, <1>3, Situation DEF Abstract!Malformed
  <2> QED BY <2>1, RefuseLine
<1>4. CASE ifdepth # 0 /\ ifdepth < MaxIfNesting
  <2>1. Abstract!Top.elseSeen
    BY <1>2, <1>4, Situation DEF SeenElse, Elem
  <2>2. Abstract!Malformed(line')
    BY <1>1, <1>4, <2>1, Situation DEF Abstract!Malformed, Abstract!Tracked
  <2> QED BY <2>2, RefuseLine
<1>5. CASE ~(ifdepth < MaxIfNesting)
  <2>1. Abstract!TooDeep(line')
    BY <1>1, <1>5, Situation DEF Abstract!TooDeep, Abstract!Tracked
  <2> QED BY <2>1, RefuseLine
<1> QED BY <1>2, <1>3, <1>4, <1>5

(* What is known of the counters when a line is handled without error.       *)
LEMMA Reached ==
  ASSUME IInv, ~errors, NEW kind, NEW c, NEW e, Handle(kind, c, e)
  PROVE  /\ ifdepth \in Nat /\ elsetracker = ifdepth /\ ifdepth \in Slots \cup Padding
         /\ FlagsOK /\ InArray /\ elseSeen[ifdepth] \in BOOLEAN
         /\ skip # NotSkipping => /\ skip.depth \in Nat /\ skip.depth < ifdepth
                                  /\ skip.matchelse \in BOOLEAN
         /\ NotSkipping.depth = -1
<1>1. InArray
  BY DEF Handle
<1>2. ifdepth \in Nat /\ elsetracker = ifdepth /\ FlagsOK /\ SkipOK
  BY DEF IInv, TypeOK, TrackersAgree, FlagsOK, SkipOK
<1>3. ifdepth \in Slots \cup Padding
  BY <1>1, <1>2 DEF InArray
<1>4. elseSeen[ifdepth] \in BOOLEAN
  BY <1>2, <1>3 DEF FlagsOK
<1>5. skip # NotSkipping => skip.depth < ifdepth
  BY DEF IInv, TrackersAgree
<1> QED BY <1>1, <1>2, <1>3, <1>4, <1>5, DepthFacts DEF NotSkipping

(* How each state goes on with the next branch.                              *)
LEMMA BranchFacts ==
  /\ Abstract!NextBranch("waiting", "true") = "active"
  /\ Abstract!NextBranch("waiting", "false") = "waiting"
  /\ \A c : Abstract!NextBranch("active", c) = "finished"
  /\ \A c : Abstract!NextBranch("finished", c) = "finished"
  /\ \A c : Abstract!NextBranch("dead", c) = "dead"
BY DEF Abstract!NextBranch, Abstract!Branch

(* Setting the innermost flag leaves the outer ones alone.                   *)
LEMMA OuterFlags ==
  ASSUME IInv, ~errors, NEW kind, NEW c, NEW e, Handle(kind, c, e), NEW b \in BOOLEAN, SetSeen(b)
  PROVE  /\ elseSeen'[ifdepth] = b
         /\ \A i \in 1 .. ifdepth - 1 : elseSeen[i] = elseSeen'[i]
<1>1. /\ FlagsOK /\ InArray /\ elsetracker = ifdepth
      /\ ifdepth \in Nat /\ ifdepth \in Slots \cup Padding
  BY Reached
<1>2. \A i \in 1 .. ifdepth - 1 : i \in Slots \cup Padding /\ i # ifdepth
  BY <1>1, MaxIfNestingAssumption DEF Slots, Padding
<1> QED BY <1>1, <1>2, FlagFacts

(* The states of the groups when the chosen branch ends.                     *)
LEMMA FinishStates ==
  ASSUME NEW n \in Nat, n # 0, NEW s, NEW t,
         s.depth = -1, t.depth = 0, ~t.matchelse
  PROVE  /\ \A i \in 1 .. n - 1 :
              StateAt(i, n - s.depth, s.matchelse) = StateAt(i, n - t.depth, t.matchelse)
         /\ StateAt(n, n - s.depth, s.matchelse) = "active"
         /\ StateAt(n, n - t.depth, t.matchelse) = "finished"
<1>1. n - s.depth = n + 1 /\ n - t.depth = n
  OBVIOUS
<1> QED BY <1>1 DEF StateAt

(* #else while reading.                                                      *)
LEMMA ElseSim ==
  ASSUME IInv, ~errors, Else PROVE Sim
<1>1. Handle("else", "true", SeenElse \/ ifdepth = 0) /\ skip = NotSkipping
  BY DEF Else, Reading
<1>2. errors' = (errors \/ SeenElse \/ ifdepth = 0)
  BY <1>1 DEF Handle
<1>3. CASE SeenElse \/ ifdepth = 0
  BY <1>1, <1>2, <1>3, RefuseBranch, LinesOK
<1>4. CASE ~(SeenElse \/ ifdepth = 0)
  <2>1. ifdepth' = ifdepth /\ SetSeen(TRUE) /\ done' = FALSE /\ skip' = Skipping(FALSE)
    BY DEF Else, Continue
  <2>2. /\ elseSeen'[ifdepth] = ("else" = "else")
        /\ \A i \in 1 .. ifdepth - 1 : elseSeen[i] = elseSeen'[i]
    <3>1. TRUE \in BOOLEAN /\ TRUE = ("else" = "else")
      OBVIOUS
    <3> QED BY <1>1, <2>1, <3>1, OuterFlags
  <2>3. ~errors' /\ "true" \in Conditions
    BY <1>2, <1>4 DEF Conditions
  <2>4. ~elseSeen[ifdepth]
    BY <1>1, <1>4, Reached DEF SeenElse
  <2>5. ifdepth \in Nat /\ skip.depth = -1 /\ skip'.depth = 0 /\ ~skip'.matchelse
    BY <1>1, <2>1, Reached DEF NotSkipping, Skipping
  <2>6. /\ \A i \in 1 .. ifdepth - 1 :
             StateAt(i, ifdepth - skip.depth, skip.matchelse)
               = StateAt(i, ifdepth - skip'.depth, skip'.matchelse)
        /\ StateAt(ifdepth, ifdepth - skip.depth, skip.matchelse) = "active"
        /\ StateAt(ifdepth, ifdepth - skip'.depth, skip'.matchelse) = "finished"
    BY <1>4, <2>5, FinishStates
  <2> QED BY <1>1, <1>4, <2>1, <2>2, <2>3, <2>4, <2>6, BranchFacts, BranchSim, LinesOK
<1> QED BY <1>3, <1>4

(* #elif while reading.                                                      *)
LEMMA ElifSim ==
  ASSUME IInv, ~errors, NEW c \in Conditions, Elif(c) PROVE Sim
<1>1. Handle("elif", c, SeenElse \/ ifdepth = 0) /\ skip = NotSkipping
  BY DEF Elif, Reading
<1>2. errors' = (errors \/ SeenElse \/ ifdepth = 0)
  BY <1>1 DEF Handle
<1>3. CASE SeenElse \/ ifdepth = 0
  BY <1>1, <1>2, <1>3, RefuseBranch, LinesOK
<1>4. CASE ~(SeenElse \/ ifdepth = 0)
  <2>1. ifdepth' = ifdepth /\ elseSeen' = elseSeen /\ done' = FALSE /\ skip' = Skipping(FALSE)
    BY DEF Elif, Continue
  <2>2. elseSeen'[ifdepth] = ("elif" = "else") /\ elseSeen' = elseSeen
    <3>1. elseSeen[ifdepth] \in BOOLEAN /\ ~elseSeen[ifdepth]
      BY <1>1, <1>4, Reached DEF SeenElse
    <3>2. elseSeen[ifdepth] = FALSE /\ ("elif" = "else") = FALSE
      BY <3>1
    <3> QED BY <2>1, <3>2
  <2>3. ~errors'
    BY <1>2, <1>4
  <2>4. ~elseSeen[ifdepth]
    BY <1>1, <1>4, Reached DEF SeenElse
  <2>5. ifdepth \in Nat /\ skip.depth = -1 /\ skip'.depth = 0 /\ ~skip'.matchelse
    BY <1>1, <2>1, Reached DEF NotSkipping, Skipping
  <2>6. /\ \A i \in 1 .. ifdepth - 1 :
             StateAt(i, ifdepth - skip.depth, skip.matchelse)
               = StateAt(i, ifdepth - skip'.depth, skip'.matchelse)
        /\ StateAt(ifdepth, ifdepth - skip.depth, skip.matchelse) = "active"
        /\ StateAt(ifdepth, ifdepth - skip'.depth, skip'.matchelse) = "finished"
    BY <1>4, <2>5, FinishStates
  <2> QED BY <1>1, <1>4, <2>1, <2>2, <2>3, <2>4, <2>6, BranchFacts, BranchSim, LinesOK
<1> QED BY <1>3, <1>4

(* #endif while reading.                                                     *)
LEMMA EndifSim ==
  ASSUME IInv, ~errors, Endif PROVE Sim
<1>1. Handle("endif", "true", ifdepth = 0) /\ skip = NotSkipping
  BY DEF Endif, Reading
<1>2. errors' = (errors \/ ifdepth = 0)
  BY <1>1 DEF Handle
<1>3. line'.kind = "endif"
  BY <1>1, HandleFacts
<1>4. CASE ifdepth = 0
  <2>1. Abstract!Malformed(line')
    BY <1>3, <1>4, Situation DEF Abstract!Malformed
  <2> QED BY <1>1, <1>2, <1>4, <2>1, RefuseLine, LinesOK
<1>5. CASE ifdepth # 0
  <2>1. ifdepth' = ifdepth - 1 /\ SetSeen(FALSE) /\ done' = FALSE /\ skip' = NotSkipping
    BY <1>1, <1>5 DEF Endif, Continue
  <2>2. ifdepth \in Nat /\ ifdepth > 0 /\ ifdepth - 1 \in Nat
    BY <1>1, <1>5, Reached
  <2>3. \A i \in 1 .. ifdepth - 1 : elseSeen[i] = elseSeen'[i]
    <3>1. FALSE \in BOOLEAN
      OBVIOUS
    <3> QED BY <1>1, <2>1, <3>1, OuterFlags
  <2>4. PICK k \in Nat : k = ifdepth - 1
    BY <2>2
  <2>5. \A i \in 1 .. k : StateAt(i, ifdepth - skip.depth, skip.matchelse)
                            = StateAt(i, k - skip'.depth, skip'.matchelse)
    <3>1. ifdepth - skip.depth = ifdepth + 1 /\ k - skip'.depth = ifdepth
      BY <1>1, <2>1, <2>2, <2>4 DEF NotSkipping
    <3> QED BY <2>2, <2>4, <3>1 DEF StateAt
  <2>6. SubSeq(GroupsOf(ifdepth, skip, elseSeen), 1, k) = GroupsOf(k, skip', elseSeen')
    <3>1. ifdepth = k + 1 /\ \A i \in 1 .. k : elseSeen[i] = elseSeen'[i]
      BY <2>2, <2>3, <2>4
    <3> QED BY <2>2, <2>5, <3>1, CloseGroup
  <2>7. ~errors'
    BY <1>2, <1>5
  <2>8. Groups' = SubSeq(Groups, 1, Len(Groups) - 1)
    BY <2>1, <2>4, <2>6, <2>7, Situation, GroupsPrimed
  <2>9. Abstract!Close(line') /\ ~Abstract!Malformed(line')
    BY <1>3, <1>5, <2>8, Situation DEF Abstract!Close, Abstract!Malformed, Abstract!Evaluated
  <2> QED BY <1>1, <2>1, <2>7, <2>9, TakeLine, LinesOK
<1> QED BY <1>4, <1>5

(* #endif in a part that is dropped.                                         *)
LEMMA SkipEndifSim ==
  ASSUME IInv, ~errors, SkipEndif PROVE Sim
<1>1. Handle("endif", "true", FALSE) /\ skip # NotSkipping
  BY DEF SkipEndif, InElse
<1>2. line'.kind = "endif" /\ ~errors'
  BY <1>1, HandleFacts
<1>3. /\ ifdepth \in Nat /\ ifdepth # 0
      /\ skip.depth \in Nat /\ skip.depth < ifdepth
  <2>1. ifdepth \in Nat /\ skip.depth \in Nat /\ skip.depth < ifdepth
    BY <1>1, Reached
  <2> QED BY <2>1
<1>4. ifdepth' = ifdepth - 1 /\ SetSeen(FALSE) /\ done' = FALSE
  BY <1>3 DEF SkipEndif, Continue
<1>5. \A i \in 1 .. ifdepth - 1 : elseSeen[i] = elseSeen'[i]
  <2>1. FALSE \in BOOLEAN
    OBVIOUS
  <2> QED BY <1>1, <1>4, <2>1, OuterFlags
<1>6. PICK k \in Nat : k = ifdepth - 1
  BY <1>3
<1>7. \A i \in 1 .. k : StateAt(i, ifdepth - skip.depth, skip.matchelse)
                          = StateAt(i, k - skip'.depth, skip'.matchelse)
  <2>1. CASE AtBase
    <3>1. skip.depth = 0 /\ skip' = NotSkipping
      BY <2>1 DEF SkipEndif, AtBase
    <3>2. ifdepth - skip.depth = ifdepth /\ k - skip'.depth = ifdepth
      BY <1>3, <1>6, <3>1 DEF NotSkipping
    <3> QED BY <1>3, <1>6, <3>2 DEF StateAt
  <2>2. CASE ~AtBase
    <3>1. skip.depth # 0 /\ skip' = [skip EXCEPT !.depth = @ - 1]
      BY <2>2 DEF SkipEndif, AtBase
    <3>2. SkipOK /\ skip.depth - 1 \in Nat
      BY <1>3, <3>1 DEF IInv, TypeOK, SkipOK
    <3>3. skip'.depth = skip.depth - 1 /\ skip'.matchelse = skip.matchelse
      BY <1>1, <3>1, <3>2, DepthFacts
    <3>4. ifdepth - skip.depth = k - skip'.depth
      BY <1>3, <1>6, <3>3
    <3> QED BY <3>3, <3>4
  <2> QED BY <2>1, <2>2
<1>8. SubSeq(GroupsOf(ifdepth, skip, elseSeen), 1, k) = GroupsOf(k, skip', elseSeen')
  <2>1. ifdepth \in Nat /\ ifdepth > 0 /\ ifdepth - 1 \in Nat
    BY <1>3
  <2>2. ifdepth = k + 1 /\ \A i \in 1 .. k : elseSeen[i] = elseSeen'[i]
    BY <2>1, <1>5, <1>6
  <2> QED BY <1>7, <2>1, <2>2, CloseGroup
<1>9. Groups' = SubSeq(Groups, 1, Len(Groups) - 1)
  BY <1>2, <1>4, <1>6, <1>8, Situation, GroupsPrimed
<1>10. Abstract!Close(line') /\ ~Abstract!Malformed(line')
  BY <1>2, <1>3, <1>9, Situation DEF Abstract!Close, Abstract!Malformed, Abstract!Evaluated
<1> QED BY <1>1, <1>2, <1>4, <1>10, TakeLine, LinesOK

(* The branch that CPPelse looked for: what follows is read.                 *)
LEMMA FoundStates ==
  ASSUME NEW n \in Nat, n # 0, NEW s, NEW t, s.depth = 0, s.matchelse, t.depth = -1
  PROVE  /\ \A i \in 1 .. n - 1 :
              StateAt(i, n - s.depth, s.matchelse) = StateAt(i, n - t.depth, t.matchelse)
         /\ StateAt(n, n - s.depth, s.matchelse) = "waiting"
         /\ StateAt(n, n - t.depth, t.matchelse) = "active"
<1>1. n - s.depth = n /\ n - t.depth = n + 1
  OBVIOUS
<1> QED BY <1>1 DEF StateAt

(* The flag of the group in which CPPelse looks for a match is clear.        *)
LEMMA SoughtClear ==
  ASSUME IInv, ~errors, MayMatch, skip # NotSkipping,
         NEW kind, NEW c, NEW e, Handle(kind, c, e)
  PROVE  /\ skip.depth = 0 /\ skip.matchelse /\ ifdepth \in Nat /\ ifdepth # 0
         /\ ifdepth \in Slots => ~elseSeen[ifdepth]
<1>1. skip.depth = 0 /\ skip.matchelse /\ ifdepth \in Nat /\ ifdepth # 0
  BY Reached DEF MayMatch, AtBase
<1>2. Sought = ifdepth
  BY <1>1 DEF Sought
<1>3. ifdepth \in Slots => ~elseSeen[ifdepth]
  BY <1>1, <1>2 DEF IInv, NoElseYet
<1> QED BY <1>1, <1>3

(* #else where CPPelse looks for a match.                                    *)
LEMMA MatchElseSim ==
  ASSUME IInv, ~errors, MatchElse PROVE Sim
<1>1. Handle("else", "true", FALSE) /\ skip # NotSkipping /\ MayMatch
  BY DEF MatchElse, InElse
<1>2. ~errors' /\ "true" \in Conditions
  BY <1>1, HandleFacts DEF Conditions
<1>3. ifdepth' = ifdepth /\ SetSeen(TRUE) /\ done' = FALSE /\ skip' = NotSkipping
  BY DEF MatchElse, Continue
<1>4. /\ elseSeen'[ifdepth] = ("else" = "else")
      /\ \A i \in 1 .. ifdepth - 1 : elseSeen[i] = elseSeen'[i]
  <2>1. TRUE \in BOOLEAN /\ TRUE = ("else" = "else")
    OBVIOUS
  <2> QED BY <1>1, <1>3, <2>1, OuterFlags
<1>5. /\ skip.depth = 0 /\ skip.matchelse /\ ifdepth \in Nat /\ ifdepth # 0
      /\ ifdepth \in Slots => ~elseSeen[ifdepth]
  BY <1>1, SoughtClear
<1>6. skip'.depth = -1
  BY <1>3 DEF NotSkipping
<1>7. /\ \A i \in 1 .. ifdepth - 1 :
           StateAt(i, ifdepth - skip.depth, skip.matchelse)
             = StateAt(i, ifdepth - skip'.depth, skip'.matchelse)
      /\ StateAt(ifdepth, ifdepth - skip.depth, skip.matchelse) = "waiting"
      /\ StateAt(ifdepth, ifdepth - skip'.depth, skip'.matchelse) = "active"
  BY <1>5, <1>6, FoundStates
<1> QED BY <1>1, <1>2, <1>3, <1>4, <1>5, <1>7, BranchFacts, BranchSim, LinesOK

(* #elif where CPPelse looks for a match.                                    *)
LEMMA MatchElifSim ==
  ASSUME IInv, ~errors, NEW c \in Conditions, MatchElif(c) PROVE Sim
<1> DEFINE tooDeep == ifdepth - 1 >= MaxIfNesting \/ elsetracker - 1 >= MaxIfNesting
<1>1. Handle("elif", c, SeenElse \/ tooDeep \/ c = "bad") /\ skip # NotSkipping /\ MayMatch
  BY DEF MatchElif, InElse
<1>2. errors' = (errors \/ SeenElse \/ tooDeep \/ c = "bad")
  BY <1>1 DEF Handle
<1>3. line'.kind = "elif" /\ line'.cond = c
  BY <1>1, HandleFacts
<1>4. /\ skip.depth = 0 /\ skip.matchelse /\ ifdepth \in Nat /\ ifdepth # 0
      /\ (ifdepth \in Slots => ~elseSeen[ifdepth])
  BY <1>1, SoughtClear
<1>5. CASE tooDeep
  <2>1. ~(ifdepth < MaxIfNesting)
    <3>1. elsetracker = ifdepth
      BY <1>1, Reached
    <3> QED BY <1>4, <1>5, <3>1, MaxIfNestingAssumption
  <2>2. Abstract!TooDeep(line')
    BY <1>3, <2>1, Situation DEF Abstract!TooDeep, Abstract!Tracked
  <2> QED BY <1>1, <1>2, <1>5, <2>2, RefuseLine, LinesOK
<1>6. CASE SeenElse
  BY <1>1, <1>2, <1>6, RefuseBranch, LinesOK
<1>7. CASE c = "bad"
  <2>1. ifdepth = ifdepth - skip.depth
    BY <1>4
  <2>2. StateAt(ifdepth, ifdepth - skip.depth, skip.matchelse) = "waiting"
    BY <1>4, <2>1 DEF StateAt
  <2>3. Abstract!Top.state = "waiting"
    <3>1. Abstract!Top = Elem(ifdepth, ifdepth, skip, elseSeen)
      BY <1>4, Situation
    <3> QED BY <2>2, <3>1 DEF Elem
  <2>4. Abstract!Malformed(line')
    BY <1>3, <1>4, <1>7, <2>3, Situation DEF Abstract!Malformed, Abstract!Evaluated
  <2> QED BY <1>1, <1>2, <1>7, <2>4, RefuseLine, LinesOK
<1>8. CASE ~(SeenElse \/ tooDeep \/ c = "bad")
  <2>1. ~errors' /\ c # "bad"
    BY <1>2, <1>8
  <2>2. /\ ifdepth' = ifdepth /\ SetSeen(FALSE) /\ done' = FALSE /\ AfterTest(c)
    BY <1>8 DEF MatchElif, Continue
  <2>3. /\ elseSeen'[ifdepth] = ("elif" = "else")
        /\ \A i \in 1 .. ifdepth - 1 : elseSeen[i] = elseSeen'[i]
    <3>1. FALSE \in BOOLEAN /\ FALSE = ("elif" = "else")
      OBVIOUS
    <3> QED BY <1>1, <2>2, <3>1, OuterFlags
  <2>4. CASE c = "true"
    <3>1. skip'.depth = -1
      BY <2>2, <2>4 DEF AfterTest, NotSkipping
    <3>2. /\ \A i \in 1 .. ifdepth - 1 :
               StateAt(i, ifdepth - skip.depth, skip.matchelse)
                 = StateAt(i, ifdepth - skip'.depth, skip'.matchelse)
          /\ StateAt(ifdepth, ifdepth - skip.depth, skip.matchelse) = "waiting"
          /\ StateAt(ifdepth, ifdepth - skip'.depth, skip'.matchelse) = "active"
      BY <1>4, <3>1, FoundStates
    <3> QED BY <1>1, <1>4, <2>1, <2>2, <2>3, <2>4, <3>2, BranchFacts, BranchSim, LinesOK
  <2>5. CASE c = "false"
    <3>1. skip'.depth = skip.depth /\ skip'.matchelse = skip.matchelse
      <4>1. skip' = Skipping(TRUE) /\ skip.matchelse \in BOOLEAN
        BY <1>1, <2>2, <2>5, Reached DEF AfterTest
      <4>2. skip'.depth = 0 /\ skip'.matchelse = TRUE
        BY <4>1 DEF Skipping
      <4> QED BY <1>4, <4>1, <4>2
    <3>2. StateAt(ifdepth, ifdepth - skip.depth, skip.matchelse) = "waiting"
      <4>1. ifdepth = ifdepth - skip.depth
        BY <1>4
      <4> QED BY <1>4, <4>1 DEF StateAt
    <3>3. /\ \A i \in 1 .. ifdepth - 1 :
               StateAt(i, ifdepth - skip.depth, skip.matchelse)
                 = StateAt(i, ifdepth - skip'.depth, skip'.matchelse)
          /\ StateAt(ifdepth, ifdepth - skip'.depth, skip'.matchelse) = "waiting"
      BY <3>1, <3>2
    <3> QED BY <1>1, <1>4, <2>1, <2>2, <2>3, <2>5, <3>2, <3>3, BranchFacts, BranchSim, LinesOK
  <2> QED BY <2>1, <2>4, <2>5 DEF Conditions
<1> QED BY <1>5, <1>6, <1>7, <1>8

(* The next branch of a group that is finished or dead changes nothing.      *)
LEMMA StayStates ==
  ASSUME NEW n \in Nat, n # 0, NEW s, s.depth \in Nat, s.depth < n,
         ~(s.matchelse /\ s.depth = 0), NEW c
  PROVE  Abstract!NextBranch(StateAt(n, n - s.depth, s.matchelse), c)
           = StateAt(n, n - s.depth, s.matchelse)
<1> DEFINE st == StateAt(n, n - s.depth, s.matchelse)
<1>1. st \in {"finished", "dead"}
  <2>1. CASE s.depth = 0
    <3>1. n - s.depth = n /\ ~s.matchelse
      BY <2>1
    <3> QED BY <3>1 DEF StateAt
  <2>2. CASE s.depth # 0
    <3>1. n - s.depth < n
      BY <2>2
    <3> QED BY <3>1 DEF StateAt
  <2> QED BY <2>1, <2>2
<1> HIDE DEF st
<1>2. Abstract!NextBranch(st, c) = st
  BY <1>1 DEF Abstract!NextBranch
<1> QED BY <1>2 DEF st

(* #else in a part that is dropped.                                          *)
LEMMA SkipElseSim ==
  ASSUME IInv, ~errors, SkipElse PROVE Sim
<1>1. Handle("else", "true", SeenElse) /\ skip # NotSkipping /\ ~MayMatch
  BY DEF SkipElse, InElse
<1>2. errors' = (errors \/ SeenElse)
  BY <1>1 DEF Handle
<1>3. CASE SeenElse
  BY <1>1, <1>2, <1>3, RefuseBranch, LinesOK
<1>4. CASE ~SeenElse
  <2>1. ifdepth' = ifdepth /\ SetSeen(TRUE) /\ done' = FALSE /\ skip' = skip
    BY DEF SkipElse, Continue
  <2>2. /\ elseSeen'[ifdepth] = ("else" = "else")
        /\ \A i \in 1 .. ifdepth - 1 : elseSeen[i] = elseSeen'[i]
    <3>1. TRUE \in BOOLEAN /\ TRUE = ("else" = "else")
      OBVIOUS
    <3> QED BY <1>1, <2>1, <3>1, OuterFlags
  <2>3. ~errors' /\ "true" \in Conditions
    BY <1>2, <1>4 DEF Conditions
  <2>4. /\ ~elseSeen[ifdepth] /\ ifdepth # 0
        /\ Abstract!NextBranch(StateAt(ifdepth, ifdepth - skip.depth, skip.matchelse), "true")
             = StateAt(ifdepth, ifdepth - skip.depth, skip.matchelse)
    <3>1. elsetracker = ifdepth /\ ifdepth \in Nat /\ skip.depth \in Nat /\ skip.depth < ifdepth
      BY <1>1, Reached
    <3>2. ~(skip.matchelse /\ skip.depth = 0) /\ ~elseSeen[ifdepth]
      BY <1>1, <1>4, <3>1 DEF MayMatch, AtBase, SeenElse
    <3>3. ifdepth # 0
      BY <3>1
    <3> QED BY <3>1, <3>2, <3>3, StayStates
  <2> QED BY <1>1, <2>1, <2>2, <2>3, <2>4, BranchSim, LinesOK
<1> QED BY <1>3, <1>4

(* #elif in a part that is dropped.                                          *)
LEMMA SkipElifSim ==
  ASSUME IInv, ~errors, NEW c \in Conditions, SkipElif(c) PROVE Sim
<1>1. Handle("elif", c, SeenElse) /\ skip # NotSkipping /\ ~MayMatch
  BY DEF SkipElif, InElse
<1>2. errors' = (errors \/ SeenElse)
  BY <1>1 DEF Handle
<1>3. CASE SeenElse
  BY <1>1, <1>2, <1>3, RefuseBranch, LinesOK
<1>4. CASE ~SeenElse
  <2>1. ifdepth' = ifdepth /\ elseSeen' = elseSeen /\ done' = FALSE /\ skip' = skip
    BY DEF SkipElif, Continue, state
  <2>2. elseSeen'[ifdepth] = ("elif" = "else")
    <3>1. elseSeen[ifdepth] \in BOOLEAN /\ ~elseSeen[ifdepth]
      BY <1>1, <1>4, Reached DEF SeenElse
    <3>2. elseSeen[ifdepth] = FALSE /\ ("elif" = "else") = FALSE
      BY <3>1
    <3> QED BY <2>1, <3>2
  <2>3. ~errors'
    BY <1>2, <1>4
  <2>4. /\ ~elseSeen[ifdepth] /\ ifdepth # 0 /\ ~(skip.depth = 0 /\ skip.matchelse)
        /\ Abstract!NextBranch(StateAt(ifdepth, ifdepth - skip.depth, skip.matchelse), c)
             = StateAt(ifdepth, ifdepth - skip.depth, skip.matchelse)
    <3>1. elsetracker = ifdepth /\ ifdepth \in Nat /\ skip.depth \in Nat /\ skip.depth < ifdepth
      BY <1>1, Reached
    <3>2. ~(skip.matchelse /\ skip.depth = 0) /\ ~elseSeen[ifdepth]
      BY <1>1, <1>4, <3>1 DEF MayMatch, AtBase, SeenElse
    <3>3. ifdepth # 0
      BY <3>1
    <3> QED BY <3>1, <3>2, <3>3, StayStates
  <2> QED BY <1>1, <2>1, <2>2, <2>3, <2>4, BranchSim, LinesOK
<1> QED BY <1>3, <1>4

-------------------------------------------------------------------------------
(* Every step before the first error is a step of CondGroups.                *)
LEMMA StepSim ==
  ASSUME IInv, IInv', ~errors, Next PROVE Sim
<1>1. CASE Text \/ SkipText
  BY <1>1, TextSim
<1>2. CASE End \/ SkipEnd
  BY <1>2, EndSim
<1>3. ASSUME NEW c \in Conditions, If(c) \/ Ifdef(c) PROVE Sim
  <2>1. ifdepth \in Nat /\ elsetracker = ifdepth
    BY DEF IInv, TypeOK, TrackersAgree
  <2>2. /\ IfTooDeep => ifdepth >= MaxIfNesting
        /\ IfdefTooDeep => ifdepth >= MaxIfNesting
    BY <2>1, MaxIfNestingAssumption DEF IfTooDeep, IfdefTooDeep
  <2> QED BY <1>3, <2>2, OpenSim DEF If, Ifdef
<1>4. CASE Else
  BY <1>4, ElseSim
<1>5. CASE \E c \in Conditions : Elif(c)
  BY <1>5, ElifSim
<1>6. CASE Endif
  BY <1>6, EndifSim
<1>7. CASE SkipEndif
  BY <1>7, SkipEndifSim
<1>8. CASE MatchElse
  BY <1>8, MatchElseSim
<1>9. CASE SkipElse
  BY <1>9, SkipElseSim
<1>10. CASE \E c \in Conditions : SkipIf("if", c) \/ SkipIf("ifdef", c)
  BY <1>10, SkipIfSim
<1>11. CASE \E c \in Conditions : MatchElif(c)
  BY <1>11, MatchElifSim
<1>12. CASE \E c \in Conditions : SkipElif(c)
  BY <1>12, SkipElifSim
<1> QED
  BY <1>1, <1>2, <1>3, <1>4, <1>5, <1>6, <1>7, <1>8, <1>9, <1>10, <1>11, <1>12 DEF Next

(* After the first error nothing is promised, and errors stay.               *)
LEMMA ErrorSim ==
  ASSUME errors, errors' PROVE Sim
<1>1. Status = "failed" /\ Status' = "failed"
  BY DEF Status
<1>2. Groups' = <<>>
  BY DEF Groups, GroupsOf
<1> QED BY <1>1, <1>2 DEF Sim, Abstract!Next, Abstract!AfterError

(* No action takes an error back.                                            *)
LEMMA ErrorsLast == errors /\ Next => errors'
BY DEF Next, Text, End, Else, Endif, If, Ifdef, Open, Elif, SkipText, SkipEnd,
   SkipEndif, MatchElse, SkipElse, SkipIf, MatchElif, SkipElif, Reading, InElse, Handle

(* At first no group is open.                                                *)
LEMMA InitSim == Init => Abstract!Init
<1> SUFFICES ASSUME Init PROVE Abstract!Init
  OBVIOUS
<1>1. IInv /\ ~errors /\ ifdepth = 0
  BY InvInit DEF Init
<1>2. Groups = <<>> /\ Status = "reading"
  BY <1>1, Situation DEF Init, Status
<1> QED BY <1>2 DEF Init, Line, Abstract!Init

(* For every nesting limit: the counters, flags and parameters of the code   *)
(* implement the stack of conditional groups: text reaches the parser,       *)
(* conditions count and malformed sources are refused as CondGroups demands. *)
THEOREM Refines == Spec => GroupsSpec
<1>1. IInv /\ IInv' /\ [Next]_vars => [Abstract!Next]_Abstract!vars
  <2> SUFFICES ASSUME IInv, IInv', [Next]_vars PROVE [Abstract!Next]_Abstract!vars
    OBVIOUS
  <2>1. CASE Next
    BY <2>1, StepSim, ErrorSim, ErrorsLast DEF Sim
  <2>2. CASE UNCHANGED vars
    BY <2>2 DEF vars, Abstract!vars, Groups, GroupsOf, StateAt, Status
  <2> QED BY <2>1, <2>2
<1> QED BY <1>1, InitSim, TrackersCorrect, PTL DEF Spec, GroupsSpec, Abstract!Spec

(***************************************************************************)
(* The inputs and the includers.                                           *)
(***************************************************************************)

(* Max chooses the largest element, if there is one.                         *)
LEMMA MaxIs ==
  ASSUME NEW S, NEW m \in S, S \subseteq Nat, \A y \in S : m >= y
  PROVE  Max(S) = m
<1>1. \A x \in S : (\A y \in S : x >= y) => x = m
  <2> TAKE x \in S
  <2> HAVE \A y \in S : x >= y
  <2>1. x >= m /\ m >= x /\ x \in Nat /\ m \in Nat
    OBVIOUS
  <2> QED BY <2>1
<1>2. \E x \in S : \A y \in S : x >= y
  OBVIOUS
<1>3. (CHOOSE x \in S : \A y \in S : x >= y) = m
  BY <1>1, <1>2, Zenon
<1> QED BY <1>3, Zenon DEF Max

(* A set of positions in a sequence has a largest one.                       *)
LEMMA MaxExists ==
  ASSUME NEW n \in Nat, NEW S, S \subseteq 1 .. n, S # {}
  PROVE  Max(S) \in S
<1> DEFINE T == {n - i : i \in S}
           R == OpToRel(<, Nat)
<1>1. T \subseteq Nat
  <2>1. \A i \in S : n - i \in Nat
    OBVIOUS
  <2> QED BY <2>1
<1>2. PICK x \in T : \A y \in T : ~ (<<y, x>> \in R)
  <2>1. T # {}
    OBVIOUS
  <2> HIDE DEF T, R
  <2>2. IsWellFoundedOn(R, Nat)
    BY NatLessThanWellFounded DEF R
  <2> QED BY <1>1, <2>1, <2>2, WFMin
<1>3. PICK m \in S : x = n - m
  OBVIOUS
<1>4. \A i \in S : m >= i
  <2> TAKE i \in S
  <2>1. ~ (n - i < n - m)
    <3>1. n - i \in T /\ n - i \in Nat /\ x \in Nat
      BY <1>1
    <3> HIDE DEF T
    <3>2. ~ (<<n - i, x>> \in R)
      BY <1>2, <3>1
    <3>3. ~ (n - i < x)
      BY <3>1, <3>2 DEF R, OpToRel
    <3> QED BY <3>3, <1>3
  <2> QED BY <2>1
<1>5. S \subseteq Nat
  OBVIOUS
<1>6. Max(S) = m
  BY <1>4, <1>5, MaxIs
<1> QED BY <1>6

-------------------------------------------------------------------------------
\* What an input is, the height of the stack, and its results by position.
Input == [result : Entered, prevScanner : Entered \cup {SourceScanner}]
Depth == Len(inputStack)
ResultAt(i) == inputStack[i].result

(* The positions of the stack, and what lies at each.                        *)
LEMMA Positions ==
  ASSUME PpIInv
  PROVE  /\ Depth \in Nat /\ DOMAIN inputStack = 1 .. Depth
         /\ inputStack \in Seq(Input)
         /\ \A i \in 1 .. Depth :
              /\ inputStack[i] \in Input
              /\ ResultAt(i) \in Entered
              /\ ResultAt(i).id \in Nat \ {0} /\ ResultAt(i).file \in Headers
         /\ inputStack = <<>> <=> Depth = 0
<1>1. inputStack \in Seq(Input)
  BY DEF PpIInv, InputsTyped, Input
<1> HIDE DEF Input
<1>2. Depth \in Nat /\ DOMAIN inputStack = 1 .. Depth
  BY <1>1, LenProperties DEF Depth
<1>3. \A i \in 1 .. Depth : inputStack[i] \in Input
  BY <1>1, ElementOfSeq DEF Depth
<1>4. inputStack = <<>> <=> Depth = 0
  BY <1>1, EmptySeq DEF Depth
<1>5. \A i \in 1 .. Depth :
        /\ ResultAt(i) \in Entered
        /\ ResultAt(i).id \in Nat \ {0} /\ ResultAt(i).file \in Headers
  BY <1>3 DEF ResultAt, Input, Entered
<1> QED BY <1>1, <1>2, <1>3, <1>4, <1>5

(* The stack of includes is that of the results, position by position.       *)
LEMMA Includes ==
  ASSUME PpIInv
  PROVE  /\ includeStack \in Seq(Entered)
         /\ Len(includeStack) = Depth /\ DOMAIN includeStack = 1 .. Depth
         /\ \A i \in 1 .. Depth : includeStack[i] = ResultAt(i)
<1>1. includeStack = [i \in 1 .. Depth |-> ResultAt(i)]
  BY DEF PpIInv, InputsInOrder, FollowsInput, Depth, ResultAt
<1>2. Depth \in Nat /\ \A i \in 1 .. Depth : ResultAt(i) \in Entered
  BY Positions
<1> HIDE DEF Depth, ResultAt, Entered
<1>3. includeStack \in Seq(Entered)
  BY <1>1, <1>2
<1>4. Len(includeStack) = Depth /\ DOMAIN includeStack = 1 .. Depth
  BY <1>1, <1>2
<1> QED BY <1>1, <1>3, <1>4

(* A new result is younger than every result that is held.                   *)
LEMMA NewIsYoungest ==
  ASSUME PpIInv, NEW f, NEW text
  PROVE  LET r == NewResult(held, f, text) IN
         /\ r.id \in Nat \ {0} /\ r.file = f /\ r.text = text
         /\ r = [id |-> r.id, file |-> f, text |-> text]
         /\ \A i \in 1 .. Depth : ResultAt(i).id < r.id
         /\ r \notin held
<1> DEFINE ids == {r.id : r \in held} \cup {0}
<1>1. held = {ResultAt(i) : i \in 1 .. Depth}
  BY Positions DEF PpIInv, InputsInOrder, HeldWhileScanned, ResultAt
<1>2. Depth \in Nat /\ \A i \in 1 .. Depth : ResultAt(i).id \in Nat \ {0}
  BY Positions
<1>3. \A j \in 1 .. Depth : \A i \in 1 .. j - 1 : ResultAt(i).id < ResultAt(j).id
  BY Positions DEF PpIInv, YoungestOnTop, ResultAt
<1> HIDE DEF Depth, ResultAt
<1>4. ids = {ResultAt(i).id : i \in 1 .. Depth} \cup {0}
  BY <1>1
<1>5. ids \subseteq Nat
  BY <1>2, <1>4
<1>6. Max(ids) \in Nat /\ \A i \in 1 .. Depth : ResultAt(i).id <= Max(ids)
  <2>1. CASE Depth = 0
    <3>1. ids = {0}
      BY <1>4, <2>1
    <3>2. 0 \in ids /\ \A y \in ids : 0 >= y
      BY <3>1
    <3>3. Max(ids) = 0
      <4> HIDE DEF ids
      <4> QED BY <3>2, <1>5, MaxIs
    <3> QED BY <3>3, <2>1, <1>2
  <2>2. CASE Depth # 0
    <3>1. Depth \in 1 .. Depth
      BY <1>2, <2>2
    <3>2. \A i \in 1 .. Depth : ResultAt(i).id <= ResultAt(Depth).id
      <4> TAKE i \in 1 .. Depth
      <4>1. CASE i = Depth
        BY <4>1, <1>2
      <4>2. CASE i # Depth
        <5>1. i \in 1 .. Depth - 1
          BY <4>2, <1>2
        <5>2. ResultAt(i).id < ResultAt(Depth).id
          BY <5>1, <3>1, <1>3
        <5> QED BY <5>2, <3>1, <1>2
      <4> QED BY <4>1, <4>2
    <3>3. ResultAt(Depth).id \in ids
      BY <1>4, <3>1
    <3>4. \A y \in ids : ResultAt(Depth).id >= y
      BY <1>4, <3>1, <3>2, <1>2
    <3>5. Max(ids) = ResultAt(Depth).id
      <4> HIDE DEF ids
      <4> QED BY <3>3, <3>4, <1>5, MaxIs
    <3> QED BY <3>5, <3>2, <3>1, <1>2
  <2> QED BY <2>1, <2>2
<1> DEFINE r == NewResult(held, f, text)
           top == Max(ids)
<1>7. r = [id |-> top + 1, file |-> f, text |-> text]
  BY DEF NewResult
<1>8. r.id = top + 1 /\ r.file = f /\ r.text = text
  BY <1>7
<1>9. top \in Nat /\ \A i \in 1 .. Depth : ResultAt(i).id <= top
  BY <1>6
<1> HIDE DEF r, top, ids
<1>10. r.id \in Nat \ {0} /\ \A i \in 1 .. Depth : ResultAt(i).id < r.id
  BY <1>8, <1>9, <1>2
<1>11. r \notin held
  BY <1>1, <1>10, <1>2
<1>12. r = [id |-> r.id, file |-> f, text |-> text]
  BY <1>7, <1>8
<1> QED BY <1>8, <1>10, <1>11, <1>12 DEF r

-------------------------------------------------------------------------------
(* The scanner of a parse is the one of the innermost input.                 *)
LEMMA ScannerNow ==
  ASSUME PpIInv, stage # "idle"
  PROVE  /\ scanner = IF Depth = 0 THEN SourceScanner ELSE ResultAt(Depth)
         /\ scanner \in Entered \cup {SourceScanner}
         /\ \A i \in 1 .. Depth :
              inputStack[i].prevScanner = IF i = 1 THEN SourceScanner ELSE ResultAt(i - 1)
         /\ currentSourceFile = IF Depth = 0 THEN rootFileName ELSE includeStack[Depth].file
<1>1. Depth \in Nat /\ \A i \in 1 .. Depth : ResultAt(i) \in Entered
  BY Positions
<1>2. /\ scanner = IF Depth = 0 THEN SourceScanner ELSE ResultAt(Depth)
      /\ \A i \in 1 .. Depth :
           inputStack[i].prevScanner = IF i - 1 = 0 THEN SourceScanner ELSE ResultAt(i - 1)
      /\ currentSourceFile = IF Depth = 0 THEN rootFileName ELSE includeStack[Depth].file
  BY DEF PpIInv, InputsInOrder, FollowsInput, Depth, ResultAt
<1> HIDE DEF Depth, ResultAt, Entered, SourceScanner
<1>3. \A i \in 1 .. Depth : i - 1 = 0 <=> i = 1
  BY <1>1
<1>4. scanner \in Entered \cup {SourceScanner}
  BY <1>1, <1>2
<1> QED BY <1>2, <1>3, <1>4

(* Entering a result that is younger than all others keeps inputs in order.  *)
LEMMA PushKeeps ==
  ASSUME PpIInv, stage = "parsing", UNCHANGED <<stage, rootFileName>>,
         NEW r \in Entered, \A i \in 1 .. Depth : ResultAt(i).id < r.id,
         PushInclude(r), held' = held \cup {r}
  PROVE  PpIInv'
<1> DEFINE d == Depth
           input == [result |-> r, prevScanner |-> scanner]
<1>1. /\ d \in Nat /\ inputStack \in Seq(Input) /\ DOMAIN inputStack = 1 .. d
      /\ d = Len(inputStack)
      /\ includeStack \in Seq(Entered) /\ Len(includeStack) = d
      /\ \A i \in 1 .. d : includeStack[i] = ResultAt(i)
  BY Positions, Includes DEF Depth
<1>2. input \in Input /\ input.result = r /\ input.prevScanner = scanner
  BY ScannerNow DEF Input
<1>3. /\ inputStack' = Append(inputStack, input)
      /\ includeStack' = Append(includeStack, r)
      /\ scanner' = r /\ currentSourceFile' = r.file
      /\ stage' = "parsing" /\ rootFileName' = rootFileName
  BY DEF PushInclude
<1> HIDE DEF d, Input, Entered, input
<1>4. /\ inputStack' \in Seq(Input) /\ Len(inputStack') = d + 1
      /\ inputStack'[d + 1] = input
      /\ \A i \in 1 .. d : inputStack'[i] = inputStack[i]
      /\ DOMAIN inputStack' = 1 .. d + 1
  BY <1>1, <1>2, <1>3, AppendProperties, LenProperties
<1>5. /\ includeStack' \in Seq(Entered) /\ Len(includeStack') = d + 1
      /\ includeStack'[d + 1] = r
      /\ \A i \in 1 .. d : includeStack'[i] = includeStack[i]
  BY <1>1, <1>3, AppendProperties
<1>6. \A i \in 1 .. d + 1 : inputStack'[i].result = includeStack'[i]
  <2> TAKE i \in 1 .. d + 1
  <2>1. CASE i = d + 1
    BY <2>1, <1>2, <1>4, <1>5
  <2>2. CASE i # d + 1
    <3>1. i \in 1 .. d
      BY <2>2, <1>1
    <3> QED BY <3>1, <1>1, <1>4, <1>5 DEF ResultAt
  <2> QED BY <2>1, <2>2
<1>7. includeStack' = [i \in 1 .. d + 1 |-> inputStack'[i].result]
  BY <1>5, <1>6, LenProperties, <1>1
<1>8. InputsTyped'
  BY <1>3, <1>4 DEF InputsTyped, PpIInv, Input
<1>9. YoungestOnTop'
  <2> SUFFICES ASSUME NEW j \in 1 .. d + 1, NEW i \in 1 .. j - 1
               PROVE  inputStack'[i].result.id < inputStack'[j].result.id
    BY <1>4 DEF YoungestOnTop
  <2>1. i \in 1 .. d /\ inputStack'[i] = inputStack[i]
    BY <1>1, <1>4
  <2>2. CASE j = d + 1
    <3>1. inputStack[i].result.id < r.id
      BY <2>1 DEF ResultAt, d
    <3> QED BY <3>1, <2>1, <2>2, <1>2, <1>4
  <2>3. CASE j # d + 1
    <3>1. j \in 1 .. d /\ inputStack'[j] = inputStack[j]
      BY <2>3, <1>1, <1>4
    <3>2. inputStack[i].result.id < inputStack[j].result.id
      BY <3>1, <1>1 DEF PpIInv, YoungestOnTop
    <3> QED BY <3>1, <3>2, <2>1
  <2> QED BY <2>2, <2>3
<1>10. HeldWhileScanned'
  <2>1. held = {inputStack[i].result : i \in 1 .. d}
    BY <1>1 DEF PpIInv, InputsInOrder, HeldWhileScanned
  <2>2. {inputStack'[i].result : i \in 1 .. d + 1} = held \cup {r}
    <3>1. \A i \in 1 .. d + 1 : i \in 1 .. d \/ i = d + 1
      BY <1>1
    <3>2. 1 .. d \subseteq 1 .. d + 1 /\ d + 1 \in 1 .. d + 1
      BY <1>1
    <3>3. \A i \in 1 .. d : inputStack'[i].result = inputStack[i].result
      BY <1>4
    <3>4. inputStack'[d + 1].result = r
      BY <1>4, <1>2
    <3>5. \A i \in 1 .. d + 1 : inputStack'[i].result \in held \cup {r}
      BY <3>1, <3>3, <3>4, <2>1
    <3>6. \A x \in held \cup {r} : \E i \in 1 .. d + 1 : x = inputStack'[i].result
      BY <3>2, <3>3, <3>4, <2>1
    <3> QED BY <3>5, <3>6
  <2> QED BY <2>2, <1>4 DEF HeldWhileScanned
<1>11. FollowsInput'
  <2>1. scanner' = inputStack'[d + 1].result
    BY <1>2, <1>3, <1>4
  <2>2. \A i \in 1 .. d + 1 :
          inputStack'[i].prevScanner
            = IF i - 1 = 0 THEN SourceScanner ELSE inputStack'[i - 1].result
    <3> TAKE i \in 1 .. d + 1
    <3>1. CASE i = d + 1
      <4>1. inputStack'[i].prevScanner = scanner
        BY <3>1, <1>2, <1>4
      <4>2. scanner = IF d = 0 THEN SourceScanner ELSE inputStack[d].result
        BY ScannerNow DEF d, ResultAt
      <4>3. d # 0 => d \in 1 .. d /\ inputStack'[d] = inputStack[d]
        BY <1>1, <1>4
      <4>4. i - 1 = d
        BY <3>1, <1>1
      <4> QED BY <4>1, <4>2, <4>3, <4>4
    <3>2. CASE i # d + 1
      <4>1. i \in 1 .. d /\ (i = 1 <=> i - 1 = 0) /\ (i - 1 # 0 => i - 1 \in 1 .. d)
        BY <3>2, <1>1
      <4>2. inputStack[i].prevScanner
              = IF i = 1 THEN SourceScanner ELSE inputStack[i - 1].result
        BY <4>1, ScannerNow DEF d, ResultAt
      <4> QED BY <4>1, <4>2, <1>4
    <3> QED BY <3>1, <3>2
  <2>3. currentSourceFile' = includeStack'[d + 1].file
    BY <1>3, <1>5
  <2>4. d + 1 # 0
    BY <1>1
  <2> QED BY <1>4, <1>7, <2>1, <2>2, <2>3, <2>4 DEF FollowsInput
<1> QED BY <1>8, <1>9, <1>10, <1>11 DEF PpIInv, InputsInOrder

(* Ending an input keeps the ones below it in order.                         *)
LEMMA PopKeeps ==
  ASSUME PpIInv, stage # "idle", UNCHANGED <<stage, rootFileName>>, PopInput
  PROVE  PpIInv'
<1> DEFINE d == Depth
<1>1. /\ d \in Nat /\ inputStack \in Seq(Input) /\ DOMAIN inputStack = 1 .. d
      /\ d = Len(inputStack) /\ d # 0 /\ inputStack # <<>>
      /\ includeStack \in Seq(Entered) /\ Len(includeStack) = d
      /\ \A i \in 1 .. d : includeStack[i] = inputStack[i].result
  BY Positions, Includes DEF Depth, PopInput, ResultAt
<1> HIDE DEF d, Input, Entered
<1>2. d \in 1 .. d /\ d - 1 \in Nat /\ 1 .. d - 1 \subseteq 1 .. d
  BY <1>1
<1>3. /\ scanner' = inputStack[d].prevScanner
      /\ held' = held \ {includeStack[d]}
      /\ includeStack' = SubSeq(includeStack, 1, d - 1)
      /\ inputStack' = SubSeq(inputStack, 1, d - 1)
      /\ currentSourceFile' = IF d = 1 THEN rootFileName ELSE includeStack[d - 1].file
  BY <1>1 DEF PopInput, Last, Front, SourceBelow
<1>4. /\ inputStack' \in Seq(Input) /\ Len(inputStack') = d - 1
      /\ \A i \in 1 .. d - 1 : inputStack'[i] = inputStack[i]
      /\ DOMAIN inputStack' = 1 .. d - 1
  <2>1. d - 1 = 0 \/ 1 \in 1 .. d
    BY <1>1
  <2> QED BY <1>1, <1>2, <1>3, SubSeqProperties, LenProperties
<1>5. /\ includeStack' \in Seq(Entered) /\ Len(includeStack') = d - 1
      /\ \A i \in 1 .. d - 1 : includeStack'[i] = includeStack[i]
  BY <1>1, <1>2, <1>3, SubSeqProperties
<1>6. includeStack' = [i \in 1 .. d - 1 |-> inputStack'[i].result]
  BY <1>1, <1>2, <1>4, <1>5, LenProperties
<1>7. stage' = stage /\ rootFileName' = rootFileName
  OBVIOUS
<1>8. InputsTyped'
  BY <1>4, <1>7 DEF InputsTyped, PpIInv, Input
<1>9. YoungestOnTop'
  <2> SUFFICES ASSUME NEW j \in 1 .. d - 1, NEW i \in 1 .. j - 1
               PROVE  inputStack'[i].result.id < inputStack'[j].result.id
    BY <1>4 DEF YoungestOnTop
  <2>1. i \in 1 .. d - 1 /\ j \in 1 .. d
    BY <1>1
  <2>2. inputStack[i].result.id < inputStack[j].result.id
    BY <2>1, <1>1 DEF PpIInv, YoungestOnTop
  <2> QED BY <2>1, <2>2, <1>4
<1>10. HeldWhileScanned'
  <2>1. held = {inputStack[i].result : i \in 1 .. d}
    BY <1>1 DEF PpIInv, InputsInOrder, HeldWhileScanned
  <2>2. \A i \in 1 .. d - 1 : inputStack[i].result # includeStack[d]
    <3> TAKE i \in 1 .. d - 1
    <3>1. inputStack[i].result.id < inputStack[d].result.id
      BY <1>1, <1>2 DEF PpIInv, YoungestOnTop
    <3>2. inputStack[d].result.id \in Nat
      BY <1>2, Positions DEF d, ResultAt
    <3>3. inputStack[i].result # inputStack[d].result
      BY <3>1, <3>2
    <3> QED BY <3>3, <1>1, <1>2
  <2>3. \A i \in 1 .. d : i \in 1 .. d - 1 \/ i = d
    <3>1. d \in Nat
      BY <1>1
    <3> QED BY <3>1
  <2>4. held' = {inputStack[i].result : i \in 1 .. d - 1}
    <3>1. includeStack[d] = inputStack[d].result
      BY <1>1, <1>2
    <3> QED BY <2>1, <2>2, <2>3, <3>1, <1>2, <1>3
  <2>5. {inputStack[i].result : i \in 1 .. d - 1} = {inputStack'[i].result : i \in 1 .. d - 1}
    BY <1>4
  <2> QED BY <2>4, <2>5, <1>4 DEF HeldWhileScanned
<1>11. FollowsInput'
  <2>1. \A i \in 1 .. d :
          inputStack[i].prevScanner
            = IF i - 1 = 0 THEN SourceScanner ELSE inputStack[i - 1].result
    <3> TAKE i \in 1 .. d
    <3>1. i = 1 <=> i - 1 = 0
      BY <1>1
    <3> QED BY <3>1, ScannerNow DEF d, ResultAt
  <2>2. d - 1 # 0 => d - 1 \in 1 .. d - 1
    BY <1>1
  <2>3. scanner' = IF d - 1 = 0 THEN SourceScanner ELSE inputStack'[d - 1].result
    BY <2>1, <2>2, <1>2, <1>3, <1>4
  <2>4. \A i \in 1 .. d - 1 :
          inputStack'[i].prevScanner
            = IF i - 1 = 0 THEN SourceScanner ELSE inputStack'[i - 1].result
    <3> TAKE i \in 1 .. d - 1
    <3>1. i \in 1 .. d /\ (i - 1 # 0 => i - 1 \in 1 .. d - 1)
      BY <1>1
    <3> QED BY <3>1, <2>1, <1>4
  <2>5. currentSourceFile' = IF d - 1 = 0 THEN rootFileName' ELSE includeStack'[d - 1].file
    <3>1. d = 1 <=> d - 1 = 0
      BY <1>1
    <3> QED BY <3>1, <2>2, <1>3, <1>5, <1>7
  <2> QED BY <1>4, <1>6, <2>3, <2>4, <2>5 DEF FollowsInput
<1> QED BY <1>8, <1>9, <1>10, <1>11 DEF PpIInv, InputsInOrder

(* Whatever the includer answers, a file is entered or nothing has happened: *)
(* what was handed out and not entered has been released.                    *)
LEMMA IncludeKeeps ==
  ASSUME PpIInv, NEW local \in BOOLEAN, NEW first \in Answers, NEW second \in Answers,
         CPPinclude(local, first, second)
  PROVE  LET a == Answer(local, first, second)
             r == NewResult(held, a.file, a.text) IN
         /\ stage = "parsing" /\ UNCHANGED <<stage, rootFileName>>
         /\ Enters(a) => r \in Entered /\ PushInclude(r) /\ held' = held \cup {r}
         /\ ~Enters(a) => UNCHANGED ppVars
         /\ PpIInv'
<1> DEFINE asked == Asked(local, first)
           a == Answer(local, first, second)
           r == NewResult(held, a.file, a.text)
           kept == AfterFailure(Given(held, asked), held, asked)
           all == IF Failed(asked) THEN Given(kept, second) ELSE kept
           s == NewResult(IF Failed(asked) THEN kept ELSE held, a.file, a.text)
<1>1. asked \in Answers /\ a \in Answers /\ a = IF Failed(asked) THEN second ELSE asked
  <2>1. Null \in Answers
    BY DEF Null, Answers
  <2>2. asked \in Answers
    BY <2>1 DEF Asked
  <2> HIDE DEF asked
  <2>3. a = IF Failed(asked) THEN second ELSE asked
    <3>1. ~Failed(asked) => asked = first
      BY DEF asked, Asked, Failed, Null
    <3>2. a = IF Failed(asked) THEN second ELSE first
      BY DEF Answer, asked
    <3> QED BY <3>1, <3>2
  <2> HIDE DEF a
  <2> QED BY <2>2, <2>3
<1>2. /\ stage = "parsing" /\ UNCHANGED <<stage, rootFileName>>
      /\ held' = AfterUse(all, all \ {s}, a)
      /\ Enters(a) => PushInclude(s)
      /\ ~Enters(a) => UNCHANGED <<inputStack, scanner, currentSourceFile, includeStack>>
  BY <1>1 DEF CPPinclude, Answer
<1>3. s = r /\ (Failed(asked) => kept = held)
  BY DEF AfterFailure
<1>4. /\ r \notin held
      /\ r = [id |-> r.id, file |-> a.file, text |-> a.text] /\ r.id \in Nat \ {0}
      /\ \A i \in 1 .. Depth : ResultAt(i).id < r.id
  BY NewIsYoungest
<1>5. all = IF a.null THEN held ELSE held \cup {r}
  <2>1. CASE Failed(asked)
    BY <2>1, <1>1, <1>3 DEF Given
  <2>2. CASE ~Failed(asked)
    BY <2>2, <1>1 DEF Given, AfterFailure, Failed
  <2> QED BY <2>1, <2>2
<1>6. Enters(a) => r \in Entered
  <2>1. Enters(a) => a.file \in Headers /\ a.text = TRUE
    BY <1>1 DEF Enters, Failed, Answers
  <2>2. ASSUME NEW i \in Nat \ {0}, NEW f \in Headers, NEW t, t = TRUE
        PROVE  [id |-> i, file |-> f, text |-> t] \in Entered
    BY <2>2 DEF Entered
  <2> HIDE DEF r, a
  <2> QED BY <2>1, <2>2, <1>4
<1>7. held' = IF Enters(a) THEN held \cup {r} ELSE held
  <2> HIDE DEF r, a, all, asked, kept, s
  <2>1. Enters(a) => ~a.null
    BY DEF Enters, Failed
  <2> QED BY <1>2, <1>3, <1>4, <1>5, <2>1 DEF AfterUse
<1> HIDE DEF r, a, all, asked, kept, s
<1>8. ~Enters(a) => UNCHANGED ppVars
  BY <1>2, <1>7 DEF ppVars
<1>9. PpIInv'
  <2>1. CASE Enters(a)
    BY <2>1, <1>2, <1>3, <1>4, <1>6, <1>7, PushKeeps
  <2>2. CASE ~Enters(a)
    BY <2>2, <1>8 DEF ppVars, PpIInv, InputsTyped, YoungestOnTop, InputsInOrder,
                      FollowsInput, HeldWhileScanned
  <2> QED BY <2>1, <2>2
<1> QED BY <1>2, <1>3, <1>6, <1>7, <1>8, <1>9 DEF r, a

(* A step of a parse that asks no includer keeps inputs in order.            *)
LEMMA ScanKeeps ==
  ASSUME PpIInv,
         (\E s \in Sources : StartParse(s)) \/ EndOfFile \/ EndOfSource \/ Unwind \/ Destroy
  PROVE  PpIInv'
<1>1. ASSUME NEW s \in Sources, StartParse(s)
      PROVE  PpIInv'
  <2>1. inputStack = <<>> /\ inputStack' = <<>> /\ Len(inputStack') = 0
    BY <1>1 DEF StartParse, PpIInv, InputsTyped
  <2>2. InputsTyped'
    BY <1>1, <2>1 DEF StartParse, InputsTyped
  <2>3. YoungestOnTop' /\ HeldWhileScanned'
    BY <1>1, <2>1 DEF StartParse, PpIInv, YoungestOnTop, InputsInOrder, HeldWhileScanned
  <2>4. FollowsInput'
    BY <1>1, <2>1 DEF StartParse, PpIInv, InputsInOrder, FollowsInput
  <2> QED BY <2>2, <2>3, <2>4 DEF PpIInv, InputsInOrder
<1>2. CASE EndOfFile
  BY <1>2, PopKeeps DEF EndOfFile
<1>3. CASE Unwind
  BY <1>3, PopKeeps DEF Unwind
<1>4. CASE EndOfSource
  BY <1>4 DEF EndOfSource, PpIInv, InputsTyped, YoungestOnTop, InputsInOrder,
              FollowsInput, HeldWhileScanned
<1>5. CASE Destroy
  BY <1>5 DEF Destroy, Unwound, PpIInv, InputsTyped, YoungestOnTop, InputsInOrder,
              FollowsInput, HeldWhileScanned
<1> QED BY <1>1, <1>2, <1>3, <1>4, <1>5

LEMMA InputsInit == PpInit => PpIInv
<1> SUFFICES ASSUME PpInit PROVE PpIInv
  OBVIOUS
<1>1. inputStack = <<>> /\ Len(inputStack) = 0 /\ DOMAIN inputStack = {}
  BY DEF PpInit
<1>2. InputsTyped /\ YoungestOnTop /\ HeldWhileScanned
  BY <1>1 DEF PpInit, InputsTyped, YoungestOnTop, HeldWhileScanned
<1>3. FollowsInput
  BY <1>1 DEF PpInit, FollowsInput
<1> QED BY <1>2, <1>3 DEF PpIInv, InputsInOrder

LEMMA InputsStutter ==
  ASSUME PpIInv, UNCHANGED ppVars
  PROVE  PpIInv'
BY DEF ppVars, PpIInv, InputsTyped, YoungestOnTop, InputsInOrder, FollowsInput, HeldWhileScanned

LEMMA InputsNext ==
  ASSUME PpIInv, [PpNext]_ppVars
  PROVE  PpIInv'
<1>1. ASSUME NEW local \in BOOLEAN, NEW a \in Answers, NEW b \in Answers,
             CPPinclude(local, a, b)
      PROVE  PpIInv'
  BY <1>1, IncludeKeeps
<1> QED BY <1>1, ScanKeeps, InputsStutter DEF PpNext

(* Whatever an includer answers and wherever a parse is abandoned, results   *)
(* on the stack of inputs are older further down, only files with text are   *)
(* on it, and what follows the stack follows it (CPPinclude, popInput).      *)
THEOREM InputsInvariance == PpSpec => []PpIInv
BY InputsInit, InputsNext, PTL DEF PpSpec

(* The include stack, the current file and the scanner are always those of   *)
(* the innermost input, and a result is held as long as it is scanned and no *)
(* longer (push_include, pop_include, the destructor of TPpContext).         *)
THEOREM InputsStayInOrder == PpSpec => []InputsInOrder
<1>1. PpIInv => InputsInOrder
  BY DEF PpIInv
<1> QED BY <1>1, InputsInvariance, PTL

-------------------------------------------------------------------------------
\* The directories of a source and of the files open in it, outermost first.
DirsOf(root, includes) ==
  <<DirOf[root]>> \o [i \in DOMAIN includes |-> DirOf[includes[i].file]]

(* One directory for the source and one for each open file.                  *)
LEMMA DirsOfFacts ==
  ASSUME NEW root \in Sources, NEW s \in Seq(Entered)
  PROVE  /\ DirsOf(root, s) \in Seq(Dirs) /\ Len(DirsOf(root, s)) = Len(s) + 1
         /\ DirsOf(root, s)[1] = DirOf[root]
         /\ \A i \in 1 .. Len(s) : DirsOf(root, s)[i + 1] = DirOf[s[i].file]
<1> DEFINE f == [i \in DOMAIN s |-> DirOf[s[i].file]]
           one == <<DirOf[root]>>
<1>1. Len(s) \in Nat /\ DOMAIN s = 1 .. Len(s) /\ \A i \in 1 .. Len(s) : s[i] \in Entered
  <2> HIDE DEF Entered
  <2> QED BY LenProperties, ElementOfSeq
<1>2. \A i \in 1 .. Len(s) : s[i].file \in Headers
  BY <1>1 DEF Entered
<1>3. \A i \in 1 .. Len(s) : DirOf[s[i].file] \in Dirs
  BY <1>2, DirAssumption
<1>4. DirOf[root] \in Dirs
  BY DirAssumption
<1> DEFINE n == Len(s)
<1> HIDE DEF n
<1>5. f = [i \in 1 .. n |-> DirOf[s[i].file]] /\ n \in Nat
  BY <1>1 DEF n
<1>6. f \in [1 .. n -> Dirs]
  BY <1>3, <1>5 DEF n
<1>7. f \in Seq(Dirs) /\ Len(f) = n /\ \A i \in 1 .. n : f[i] = DirOf[s[i].file]
  <2>1. \A i \in 1 .. n : f[i] = DirOf[s[i].file]
    BY <1>5
  <2> HIDE DEF f
  <2> QED BY <1>5, <1>6, <2>1
<1>8. one \in Seq(Dirs) /\ Len(one) = 1 /\ one[1] = DirOf[root]
  BY <1>4
<1>9. DirsOf(root, s) = one \o f
  BY DEF DirsOf
<1> HIDE DEF f, one
<1>10. /\ one \o f \in Seq(Dirs) /\ Len(one \o f) = 1 + n
       /\ \A i \in 1 .. 1 + n : (one \o f)[i] = IF i <= 1 THEN one[i] ELSE f[i - 1]
  <2>1. /\ one \o f \in Seq(Dirs) /\ Len(one \o f) = Len(one) + Len(f)
        /\ \A i \in 1 .. Len(one) + Len(f) :
             (one \o f)[i] = IF i <= Len(one) THEN one[i] ELSE f[i - Len(one)]
    BY <1>7, <1>8, ConcatProperties
  <2> QED BY <1>7, <1>8, <2>1, Zenon
<1>11. /\ 1 \in 1 .. 1 + n
       /\ \A i \in 1 .. n : i + 1 \in 1 .. 1 + n /\ ~(i + 1 <= 1) /\ (i + 1) - 1 = i
  BY <1>5
<1>12. \A i \in 1 .. n : (one \o f)[i + 1] = f[i]
  BY <1>10, <1>11
<1> QED BY <1>5, <1>7, <1>8, <1>9, <1>10, <1>11, <1>12 DEF n

\* All that a search looks at, in the order of the stack.
AllDirs == ExternalDirs \o OpenDirs
ext == Len(ExternalDirs)

(* The directories of -I come first, then the source's, then the files'.     *)
LEMMA AllDirsFacts ==
  ASSUME NEW root \in Sources, NEW s \in Seq(Entered)
  PROVE  LET all == ExternalDirs \o DirsOf(root, s) IN
         /\ ext \in Nat /\ all \in Seq(Dirs) /\ Len(all) = ext + 1 + Len(s)
         /\ \A i \in 1 .. ext : all[i] = ExternalDirs[i]
         /\ all[ext + 1] = DirOf[root]
         /\ \A i \in 1 .. Len(s) : all[ext + 1 + i] = DirOf[s[i].file]
<1> DEFINE g == DirsOf(root, s)
           n == Len(s)
<1>1. n \in Nat
  <2> HIDE DEF Entered
  <2> QED BY LenProperties
<1>2. /\ g \in Seq(Dirs) /\ Len(g) = n + 1 /\ g[1] = DirOf[root]
      /\ \A i \in 1 .. n : g[i + 1] = DirOf[s[i].file]
  BY DirsOfFacts
<1>3. ExternalDirs \in Seq(Dirs) /\ ext \in Nat
  BY DirAssumption, LenProperties DEF ext
<1> HIDE DEF g, n
<1>4. /\ ExternalDirs \o g \in Seq(Dirs) /\ Len(ExternalDirs \o g) = ext + (n + 1)
      /\ \A i \in 1 .. ext + (n + 1) :
           (ExternalDirs \o g)[i] = IF i <= ext THEN ExternalDirs[i] ELSE g[i - ext]
  <2>1. /\ ExternalDirs \o g \in Seq(Dirs)
        /\ Len(ExternalDirs \o g) = Len(ExternalDirs) + Len(g)
        /\ \A i \in 1 .. Len(ExternalDirs) + Len(g) :
             (ExternalDirs \o g)[i] = IF i <= Len(ExternalDirs) THEN ExternalDirs[i]
                                      ELSE g[i - Len(ExternalDirs)]
    BY <1>2, <1>3, ConcatProperties
  <2> QED BY <1>2, <2>1, Zenon DEF ext
<1>5. /\ 1 .. ext \subseteq 1 .. ext + (n + 1) /\ \A i \in 1 .. ext : i <= ext
      /\ ext + 1 \in 1 .. ext + (n + 1) /\ ~(ext + 1 <= ext) /\ (ext + 1) - ext = 1
      /\ \A i \in 1 .. n : /\ ext + 1 + i \in 1 .. ext + (n + 1)
                           /\ ~(ext + 1 + i <= ext) /\ (ext + 1 + i) - ext = i + 1
      /\ ext + (n + 1) = ext + 1 + n
  BY <1>1, <1>3
<1> QED BY <1>2, <1>3, <1>4, <1>5 DEF g, n

(* The stack as the next search looks at it: cut or filled to the open files.*)
LEMMA SearchSees ==
  ASSUME DirIInv, stage # "idle"
  PROVE  /\ SearchStack(currentSourceFile, Len(includeStack) + 1) = AllDirs
         /\ AllDirs \in Seq(Dirs)
<1> DEFINE depth == Len(includeStack) + 1
           n == depth + externalLocalDirectoryCount
           all == AllDirs
<1>1. PpIInv /\ rootFileName \in Sources
  BY DEF DirIInv, PpIInv, InputsTyped
<1>2. includeStack \in Seq(Entered) /\ Len(includeStack) = Depth
  BY <1>1, Includes
<1>3. all = ExternalDirs \o DirsOf(rootFileName, includeStack)
  BY DEF AllDirs, OpenDirs, DirsOf
<1>4. /\ ext \in Nat /\ all \in Seq(Dirs) /\ Len(all) = ext + 1 + Len(includeStack)
      /\ \A i \in 1 .. ext : all[i] = ExternalDirs[i]
      /\ all[ext + 1] = DirOf[rootFileName]
  BY <1>1, <1>2, <1>3, AllDirsFacts
<1>5. Depth \in Nat /\ depth = Depth + 1
  BY <1>1, <1>2, Positions
<1>6. n = ext + 1 + Len(includeStack) /\ n \in Nat
  BY <1>2, <1>4, <1>5 DEF ext, externalLocalDirectoryCount
<1>7. all = [i \in 1 .. n |-> all[i]]
  <2> HIDE DEF all, n
  <2> QED BY <1>4, <1>6, LenProperties
<1>8. directoryStack \in Seq(Dirs) /\ Len(directoryStack) \in Nat
  BY LenProperties DEF DirIInv
<1>9. CASE Depth = 0
  <2>1. includeStack = <<>>
    BY <1>2, <1>9, EmptySeq
  <2>2. KeptDirs = ExternalDirs
    BY <2>1 DEF KeptDirs
  <2>3. DOMAIN ExternalDirs = 1 .. ext
    BY LenProperties, DirAssumption DEF ext
  <2>4. ext <= Len(directoryStack) /\ \A i \in 1 .. ext : directoryStack[i] = ExternalDirs[i]
    BY <2>2, <2>3 DEF DirIInv, ext
  <2>5. currentSourceFile = rootFileName
    BY <1>1, <1>9, ScannerNow
  <2>6. depth = 1 /\ n = ext + 1
    BY <1>2, <1>4, <1>5, <1>6, <1>9
  <2>7. SearchStack(currentSourceFile, depth)
          = [Resized(n) EXCEPT ![n] = DirOf[rootFileName]]
    BY <2>5, <2>6 DEF SearchStack
  <2>8. DOMAIN Resized(n) = 1 .. n
    BY DEF Resized
  <2>9. \A i \in 1 .. n : [Resized(n) EXCEPT ![n] = DirOf[rootFileName]][i] = all[i]
    <3> HIDE DEF n, all
    <3> TAKE i \in 1 .. n
    <3>1. CASE i = n
      BY <3>1, <2>6, <2>8, <1>4
    <3>2. CASE i # n
      <4>1. i \in 1 .. ext /\ i <= Len(directoryStack)
        BY <3>2, <2>4, <2>6, <1>4, <1>8
      <4>2. Resized(n)[i] = directoryStack[i]
        BY <4>1 DEF Resized
      <4> QED BY <4>1, <4>2, <3>2, <2>4, <2>8, <1>4
    <3> QED BY <3>1, <3>2
  <2>10. [Resized(n) EXCEPT ![n] = DirOf[rootFileName]] = [i \in 1 .. n |-> all[i]]
    <3> HIDE DEF n, all
    <3> QED BY <2>8, <2>9
  <2> HIDE DEF n, all, depth
  <2> QED BY <2>7, <2>10, <1>7, <1>4 DEF depth, all
<1>10. CASE Depth # 0
  <2>1. includeStack # <<>>
    BY <1>2, <1>10, EmptySeq
  <2>2. KeptDirs = all
    BY <2>1 DEF KeptDirs, AllDirs
  <2>3. n <= Len(directoryStack) /\ \A i \in 1 .. n : directoryStack[i] = all[i]
    <3> HIDE DEF n, all
    <3>1. DOMAIN all = 1 .. n
      BY <1>4, <1>6, LenProperties
    <3> QED BY <2>2, <3>1, <1>4, <1>6 DEF DirIInv
  <2>4. SearchStack(currentSourceFile, depth) = Resized(n)
    BY <1>5, <1>10 DEF SearchStack
  <2>5. Resized(n) = [i \in 1 .. n |-> all[i]]
    <3> HIDE DEF n, all
    <3>1. \A i \in 1 .. n : i <= Len(directoryStack)
      BY <2>3, <1>6, <1>8
    <3> QED BY <3>1, <2>3 DEF Resized
  <2> HIDE DEF n, all, depth
  <2> QED BY <2>4, <2>5, <1>7, <1>4 DEF depth, all
<1> QED BY <1>9, <1>10

\* The stack still has the directories that a search will look at.
Keeps(dirs, kept) ==
  /\ dirs \in Seq(Dirs)
  /\ Len(kept) <= Len(dirs)
  /\ \A i \in DOMAIN kept : dirs[i] = kept[i]

(* What a search for a local header does, by its outcome.                    *)
LEMMA SearchSteps ==
  ASSUME DirIInv, NEW name \in Names, NEW text \in BOOLEAN, IncludeLocal(name, text)
  PROVE  /\ searched' = Reverse(AllDirs)
         /\ \E a \in Answers : CPPinclude(TRUE, a, Null)
         /\ PpIInv' /\ UNCHANGED <<stage, rootFileName>>
         /\ \/ /\ UNCHANGED includeStack
               /\ directoryStack' = AllDirs \/ \E d \in Dirs : directoryStack' = Append(AllDirs, d)
            \/ \E r \in Entered :
                 /\ includeStack' = Append(includeStack, r)
                 /\ directoryStack' = Append(AllDirs, DirOf[r.file])
<1> DEFINE dirs == SearchStack(currentSourceFile, Len(includeStack) + 1)
           f == FoundIn(dirs, name)
           a == [null |-> FALSE, file |-> f, text |-> text]
<1>1. stage = "parsing"
  BY DEF IncludeLocal, CPPinclude
<1>2. dirs = AllDirs /\ AllDirs \in Seq(Dirs)
  BY <1>1, SearchSees
<1>3. PpIInv /\ Null \in Answers
  BY DEF DirIInv, Null, Answers
<1>4. /\ searched' = Reverse(dirs)
      /\ IF Hits(dirs, name) = {}
         THEN CPPinclude(TRUE, Null, Null) /\ directoryStack' = dirs
         ELSE CPPinclude(TRUE, a, Null) /\ directoryStack' = Append(dirs, DirOf[f])
  BY DEF IncludeLocal
<1> HIDE DEF dirs
<1>5. CASE Hits(dirs, name) = {}
  <2>1. CPPinclude(TRUE, Null, Null) /\ directoryStack' = dirs
    BY <1>4, <1>5
  <2>2. ~Enters(Answer(TRUE, Null, Null))
    BY DEF Enters, Answer, Asked, Failed, Null
  <2>3. PpIInv' /\ UNCHANGED <<stage, rootFileName>> /\ UNCHANGED includeStack
    BY <2>1, <2>2, <1>3, IncludeKeeps DEF ppVars
  <2> QED BY <2>1, <2>3, <1>2, <1>3, <1>4
<1>6. CASE Hits(dirs, name) # {}
  <2>1. f \in Headers /\ DirOf[f] \in Dirs
    <3>1. Hits(dirs, name) \subseteq 1 .. Len(dirs) /\ Len(dirs) \in Nat
      BY <1>2, LenProperties DEF Hits
    <3>2. Max(Hits(dirs, name)) \in Hits(dirs, name)
      BY <3>1, <1>6, MaxExists
    <3>3. f # NoFile /\ Max(Hits(dirs, name)) \in 1 .. Len(dirs)
      BY <3>1, <3>2 DEF Hits, FoundIn
    <3>4. dirs[Max(Hits(dirs, name))] \in Dirs
      BY <3>3, <1>2, ElementOfSeq
    <3>5. f \in Headers \cup {NoFile}
      BY <3>4, DirAssumption DEF FoundIn
    <3> QED BY <3>3, <3>5, DirAssumption
  <2> HIDE DEF f
  <2>2. a \in Answers
    BY <2>1 DEF Answers
  <2>3. CPPinclude(TRUE, a, Null) /\ directoryStack' = Append(dirs, DirOf[f])
    BY <1>4, <1>6
  <2>4. Answer(TRUE, a, Null) = a /\ a.file = f /\ a.text = text
    <3>1. ~Failed(a)
      BY <2>1, IncludeAssumption DEF Failed
    <3> QED BY <3>1 DEF Answer, Asked
  <2> DEFINE r == NewResult(held, f, text)
  <2> HIDE DEF a
  <2>5. /\ PpIInv' /\ UNCHANGED <<stage, rootFileName>>
        /\ Enters(a) => r \in Entered /\ PushInclude(r)
        /\ ~Enters(a) => UNCHANGED ppVars
    BY <2>2, <2>3, <2>4, <1>3, IncludeKeeps
  <2>6. CASE Enters(a)
    <3>1. r \in Entered /\ includeStack' = Append(includeStack, r)
      BY <2>5, <2>6 DEF PushInclude
    <3>2. r.file = f
      BY DEF NewResult
    <3> HIDE DEF r
    <3> QED BY <3>1, <3>2, <2>2, <2>3, <2>5, <1>2, <1>4
  <2>7. CASE ~Enters(a)
    <3>1. UNCHANGED includeStack
      BY <2>5, <2>7 DEF ppVars
    <3> QED BY <3>1, <2>1, <2>2, <2>3, <2>5, <1>2, <1>4
  <2> QED BY <2>6, <2>7
<1> QED BY <1>5, <1>6

(* What the stack has to keep, seen as one prefix: it is a sequence, and what*)
(* is on a stack that had more of the same is still there.                   *)
LEMMA KeptFacts ==
  ASSUME NEW root \in Sources, NEW s \in Seq(Entered)
  PROVE  LET all == ExternalDirs \o DirsOf(root, s) IN
         /\ all \in Seq(Dirs) /\ DOMAIN all = 1 .. ext + 1 + Len(s)
         /\ DOMAIN ExternalDirs = 1 .. ext /\ ext \in Nat /\ Len(s) \in Nat
         /\ Keeps(all, all) /\ Keeps(all, ExternalDirs)
         /\ \A d \in Dirs : Keeps(Append(all, d), all) /\ Keeps(Append(all, d), ExternalDirs)
<1> DEFINE all == ExternalDirs \o DirsOf(root, s)
<1>1. /\ ext \in Nat /\ all \in Seq(Dirs) /\ Len(all) = ext + 1 + Len(s)
      /\ \A i \in 1 .. ext : all[i] = ExternalDirs[i]
  BY AllDirsFacts
<1>2. Len(s) \in Nat
  <2> HIDE DEF Entered
  <2> QED BY LenProperties
<1> HIDE DEF all
<1>3. DOMAIN all = 1 .. ext + 1 + Len(s) /\ DOMAIN ExternalDirs = 1 .. ext
  BY <1>1, LenProperties, DirAssumption DEF ext
<1>4. Keeps(all, all) /\ Keeps(all, ExternalDirs)
  <2>1. Len(ExternalDirs) <= Len(all) /\ Len(all) <= Len(all)
    BY <1>1, <1>2 DEF ext
  <2> QED BY <2>1, <1>1, <1>3 DEF Keeps
<1>5. ASSUME NEW d \in Dirs
      PROVE  Keeps(Append(all, d), all) /\ Keeps(Append(all, d), ExternalDirs)
  <2>1. /\ Append(all, d) \in Seq(Dirs) /\ Len(Append(all, d)) = Len(all) + 1
        /\ \A i \in 1 .. Len(all) : Append(all, d)[i] = all[i]
    BY <1>1, AppendProperties
  <2>2. Len(all) <= Len(all) + 1 /\ Len(ExternalDirs) <= Len(all) + 1
    BY <1>1, <1>2 DEF ext
  <2>3. 1 .. ext \subseteq 1 .. Len(all)
    BY <1>1, <1>2
  <2>4. DOMAIN all = 1 .. Len(all)
    BY <1>1, <1>3
  <2>5. \A i \in 1 .. ext : Append(all, d)[i] = ExternalDirs[i]
    BY <2>1, <2>3, <1>1
  <2> QED BY <2>1, <2>2, <2>4, <2>5, <1>3 DEF Keeps
<1> QED BY <1>1, <1>2, <1>3, <1>4, <1>5 DEF all

\* KeptDirs as an operator of the source and the stack of includes.
KeptOf(root, includes) ==
  IF includes = <<>> THEN ExternalDirs ELSE ExternalDirs \o DirsOf(root, includes)

LEMMA KeptDirsIs ==
  /\ KeptDirs = KeptOf(rootFileName, includeStack)
  /\ AllDirs = ExternalDirs \o DirsOf(rootFileName, includeStack)
  /\ DirIInv <=> PpIInv /\ Keeps(directoryStack, KeptDirs)
BY DEF KeptDirs, KeptOf, AllDirs, OpenDirs, DirsOf, DirIInv, Keeps

LEMMA KeptDirsIsThen ==
  /\ KeptDirs' = KeptOf(rootFileName', includeStack')
  /\ DirIInv' <=> PpIInv' /\ Keeps(directoryStack', KeptDirs')
BY DEF KeptDirs, KeptOf, OpenDirs, DirsOf, DirIInv, Keeps

(* Entering a file adds its directory to what is kept.                       *)
LEMMA EnteringKeeps ==
  ASSUME NEW root \in Sources, NEW s \in Seq(Entered), NEW r \in Entered
  PROVE  Append(ExternalDirs \o DirsOf(root, s), DirOf[r.file]) = KeptOf(root, Append(s, r))
<1> DEFINE all == ExternalDirs \o DirsOf(root, s)
           t == Append(s, r)
           new == ExternalDirs \o DirsOf(root, t)
           d == DirOf[r.file]
           n == Len(s)
<1>1. /\ t \in Seq(Entered) /\ Len(t) = n + 1 /\ t[n + 1] = r /\ n \in Nat
      /\ \A i \in 1 .. n : t[i] = s[i]
      /\ t # <<>>
  <2> HIDE DEF Entered
  <2>1. n \in Nat
    BY LenProperties
  <2>2. t \in Seq(Entered) /\ Len(t) = n + 1 /\ t[n + 1] = r /\ \A i \in 1 .. n : t[i] = s[i]
    BY AppendProperties
  <2>3. t # <<>>
    <3> HIDE DEF t, n
    <3> QED BY <2>1, <2>2
  <2> QED BY <2>1, <2>2, <2>3
<1>2. d \in Dirs
  <2>1. r.file \in Headers
    BY DEF Entered
  <2> QED BY <2>1, DirAssumption
<1> HIDE DEF t, n
<1>3. /\ ext \in Nat /\ all \in Seq(Dirs) /\ Len(all) = ext + 1 + n
      /\ \A i \in 1 .. ext : all[i] = ExternalDirs[i]
      /\ all[ext + 1] = DirOf[root]
      /\ \A i \in 1 .. n : all[ext + 1 + i] = DirOf[s[i].file]
  BY AllDirsFacts DEF n
<1>4. /\ new \in Seq(Dirs) /\ Len(new) = ext + 1 + Len(t)
      /\ \A i \in 1 .. ext : new[i] = ExternalDirs[i]
      /\ new[ext + 1] = DirOf[root]
      /\ \A i \in 1 .. Len(t) : new[ext + 1 + i] = DirOf[t[i].file]
  BY <1>1, AllDirsFacts
<1> HIDE DEF all, new, d
<1>5. /\ Append(all, d) \in Seq(Dirs) /\ Len(Append(all, d)) = Len(all) + 1
      /\ \A i \in 1 .. Len(all) : Append(all, d)[i] = all[i]
      /\ Append(all, d)[Len(all) + 1] = d
  BY <1>2, <1>3, AppendProperties
<1>6. \A i \in 1 .. Len(new) : Append(all, d)[i] = new[i]
  <2> TAKE i \in 1 .. Len(new)
  <2>1. CASE i <= ext
    <3>1. i \in 1 .. ext /\ i \in 1 .. Len(all)
      BY <2>1, <1>1, <1>3, <1>4
    <3> QED BY <3>1, <1>3, <1>4, <1>5
  <2>2. CASE i = ext + 1
    <3>1. i \in 1 .. Len(all)
      BY <2>2, <1>1, <1>3
    <3> QED BY <3>1, <2>2, <1>3, <1>4, <1>5
  <2>3. CASE i > ext + 1 /\ i # ext + 1 + (n + 1)
    <3>1. /\ i - (ext + 1) \in 1 .. n /\ i - (ext + 1) \in 1 .. Len(t)
          /\ i = ext + 1 + (i - (ext + 1)) /\ i \in 1 .. Len(all)
      BY <2>3, <1>1, <1>3, <1>4
    <3> DEFINE k == i - (ext + 1)
    <3>2. Append(all, d)[i] = DirOf[s[k].file]
      <4> HIDE DEF k
      <4> QED BY <3>1, <1>3, <1>5 DEF k
    <3>3. new[i] = DirOf[t[k].file]
      <4> HIDE DEF k
      <4> QED BY <3>1, <1>4 DEF k
    <3>4. t[k] = s[k]
      BY <3>1, <1>1
    <3> QED BY <3>2, <3>3, <3>4
  <2>4. CASE i = ext + 1 + (n + 1)
    <3>1. i = Len(all) + 1 /\ n + 1 \in 1 .. Len(t)
      BY <2>4, <1>1, <1>3
    <3>2. new[i] = DirOf[t[n + 1].file]
      BY <3>1, <2>4, <1>4
    <3> QED BY <3>1, <3>2, <1>1, <1>5 DEF d
  <2>5. i <= ext \/ i = ext + 1 \/ i > ext + 1
    BY <1>3, <1>1, <1>4
  <2> QED BY <2>1, <2>2, <2>3, <2>4, <2>5
<1>7. Len(Append(all, d)) = Len(new)
  BY <1>1, <1>3, <1>4, <1>5
<1>8. Append(all, d) = new
  BY <1>4, <1>5, <1>6, <1>7, SeqEqual
<1>9. KeptOf(root, t) = new
  BY <1>1 DEF KeptOf, new
<1> QED BY <1>8, <1>9 DEF all, d, t

(* Leaving a file leaves a prefix of what was kept.                          *)
LEMMA LeavingKeeps ==
  ASSUME NEW root \in Sources, NEW s \in Seq(Entered), s # <<>>,
         NEW dirs, Keeps(dirs, KeptOf(root, s))
  PROVE  Keeps(dirs, KeptOf(root, SubSeq(s, 1, Len(s) - 1)))
<1> DEFINE n == Len(s)
           t == SubSeq(s, 1, n - 1)
           all == ExternalDirs \o DirsOf(root, s)
           new == ExternalDirs \o DirsOf(root, t)
<1>1. /\ n \in Nat \ {0} /\ t \in Seq(Entered) /\ Len(t) = n - 1
      /\ \A i \in 1 .. n - 1 : t[i] = s[i]
      /\ t = <<>> <=> n - 1 = 0
  <2> HIDE DEF Entered
  <2>1. n \in Nat \ {0}
    BY LenProperties, EmptySeq
  <2>2. \A i \in 1 .. n - 1 : i \in 1 .. Len(s)
    BY <2>1
  <2>3. t \in Seq(Entered) /\ Len(t) = n - 1 /\ \A i \in 1 .. n - 1 : t[i] = s[i]
    <3> DEFINE k == n - 1
    <3>1. k \in Nat /\ k <= Len(s) /\ 1 \in Nat /\ \A i \in 1 .. k : i \in 1 .. Len(s)
      BY <2>1
    <3> HIDE DEF k
    <3>2. SubSeq(s, 1, k) \in Seq(Entered) /\ Len(SubSeq(s, 1, k)) = k
      BY <2>2, <3>1, SubSeqProperties
    <3>3. \A i \in 1 .. k : SubSeq(s, 1, k)[i] = s[i]
      BY <3>1, <2>2, SubSeqProperties
    <3> QED BY <3>2, <3>3 DEF k
  <2>4. t = <<>> <=> n - 1 = 0
    <3> HIDE DEF t, n
    <3> QED BY <2>3, EmptySeq
  <2> QED BY <2>1, <2>3, <2>4
<1>2. /\ ext \in Nat /\ all \in Seq(Dirs) /\ Len(all) = ext + 1 + n
      /\ \A i \in 1 .. ext : all[i] = ExternalDirs[i]
      /\ all[ext + 1] = DirOf[root]
      /\ \A i \in 1 .. n : all[ext + 1 + i] = DirOf[s[i].file]
  BY AllDirsFacts
<1> HIDE DEF n, t
<1>3. /\ new \in Seq(Dirs) /\ Len(new) = ext + 1 + Len(t)
      /\ \A i \in 1 .. ext : new[i] = ExternalDirs[i]
      /\ new[ext + 1] = DirOf[root]
      /\ \A i \in 1 .. Len(t) : new[ext + 1 + i] = DirOf[t[i].file]
  BY <1>1, AllDirsFacts
<1>4. KeptOf(root, s) = all
  BY DEF KeptOf
<1>5. KeptOf(root, t) = IF n - 1 = 0 THEN ExternalDirs ELSE new
  BY <1>1 DEF KeptOf
<1> HIDE DEF all, new
<1>6. DOMAIN all = 1 .. Len(all) /\ DOMAIN new = 1 .. Len(new) /\ DOMAIN ExternalDirs = 1 .. ext
  BY <1>2, <1>3, LenProperties, DirAssumption DEF ext
<1>7. /\ dirs \in Seq(Dirs) /\ Len(dirs) \in Nat /\ Len(all) <= Len(dirs)
      /\ \A i \in 1 .. Len(all) : dirs[i] = all[i]
  BY <1>4, <1>6, LenProperties DEF Keeps
<1>8. CASE n - 1 = 0
  <2>1. 1 .. ext \subseteq 1 .. Len(all) /\ ext <= Len(dirs)
    BY <1>1, <1>2, <1>7
  <2>2. \A i \in 1 .. ext : dirs[i] = ExternalDirs[i]
    BY <2>1, <1>2, <1>7
  <2> QED BY <2>1, <2>2, <1>5, <1>6, <1>7, <1>8 DEF Keeps, ext, t, n
<1>9. CASE n - 1 # 0
  <2>1. Len(new) <= Len(dirs) /\ 1 .. Len(new) \subseteq 1 .. Len(all)
    BY <1>1, <1>2, <1>3, <1>7
  <2>2. \A i \in 1 .. Len(new) : all[i] = new[i]
    <3> TAKE i \in 1 .. Len(new)
    <3>1. CASE i <= ext
      <4>1. i \in 1 .. ext
        BY <3>1, <1>1, <1>3
      <4> QED BY <4>1, <1>2, <1>3
    <3>2. CASE i = ext + 1
      BY <3>2, <1>2, <1>3
    <3>3. CASE i > ext + 1
      <4> DEFINE k == i - (ext + 1)
      <4>1. k \in 1 .. n - 1 /\ k \in 1 .. n /\ k \in 1 .. Len(t) /\ i = ext + 1 + k
        BY <3>3, <1>1, <1>2, <1>3
      <4> HIDE DEF k
      <4> QED BY <4>1, <1>1, <1>2, <1>3
    <3>4. i <= ext \/ i = ext + 1 \/ i > ext + 1
      BY <1>1, <1>2, <1>3
    <3> QED BY <3>1, <3>2, <3>3, <3>4
  <2>3. \A i \in 1 .. Len(new) : dirs[i] = new[i]
    BY <2>1, <2>2, <1>7
  <2> QED BY <2>1, <2>3, <1>5, <1>6, <1>7, <1>9 DEF Keeps, t, n
<1> QED BY <1>8, <1>9

(* The end of a file cuts the stack of includes and nothing else.            *)
LEMMA PopFacts ==
  ASSUME PpIInv, PopInput
  PROVE  includeStack # <<>> /\ includeStack' = SubSeq(includeStack, 1, Len(includeStack) - 1)
<1>1. includeStack \in Seq(Entered) /\ Len(includeStack) = Depth /\ Depth # 0
  BY Includes, Positions DEF PopInput
<1> HIDE DEF Entered
<1>2. includeStack # <<>>
  BY <1>1, EmptySeq
<1> QED BY <1>2 DEF PopInput, Front

LEMMA DirInit == IncluderInit => DirIInv
<1> SUFFICES ASSUME IncluderInit PROVE DirIInv
  OBVIOUS
<1>1. PpIInv /\ includeStack = <<>> /\ directoryStack = ExternalDirs
  BY InputsInit DEF IncluderInit, PpInit
<1>2. DOMAIN ExternalDirs = 1 .. ext /\ ext \in Nat
  BY LenProperties, DirAssumption DEF ext
<1>3. Keeps(ExternalDirs, ExternalDirs)
  <2>1. ext <= ext
    BY <1>2
  <2> QED BY <2>1, DirAssumption DEF Keeps, ext
<1> QED BY <1>1, <1>3, KeptDirsIs DEF KeptOf

(* The stack keeps the directories of -I and of the open files.              *)
LEMMA DirNext ==
  ASSUME DirIInv, [IncluderNext]_includerVars
  PROVE  DirIInv'
<1>1. /\ PpIInv /\ Keeps(directoryStack, KeptDirs)
      /\ rootFileName \in Sources /\ includeStack \in Seq(Entered)
      /\ KeptDirs = KeptOf(rootFileName, includeStack)
      /\ AllDirs = ExternalDirs \o DirsOf(rootFileName, includeStack)
  BY KeptDirsIs, Includes DEF PpIInv, InputsTyped
<1>2. ASSUME NEW n \in Names, NEW t \in BOOLEAN, IncludeLocal(n, t)
      PROVE  DirIInv'
  <2>1. /\ PpIInv' /\ rootFileName' = rootFileName
        /\ \/ /\ includeStack' = includeStack
              /\ directoryStack' = AllDirs \/ \E d \in Dirs : directoryStack' = Append(AllDirs, d)
           \/ \E r \in Entered :
                /\ includeStack' = Append(includeStack, r)
                /\ directoryStack' = Append(AllDirs, DirOf[r.file])
    BY <1>2, SearchSteps
  <2>2. CASE /\ includeStack' = includeStack
             /\ directoryStack' = AllDirs \/ \E d \in Dirs : directoryStack' = Append(AllDirs, d)
    <3>1. KeptDirs' = KeptDirs
      BY <2>1, <2>2, <1>1, KeptDirsIsThen
    <3>2. Keeps(AllDirs, KeptDirs) /\ \A d \in Dirs : Keeps(Append(AllDirs, d), KeptDirs)
      BY <1>1, KeptFacts DEF KeptOf
    <3> QED BY <2>1, <2>2, <3>1, <3>2, KeptDirsIsThen
  <2>3. ASSUME NEW r \in Entered,
               includeStack' = Append(includeStack, r),
               directoryStack' = Append(AllDirs, DirOf[r.file])
        PROVE  DirIInv'
    <3>1. directoryStack' = KeptDirs'
      BY <2>1, <2>3, <1>1, EnteringKeeps, KeptDirsIsThen
    <3>2. includeStack' \in Seq(Entered) /\ includeStack' # <<>>
      <4> HIDE DEF Entered
      <4>1. Len(includeStack) \in Nat
        BY <1>1, LenProperties
      <4>2. includeStack' \in Seq(Entered) /\ Len(includeStack') = Len(includeStack) + 1
        BY <1>1, <2>3, AppendProperties
      <4> QED BY <4>1, <4>2, EmptySeq
    <3>3. Keeps(KeptDirs', KeptDirs')
      BY <1>1, <2>1, <3>2, KeptFacts, KeptDirsIsThen DEF KeptOf
    <3> QED BY <2>1, <3>1, <3>3, KeptDirsIsThen
  <2> QED BY <2>1, <2>2, <2>3
<1>3. CASE IncludeSystem
  <2>1. CPPinclude(FALSE, Null, Null) /\ directoryStack' = directoryStack /\ Null \in Answers
    BY <1>3 DEF IncludeSystem, Null, Answers
  <2>2. ~Enters(Answer(FALSE, Null, Null))
    BY DEF Enters, Answer, Asked, Failed, Null
  <2>3. PpIInv' /\ rootFileName' = rootFileName /\ includeStack' = includeStack
    BY <2>1, <2>2, <1>1, IncludeKeeps DEF ppVars
  <2> QED BY <2>1, <2>3, <1>1, KeptDirsIsThen
<1>4. CASE Scan
  <2>1. PpIInv' /\ directoryStack' = directoryStack
    BY <1>4, <1>1, ScanKeeps DEF Scan
  <2>2. ASSUME NEW s \in Sources, StartParse(s)
        PROVE  Keeps(directoryStack, KeptDirs')
    <3>1. inputStack = <<>> /\ includeStack' = includeStack
      BY <2>2, <1>1 DEF StartParse, PpIInv, InputsTyped
    <3>2. includeStack = <<>>
      <4>1. Len(includeStack) = 0
        BY <3>1, <1>1, Includes DEF Depth
      <4> HIDE DEF Entered
      <4> QED BY <4>1, <1>1, EmptySeq
    <3> QED BY <3>1, <3>2, <1>1, KeptDirsIsThen DEF KeptOf
  <2>3. ASSUME EndOfFile \/ Unwind
        PROVE  Keeps(directoryStack, KeptDirs')
    <3>1. PopInput /\ rootFileName' = rootFileName
      BY <2>3 DEF EndOfFile, Unwind
    <3>2. includeStack # <<>> /\ includeStack' = SubSeq(includeStack, 1, Len(includeStack) - 1)
      BY <3>1, <1>1, PopFacts
    <3>3. KeptDirs' = KeptOf(rootFileName, SubSeq(includeStack, 1, Len(includeStack) - 1))
      BY <3>1, <3>2, KeptDirsIsThen
    <3> QED BY <3>2, <3>3, <1>1, LeavingKeeps
  <2>4. ASSUME EndOfSource \/ Destroy
        PROVE  Keeps(directoryStack, KeptDirs')
    BY <2>4, <1>1, KeptDirsIsThen DEF EndOfSource, Destroy
  <2>5. Keeps(directoryStack, KeptDirs')
    BY <1>4, <2>2, <2>3, <2>4 DEF Scan
  <2> QED BY <2>1, <2>5, KeptDirsIsThen
<1>5. CASE UNCHANGED includerVars
  <2>1. PpIInv'
    BY <1>5, <1>1, InputsStutter DEF includerVars
  <2>2. /\ directoryStack' = directoryStack
        /\ includeStack' = includeStack /\ rootFileName' = rootFileName
    BY <1>5 DEF includerVars, ppVars
  <2> QED BY <2>1, <2>2, <1>1, KeptDirsIsThen
<1> QED BY <1>2, <1>3, <1>4, <1>5 DEF IncluderNext

(* Below what ended files have left on it, the directory stack is that of -I *)
(* and of the open files, and the inputs are in order (getFromIncluder).     *)
THEOREM DirInvariance == IncluderSpec => []DirIInv
BY DirInit, DirNext, PTL DEF IncluderSpec

(* The includer of the standalone program answers as TShader::Includer asks  *)
(* for, so all that holds for any includer holds for it.                     *)
THEOREM IncluderKeepsContract == IncluderSpec => PpSpec
<1>1. IncluderInit => PpInit
  BY DEF IncluderInit
<1>2. DirIInv /\ [IncluderNext]_includerVars => [PpNext]_ppVars
  <2> SUFFICES ASSUME DirIInv, [IncluderNext]_includerVars
               PROVE  [PpNext]_ppVars
    OBVIOUS
  <2>1. Null \in Answers
    BY DEF Null, Answers
  <2>2. ASSUME NEW n \in Names, NEW t \in BOOLEAN, IncludeLocal(n, t)
        PROVE  PpNext
    BY <2>1, <2>2, SearchSteps DEF PpNext
  <2>3. CASE IncludeSystem
    BY <2>1, <2>3 DEF IncludeSystem, PpNext
  <2>4. CASE Scan
    BY <2>4 DEF Scan, PpNext
  <2>5. CASE UNCHANGED includerVars
    BY <2>5 DEF includerVars
  <2> QED BY <2>2, <2>3, <2>4, <2>5 DEF IncluderNext
<1> QED BY <1>1, <1>2, DirInvariance, PTL DEF IncluderSpec, PpSpec

(* A local header is looked for from the directory of the file that includes *)
(* it outwards, and then in those of -I, in every parse the includer serves. *)
THEOREM SearchesInOrder == IncluderSpec => SearchOrder
<1> DEFINE Ordered ==
             \A n \in Names, t \in BOOLEAN :
               IncludeLocal(n, t) => searched' = Reverse(ExternalDirs \o OpenDirs)
<1>1. DirIInv /\ [IncluderNext]_includerVars => [Ordered]_includerVars
  BY SearchSteps DEF AllDirs
<1>2. [][Ordered]_includerVars => SearchOrder
  BY PTL DEF SearchOrder
<1> HIDE DEF Ordered
<1> QED BY <1>1, <1>2, DirInvariance, PTL DEF IncluderSpec
===============================================================================
