---------------------------- MODULE PpConditionals ----------------------------
(***************************************************************************)
(* The conditional directives of the preprocessor (preprocessor/Pp.cpp):   *)
(* CPPif, CPPifdef, readCPPline and the skipping of CPPelse.  The code     *)
(* keeps no stack of groups: it counts them twice (ifdepth, elsetracker),  *)
(* has one elseSeen flag per depth, and is either reading or in CPPelse,   *)
(* which counts the groups opened since it began.  One action per line of  *)
(* source and situation.                                                   *)
(***************************************************************************)
EXTENDS Integers, Sequences

CONSTANT MaxIfNesting

ASSUME MaxIfNestingAssumption == MaxIfNesting \in Nat \ {0}

VARIABLES
  line,         \* the line read last
  out,          \* did it reach the parser?
  ifdepth,
  elsetracker,
  elseSeen,
  skip,         \* the parameters of CPPelse while it runs
  errors,       \* has ppError() been called?
  done          \* has EndOfInput been returned?

state == <<ifdepth, elsetracker, elseSeen, skip>>
vars == <<line, out, ifdepth, elsetracker, elseSeen, skip, errors, done>>

NotSkipping == [matchelse |-> FALSE, depth |-> -1]
Skipping(m) == [matchelse |-> m, depth |-> 0]

\* The array has MaxIfNesting elements, and the counters go up to two beyond
\* it, into bytes that nothing initializes.
Slots == 0 .. MaxIfNesting - 1
Padding == MaxIfNesting .. MaxIfNesting + 1
InArray == elsetracker \in Slots \cup Padding

Conditions == {"true", "false", "bad"}
Line(kind, cond) == [kind |-> kind, cond |-> cond]

Init ==
  /\ line = Line("text", "true") /\ out = FALSE
  /\ ifdepth = 0 /\ elsetracker = 0
  /\ elseSeen \in {f \in [Slots \cup Padding -> BOOLEAN] : \A i \in Slots : ~f[i]}
  /\ skip = NotSkipping
  /\ errors = FALSE /\ done = FALSE

\* What every line does besides the counters; e: is an error reported?
Handle(kind, cond, e) ==
  /\ ~done /\ InArray
  /\ line' = Line(kind, cond)
  /\ out' = (kind = "text" /\ skip = NotSkipping)
  /\ errors' = (errors \/ e)

Reading(kind, cond, e) == skip = NotSkipping /\ Handle(kind, cond, e)
InElse(kind, cond, e) == skip # NotSkipping /\ Handle(kind, cond, e)

SeenElse == elseSeen[elsetracker]
SetSeen(b) == elseSeen' = [elseSeen EXCEPT ![elsetracker] = b]

Deeper == ifdepth' = ifdepth + 1 /\ elsetracker' = elsetracker + 1
EndOfInput == done' = TRUE /\ UNCHANGED state
Continue == done' = FALSE

\* CPPifdef compares with > what CPPif and CPPelse compare with >=.
IfTooDeep == ifdepth >= MaxIfNesting \/ elsetracker >= MaxIfNesting
IfdefTooDeep == ifdepth > MaxIfNesting \/ elsetracker > MaxIfNesting

\* A false condition enters CPPelse; one with an error does so if the error is
\* in what follows it.
AfterTest(cond) ==
  /\ skip' \in {NotSkipping, Skipping(TRUE)}
  /\ cond = "true" => skip' = NotSkipping
  /\ cond = "false" => skip' = Skipping(TRUE)

-------------------------------------------------------------------------------
(* Reading: readCPPline, CPPif, CPPifdef and the text between directives.    *)

Text == Reading("text", "true", FALSE) /\ Continue /\ UNCHANGED state

End == Reading("end", "true", ifdepth > 0) /\ EndOfInput

Open(kind, cond, tooDeep) ==
  /\ Reading(kind, cond, tooDeep \/ cond = "bad")
  /\ \/ tooDeep /\ EndOfInput
     \/ ~tooDeep /\ Deeper /\ AfterTest(cond) /\ Continue /\ UNCHANGED elseSeen

If(cond) == Open("if", cond, IfTooDeep)
Ifdef(cond) == Open("ifdef", cond, IfdefTooDeep)

Else ==
  /\ Reading("else", "true", SeenElse \/ ifdepth = 0)
  /\ SetSeen(TRUE)
  /\ skip' = Skipping(FALSE)
  /\ Continue /\ UNCHANGED <<ifdepth, elsetracker>>

\* The branch before was chosen: the condition is not evaluated.
Elif(cond) ==
  /\ Reading("elif", cond, SeenElse \/ ifdepth = 0)
  /\ skip' = Skipping(FALSE)
  /\ Continue /\ UNCHANGED <<ifdepth, elsetracker, elseSeen>>

Endif ==
  /\ Reading("endif", "true", ifdepth = 0)
  /\ \/ ifdepth = 0 /\ UNCHANGED <<ifdepth, elsetracker, elseSeen>>
     \/ /\ ifdepth # 0
        /\ SetSeen(FALSE)
        /\ elsetracker' = elsetracker - 1 /\ ifdepth' = ifdepth - 1
  /\ Continue /\ UNCHANGED skip

-------------------------------------------------------------------------------
(* Skipping: CPPelse.                                                        *)

AtBase == skip.depth = 0
MatchAnywhere == skip.matchelse
MayMatch == skip.matchelse /\ AtBase

SkipText == InElse("text", "true", FALSE) /\ Continue /\ UNCHANGED state

SkipEnd == InElse("end", "true", ifdepth > 0) /\ EndOfInput

SkipIf(kind, cond) ==
  /\ InElse(kind, cond, IfTooDeep)
  /\ \/ IfTooDeep /\ EndOfInput
     \/ /\ ~IfTooDeep /\ Deeper /\ Continue
        /\ skip' = [skip EXCEPT !.depth = @ + 1]
        /\ UNCHANGED elseSeen

SkipEndif ==
  /\ InElse("endif", "true", FALSE)
  /\ SetSeen(FALSE)
  /\ elsetracker' = elsetracker - 1
  /\ ifdepth' = IF AtBase /\ ifdepth = 0 THEN 0 ELSE ifdepth - 1
  /\ skip' = IF AtBase THEN NotSkipping ELSE [skip EXCEPT !.depth = @ - 1]
  /\ Continue

MatchElse ==
  /\ MayMatch
  /\ InElse("else", "true", FALSE)
  /\ SetSeen(TRUE)
  /\ skip' = NotSkipping
  /\ Continue /\ UNCHANGED <<ifdepth, elsetracker>>

\* The group is closed and CPPif opens it again.  It is open while CPPelse
\* looks for a match, so ifdepth > 0.
MatchElif(cond) ==
  LET tooDeep == ifdepth - 1 >= MaxIfNesting \/ elsetracker - 1 >= MaxIfNesting IN
  /\ MayMatch
  /\ InElse("elif", cond, SeenElse \/ tooDeep \/ cond = "bad")
  /\ SetSeen(FALSE)
  /\ \/ /\ tooDeep
        /\ ifdepth' = ifdepth - 1 /\ elsetracker' = elsetracker - 1
        /\ skip' = NotSkipping /\ done' = TRUE
     \/ ~tooDeep /\ AfterTest(cond) /\ Continue /\ UNCHANGED <<ifdepth, elsetracker>>

SkipElse ==
  /\ ~MayMatch
  /\ InElse("else", "true", SeenElse)
  /\ SetSeen(TRUE)
  /\ Continue /\ UNCHANGED <<ifdepth, elsetracker, skip>>

SkipElif(cond) ==
  /\ ~MayMatch
  /\ InElse("elif", cond, SeenElse)
  /\ Continue /\ UNCHANGED state

Next ==
  \/ Text \/ End \/ Else \/ Endif
  \/ \E c \in Conditions : If(c) \/ Ifdef(c) \/ Elif(c)
  \/ SkipText \/ SkipEnd \/ SkipEndif \/ MatchElse \/ SkipElse
  \/ \E c \in Conditions :
       SkipIf("if", c) \/ SkipIf("ifdef", c) \/ MatchElif(c) \/ SkipElif(c)

Spec == Init /\ [][Next]_vars

-------------------------------------------------------------------------------
(* The groups the code never stores: those outside the one that CPPelse is   *)
(* in (or all, for its depth is -1 if it is not running) are active, those   *)
(* inside it are dead.                                                       *)
StateAt(i, base, matchelse) ==
  CASE i < base -> "active"
    [] i = base -> IF matchelse THEN "waiting" ELSE "finished"
    [] OTHER -> "dead"
GroupsOf(n, s, seen) ==
  [i \in 1 .. n |-> [state |-> StateAt(i, n - s.depth, s.matchelse), elseSeen |-> seen[i]]]

Groups == IF errors THEN <<>> ELSE GroupsOf(ifdepth, skip, elseSeen)
Status == IF errors THEN "failed" ELSE IF done THEN "ended" ELSE "reading"

Abstract == INSTANCE CondGroups WITH groups <- Groups, status <- Status

(* Counters, flags and skip parameters tell the open groups as a stack would:*)
(* text reaches the parser, conditions count and malformed sources are       *)
(* refused exactly as conditional groups demand.                             *)
GroupsSpec == Abstract!Spec

SkipType == [matchelse : BOOLEAN, depth : Nat] \cup {NotSkipping}
TypeOK ==
  /\ line \in Abstract!Lines
  /\ out \in BOOLEAN /\ errors \in BOOLEAN /\ done \in BOOLEAN
  /\ ifdepth \in Nat /\ elsetracker \in Int
  /\ elseSeen \in [Slots \cup Padding -> BOOLEAN]
  /\ skip \in SkipType

(* CPPelse skips inside the groups that are counted, and while it looks for  *)
(* a match, the group it looks in is one of them.                            *)
SkipInside ==
  skip # NotSkipping => /\ skip.depth <= ifdepth
                        /\ skip.matchelse => skip.depth < ifdepth

(* Until the first error both counters agree and stay in reach of the array, *)
(* CPPelse skips inside an open group, and no flag is left over from a group *)
(* that was closed.                                                          *)
TrackersAgree ==
  ~errors => /\ elsetracker = ifdepth /\ ifdepth <= MaxIfNesting + 1
             /\ skip # NotSkipping => skip.depth < ifdepth
             /\ \A i \in Slots : i > ifdepth => ~elseSeen[i]

(* The group that CPPelse looks for a match in has had no #else.             *)
Sought == ifdepth - skip.depth
NoElseYet ==
  ~errors /\ skip # NotSkipping /\ skip.matchelse /\ Sought \in Slots => ~elseSeen[Sought]

IInv == TypeOK /\ SkipInside /\ TrackersAgree /\ NoElseYet

===============================================================================
