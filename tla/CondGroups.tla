------------------------------ MODULE CondGroups ------------------------------
(***************************************************************************)
(* What conditional groups mean: #if and #ifdef open a group inside the    *)
(* innermost open one, #elif and #else start its next branch, #endif       *)
(* closes it.  A line of text reaches the parser exactly if it is in the   *)
(* chosen branch of every open group, a condition is evaluated only when   *)
(* its branch may still be chosen, and a source whose groups are malformed *)
(* is refused at the line that shows it.                                   *)
(***************************************************************************)
EXTENDS Naturals, Sequences

CONSTANT MaxIfNesting   \* groups within groups that an implementation must take

VARIABLES
  line,     \* the line read last
  out,      \* did it reach the parser?
  groups,   \* the open groups, outermost first
  status    \* "reading", "ended" or "failed"

Conditions == {"true", "false", "bad"}

\* Lines as the preprocessor tells them apart; cond is what a condition comes
\* to, "bad" if it has no value.
Lines == [kind : {"if", "ifdef", "elif"}, cond : Conditions]
           \cup [kind : {"text", "else", "endif", "end"}, cond : {"true"}]

\* A group is in its chosen branch (active), has none yet (waiting), is past
\* it (finished), or lies in a part that is dropped (dead).
States == {"active", "waiting", "finished", "dead"}
Group == [state : States, elseSeen : BOOLEAN]

Live == \A i \in DOMAIN groups : groups[i].state = "active"
Top == groups[Len(groups)]

Branch(cond) == IF cond = "true" THEN "active" ELSE "waiting"
NextBranch(state, cond) ==
  CASE state = "waiting" -> Branch(cond)
    [] state = "active" -> "finished"
    [] OTHER -> state

Evaluated(l) ==
  \/ l.kind \in {"if", "ifdef"} /\ Live
  \/ l.kind = "elif" /\ groups # <<>> /\ Top.state = "waiting"

\* Whether an #else was seen is known of groups nested less deep than this.
Tracked == Len(groups) < MaxIfNesting

Malformed(l) ==
  \/ l.kind \in {"else", "elif", "endif"} /\ groups = <<>>
  \/ l.kind \in {"else", "elif"} /\ groups # <<>> /\ Tracked /\ Top.elseSeen
  \/ l.kind = "end" /\ groups # <<>>
  \/ Evaluated(l) /\ l.cond = "bad"

TooDeep(l) == l.kind \in {"if", "ifdef", "elif", "else"} /\ ~Tracked

-------------------------------------------------------------------------------
Init ==
  /\ line = [kind |-> "text", cond |-> "true"]
  /\ out = FALSE
  /\ groups = <<>>
  /\ status = "reading"

Open(l) ==
  /\ l.kind \in {"if", "ifdef"}
  /\ \E seen \in IF Len(groups) + 1 < MaxIfNesting THEN {FALSE} ELSE BOOLEAN :
       groups' = Append(groups,
                        [state |-> IF Live THEN Branch(l.cond) ELSE "dead",
                         elseSeen |-> seen])

StartBranch(l) ==
  /\ l.kind \in {"else", "elif"}
  /\ groups' = [groups EXCEPT ![Len(groups)] =
                  [state |-> NextBranch(@.state, l.cond),
                   elseSeen |-> l.kind = "else"]]

Close(l) == l.kind = "endif" /\ groups' = SubSeq(groups, 1, Len(groups) - 1)

Stay(l) == l.kind \in {"text", "end"} /\ groups' = groups

Take(l) ==
  /\ ~Malformed(l)
  /\ out' = (l.kind = "text" /\ Live)
  /\ Open(l) \/ StartBranch(l) \/ Close(l) \/ Stay(l)
  /\ status' = IF l.kind = "end" THEN "ended" ELSE "reading"

\* Nothing is promised of what follows the first error.
Refuse(l) == (Malformed(l) \/ TooDeep(l)) /\ status' = "failed" /\ groups' = <<>>

ReadLine ==
  /\ status = "reading"
  /\ line' \in Lines
  /\ Take(line') \/ Refuse(line')

AfterError == status = "failed" /\ status' = "failed" /\ groups' = <<>>

Next == ReadLine \/ AfterError

vars == <<line, out, groups, status>>
Spec == Init /\ [][Next]_vars
===============================================================================
