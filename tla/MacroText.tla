------------------------------ MODULE MacroText ------------------------------
(***************************************************************************)
(* What a text stands for, with no scanner and no stack: a macro is its    *)
(* body with the expanded arguments in place of the parameters, expanded   *)
(* once more without the macro itself.  The name of a macro met in its own  *)
(* expansion stays a name, wherever it is moved afterwards.                *)
(***************************************************************************)
EXTENDS Integers, Sequences, SequencesExt

CONSTANTS Names, Tokens, Directives, After(_, _)   \* the table after a directive

Token(t) == [text |-> t, painted |-> FALSE]
Written(ts) == [i \in DOMAIN ts |-> ts[i].text]

\* Positions of a call's commas and of its closing parenthesis, which is last,
\* in the tokens after the opening one; <<>> if nothing closes it.
Depth(ts, n) ==
  FoldLeft(LAMBDA d, t : CASE t.text = "(" -> d + 1 [] t.text = ")" -> d - 1 [] OTHER -> d,
           0, SubSeq(ts, 1, n))
Closing(ts) == {n \in DOMAIN ts : Depth(ts, n) < 0}
Ending(ts) == CHOOSE n \in Closing(ts) : \A k \in Closing(ts) : n <= k
Commas(ts) ==
  SelectSeq([i \in 1..Ending(ts) |-> i],
            LAMBDA n : n = Ending(ts) \/ (ts[n].text = "," /\ Depth(ts, n) = 0))

Arguments(ts) ==
  LET c == Commas(ts) IN
  [i \in DOMAIN c |-> SubSeq(ts, IF i = 1 THEN 1 ELSE c[i - 1] + 1, c[i] - 1)]

Substituted(body, params, args) ==
  FlattenSeq([i \in DOMAIN body |->
                IF \E p \in DOMAIN params : params[p] = body[i]
                THEN args[CHOOSE p \in DOMAIN params : params[p] = body[i]]
                ELSE <<Token(body[i])>>])

\* The tokens ts with the macros of defs that are not in hidden expanded.
Expand(defs, tokens) ==
  LET E[ts \in Seq([text : Tokens, painted : BOOLEAN]), hidden \in SUBSET Names] ==
        IF ts = <<>> THEN <<>> ELSE
        LET m == Head(ts).text
            call == SubSeq(ts, 3, Len(ts))
            rest == E[Tail(ts), hidden] IN
        IF m \in hidden THEN <<[text |-> m, painted |-> TRUE]>> \o rest
        ELSE IF m \notin Names \/ Head(ts).painted THEN <<Head(ts)>> \o rest
        ELSE IF ~defs[m].defined THEN <<Head(ts)>> \o rest
        ELSE IF ~defs[m].functionLike
        THEN E[[i \in DOMAIN defs[m].body |-> Token(defs[m].body[i])], hidden \cup {m}] \o rest
        ELSE IF Len(ts) = 1 \/ ts[2].text # "(" \/ Closing(call) = {}
        THEN <<Head(ts)>> \o rest
        ELSE LET args == [i \in DOMAIN Arguments(call) |-> E[Arguments(call)[i], hidden]] IN
             E[Substituted(defs[m].body, defs[m].args, args), hidden \cup {m}]
               \o E[SubSeq(call, Ending(call) + 1, Len(call)), hidden]
  IN  Written(E[[i \in DOMAIN tokens |-> Token(tokens[i])], {}])

\* A text with its lines of directives: each stretch between them is expanded
\* with the table they have made by then.
Table(defs, ts) ==
  FoldLeft(LAMBDA p, t : IF t \in Directives THEN After(p, t) ELSE p, defs, ts)
Lines(text) == SelectSeq([i \in DOMAIN text |-> i], LAMBDA i : text[i] \in Directives)
Expansion(defs, text) ==
  LET ends == Append(Lines(text), Len(text) + 1)
      begin(k) == IF k = 1 THEN 1 ELSE ends[k - 1] + 1 IN
  FlattenSeq([k \in DOMAIN ends |->
                Expand(Table(defs, SubSeq(text, 1, begin(k) - 1)), SubSeq(text, begin(k), ends[k] - 1))])
==============================================================================
