------------------------------- MODULE PpMacros -------------------------------
(***************************************************************************)
(* Macro expansion (preprocessor/Pp.cpp, MacroExpand, PrescanMacroArg,     *)
(* tMacroInput::scan; PpContext.h, scanToken; PpTokens.cpp).  Tokens come  *)
(* from a stack of inputs.  A macro that is expanded becomes an input, so  *)
(* does each argument where it is substituted; what is read too far is put *)
(* back as one.  The arguments of a call are expanded before they are      *)
(* substituted, by running the same scanner up to a marker.  One bit and   *)
(* one cursor in the definition of a macro serve all its expansions.       *)
(*                                                                         *)
(* White space, ## and the values of tokens are left out, and so are the   *)
(* conditions of #if, where an undefined macro is 0.  A directive is one   *)
(* token, read at the start of a line.                                     *)
(***************************************************************************)
EXTENDS Integers, Sequences, SequencesExt, FiniteSets

CONSTANTS
  Names,       \* names of macros
  Others,      \* the other tokens, parameters included, but none of the below
  Directives,  \* #define and #undef lines
  Meaning,     \* directive -> [name, macro], what it makes of a name
  InitMacros,  \* tables of macros to begin with
  Texts        \* the texts that are read

Marker == "<marker>"
EndOfInput == "<end of input>"
Tokens == Names \cup Others \cup {"(", ")", ","}

\* A table maps every name to one of these.
Macros ==
  {m \in [defined : BOOLEAN, functionLike : BOOLEAN, args : Seq(Tokens), body : Seq(Tokens)] :
     m.functionLike \/ m.args = <<>>}

ASSUME TokensAssumption == {Marker, EndOfInput} \cap (Tokens \cup Directives) = {}
ASSUME TextsAssumption == Texts \subseteq Seq(Tokens \cup Directives)
ASSUME MacrosAssumption ==
  /\ InitMacros \subseteq [Names -> Macros]
  /\ Meaning \in [Directives -> [name : Names, macro : Macros]]

VARIABLES
  text,         \* what is left of the source
  macroDefs,
  busy, at,     \* of each macro, and the cursor in its body
  inputStack,
  inputs,       \* the tMacroInput objects that exist, by id
  calls,        \* the activations of MacroExpand, the innermost last
  token,        \* what scanToken returned and nobody has handled yet
  out,          \* what was returned to the parser
  errors, stopped,
  source,       \* history: the text and the table of the beginning
  spanned,      \* history: a call began in an expansion and ended outside
  again         \* history: a name was expanded that came from its own expansion

definitions == <<macroDefs, busy, at>>
history == <<source, spanned, again>>
vars == <<text, definitions, inputStack, inputs, calls, token, out, errors, stopped, history>>

\* painted is fullyExpanded; own, which no code has, is kept for the properties:
\* the name was met in an expansion of itself.
NoToken == [text |-> "<none>", painted |-> FALSE, own |-> FALSE]
Plain(t) == [text |-> t, painted |-> FALSE, own |-> FALSE]

\* A stream of tokens with its cursor; NoStream stands for a null pointer.
Stream(tokens) == [tokens |-> tokens, at |-> 1]
NoStream == [tokens |-> <<>>, at |-> 0]

\* The five kinds of inputs.
StringInput == [kind |-> "string"]
MacroInput(id) == [kind |-> "macro", in |-> id]
TokenInput(id, i, expanded) == [kind |-> "tokens", in |-> id, arg |-> i, preExpanded |-> expanded]
MarkerInput == [kind |-> "marker", done |-> FALSE]
UngotInput(tok) == [kind |-> "ungot", token |-> tok, done |-> FALSE]

Top == Last(inputStack)
Call == Last(calls)
StreamOf(input) ==
  IF input.preExpanded THEN inputs[input.in].expandedArgs[input.arg]
  ELSE inputs[input.in].args[input.arg]

Init ==
  /\ text \in Texts
  /\ macroDefs \in InitMacros
  /\ busy = [m \in Names |-> FALSE] /\ at = [m \in Names |-> 1]
  /\ inputStack = <<StringInput>>
  /\ inputs = <<>> /\ calls = <<>>
  /\ token = NoToken
  /\ out = <<>> /\ errors = FALSE /\ stopped = FALSE
  /\ source = [text |-> text, macroDefs |-> macroDefs] /\ spanned = FALSE /\ again = FALSE

-------------------------------------------------------------------------------
(* scanToken *)

\* Nothing else happens between an argument's end and the scan of the next.
Scanning ==
  /\ ~stopped /\ token = NoToken
  /\ calls # <<>> => Call.phase # "ready"

\* What the input on top has next; of a definition, what its body has next.
BodyToken(m) == macroDefs[m].body[at[m]]
Exhausted(input) ==
  CASE input.kind = "string" -> text = <<>>
    [] input.kind = "macro"  -> at[inputs[input.in].mac] > Len(macroDefs[inputs[input.in].mac].body)
    [] input.kind = "tokens" -> StreamOf(input).at > Len(StreamOf(input).tokens)
    [] input.kind = "marker" -> input.done
    [] input.kind = "ungot"  -> input.done \/ input.token.text = EndOfInput

\* popInput(); the scan that found the end of a macro took its bit back.
StaysBusy(m) == busy
NotBusy(m) == [busy EXCEPT ![m] = FALSE]
Looking == calls # <<>> /\ Call.phase \in {"name", "args", "recover"}
PopInput ==
  /\ Scanning
  /\ inputStack # <<>> /\ Exhausted(Top)
  /\ inputStack' = Front(inputStack)
  /\ IF Top.kind = "macro"
     THEN /\ busy' = NotBusy(inputs[Top.in].mac)
          /\ inputs' = [id \in DOMAIN inputs \ {Top.in} |-> inputs[id]]
          /\ calls' = IF Looking THEN [calls EXCEPT ![Len(calls)].left = TRUE] ELSE calls
     ELSE UNCHANGED <<busy, inputs, calls>>
  /\ UNCHANGED <<text, macroDefs, at, token, out, errors, stopped, history>>

Parameter(m, t) == {i \in DOMAIN macroDefs[m].args : macroDefs[m].args[i] = t}

\* A parameter in the body of a macro is replaced by its argument, expanded if
\* that could be done.
PushArgument ==
  /\ Scanning
  /\ inputStack # <<>> /\ ~Exhausted(Top) /\ Top.kind = "macro"
  /\ LET in == inputs[Top.in]
         i == CHOOSE i \in Parameter(in.mac, BodyToken(in.mac)) : TRUE
         expanded == in.expandedArgs[i] # NoStream IN
     /\ Parameter(in.mac, BodyToken(in.mac)) # {}
     /\ inputStack' = Append(inputStack, TokenInput(Top.in, i, expanded))
     /\ inputs' = IF expanded THEN [inputs EXCEPT ![Top.in].expandedArgs[i].at = 1]
                  ELSE [inputs EXCEPT ![Top.in].args[i].at = 1]
     /\ at' = [at EXCEPT ![in.mac] = @ + 1]
  /\ UNCHANGED <<text, macroDefs, busy, calls, token, out, errors, stopped, history>>

\* The last token of an expanded argument may still be the name of a call.
AlwaysPainted(s) == FALSE
MayBeCalled(s) ==
  LET t == s.tokens[s.at].text IN
  s.at = Len(s.tokens) /\ t \in Names /\ macroDefs[t].functionLike

Advance(input) ==
  IF input.preExpanded THEN [inputs EXCEPT ![input.in].expandedArgs[input.arg].at = @ + 1]
  ELSE [inputs EXCEPT ![input.in].args[input.arg].at = @ + 1]
Used == [inputStack EXCEPT ![Len(inputStack)].done = TRUE]

TakeToken ==
  /\ Scanning
  /\ inputStack # <<>> /\ ~Exhausted(Top)
  /\ \/ /\ Top.kind = "string"
        /\ token' = Plain(Head(text)) /\ text' = Tail(text)
        /\ UNCHANGED <<at, inputs, inputStack>>
     \/ /\ Top.kind = "macro"
        /\ LET m == inputs[Top.in].mac IN
           /\ Parameter(m, BodyToken(m)) = {}
           /\ token' = Plain(BodyToken(m))
           /\ at' = [at EXCEPT ![m] = @ + 1]
        /\ UNCHANGED <<text, inputs, inputStack>>
     \/ /\ Top.kind = "tokens"
        /\ LET s == StreamOf(Top) IN
           token' = [s.tokens[s.at] EXCEPT !.painted = Top.preExpanded /\ ~MayBeCalled(s)]
        /\ inputs' = Advance(Top)
        /\ UNCHANGED <<text, at, inputStack>>
     \/ /\ Top.kind = "marker"
        /\ token' = Plain(Marker) /\ inputStack' = Used
        /\ UNCHANGED <<text, at, inputs>>
     \/ /\ Top.kind = "ungot"
        /\ token' = Top.token /\ inputStack' = Used
        /\ UNCHANGED <<text, at, inputs>>
  /\ UNCHANGED <<macroDefs, busy, calls, out, errors, stopped, history>>

NoInput ==
  /\ Scanning
  /\ inputStack = <<>>
  /\ token' = Plain(EndOfInput)
  /\ UNCHANGED <<text, definitions, inputStack, inputs, calls, out, errors, stopped, history>>

Scan == PopInput \/ PushArgument \/ TakeToken \/ NoInput

-------------------------------------------------------------------------------
(* tokenize, at the bottom of the calls, and PrescanMacroArg, in each of them *)

Handled == token' = NoToken
AtBase == token # NoToken /\ calls = <<>>
Expanding == token # NoToken /\ (calls # <<>> => Call.phase = "prescan")

\* Tokens that end a prescan, and a text.
Ends(t) == t \in {Marker, EndOfInput}

Expandable ==
  /\ token.text \in Names /\ ~token.painted
  /\ ~busy[token.text] /\ macroDefs[token.text].defined

\* A token that stays what it is goes to the parser or to an expanded argument.
EmitFrom(c, t) ==
  IF c = <<>> THEN out' = Append(out, t.text) /\ calls' = c
  ELSE calls' = [c EXCEPT ![Len(c)].output = Append(@, t)] /\ UNCHANGED out

Emit ==
  /\ Expanding
  /\ ~Ends(token.text) /\ ~Expandable
  /\ AtBase => token.text \notin Directives
  /\ EmitFrom(calls, [token EXCEPT !.own = @ \/ (token.text \in Names /\ busy[token.text])])
  /\ Handled
  /\ UNCHANGED <<text, definitions, inputStack, inputs, errors, stopped, history>>

\* #define and #undef; redefining as something else is an error and happens.
After(defs, directive) ==
  LET d == Meaning[directive] IN
  IF d.macro.defined THEN [defs EXCEPT ![d.name] = d.macro]
  ELSE [defs EXCEPT ![d.name].defined = FALSE]
Define ==
  /\ AtBase /\ token.text \in Directives /\ Top.kind = "string"
  /\ macroDefs' = After(macroDefs, token.text)
  /\ LET d == Meaning[token.text] IN
     IF d.macro.defined
     THEN /\ errors' = (errors \/ (macroDefs[d.name].defined /\ macroDefs[d.name] # d.macro))
          /\ busy' = [busy EXCEPT ![d.name] = FALSE] /\ at' = [at EXCEPT ![d.name] = 1]
     ELSE UNCHANGED <<errors, busy, at>>
  /\ Handled
  /\ UNCHANGED <<text, inputStack, inputs, calls, out, stopped, history>>

\* The end, or a directive that does not begin a line.
Stop ==
  /\ AtBase
  /\ \/ token.text = EndOfInput /\ UNCHANGED errors
     \/ token.text \in Directives /\ Top.kind # "string" /\ errors' = TRUE
  /\ stopped' = TRUE
  /\ Handled
  /\ UNCHANGED <<text, definitions, inputStack, inputs, calls, out, history>>

-------------------------------------------------------------------------------
(* MacroExpand *)

NewId == CHOOSE id \in 1..(Cardinality(DOMAIN inputs) + 1) : id \notin DOMAIN inputs
NewInput(m, n) ==
  [id \in DOMAIN inputs \cup {NewId} |->
     IF id = NewId
     THEN [mac |-> m, args |-> [i \in 1..n |-> Stream(<<>>)],
           expandedArgs |-> [i \in 1..n |-> NoStream]]
     ELSE inputs[id]]

StartExpansion(id, m) ==
  /\ inputStack' = Append(inputStack, MacroInput(id))
  /\ busy' = [busy EXCEPT ![m] = TRUE]
  /\ at' = [at EXCEPT ![m] = 1]

ExpandObject ==
  /\ Expanding /\ Expandable
  /\ ~macroDefs[token.text].functionLike
  /\ inputs' = NewInput(token.text, 0)
  /\ StartExpansion(NewId, token.text)
  /\ again' = (again \/ token.own)
  /\ Handled
  /\ UNCHANGED <<text, macroDefs, calls, out, errors, stopped, source, spanned>>

BeginCall ==
  /\ Expanding /\ Expandable
  /\ macroDefs[token.text].functionLike
  /\ inputs' = NewInput(token.text, Len(macroDefs[token.text].args))
  /\ calls' = Append(calls, [in |-> NewId, mac |-> token.text, phase |-> "name", count |-> 0,
                             depth |-> 0, output |-> <<>>, left |-> FALSE, own |-> token.own])
  /\ Handled
  /\ UNCHANGED <<text, definitions, inputStack, out, errors, stopped, history>>

Destroyed(id) == [i \in DOMAIN inputs \ {id} |-> inputs[i]]

\* A name without parentheses is not a call; what was read for them goes back.
NotACall ==
  /\ token # NoToken /\ Looking /\ Call.phase = "name"
  /\ token.text # "("
  /\ inputStack' = Append(inputStack, UngotInput(token))
  /\ inputs' = Destroyed(Call.in)
  /\ EmitFrom(Front(calls), [Plain(Call.mac) EXCEPT !.own = Call.own])
  /\ Handled
  /\ UNCHANGED <<text, definitions, errors, stopped, history>>

ToPhase(phase) == [calls EXCEPT ![Len(calls)].phase = phase]

Parenthesis ==
  /\ token # NoToken /\ Looking /\ Call.phase = "name"
  /\ token.text = "("
  /\ calls' = ToPhase("args")
  /\ again' = (again \/ Call.own)
  /\ Handled
  /\ UNCHANGED <<text, definitions, inputStack, inputs, out, errors, stopped, source, spanned>>

InArguments == token # NoToken /\ Looking /\ Call.phase = "args"
Arity == Len(inputs[Call.in].args)
Nested(t) == CASE t = "(" -> 1 [] t = ")" -> -1 [] OTHER -> 0
CannotBeArgument(t) == Ends(t) \/ t \in Directives
EndsArgument(t) ==
  \/ Arity = 0 /\ t # ")"
  \/ Call.depth = 0 /\ t \in {",", ")"}

RecordToken ==
  /\ InArguments
  /\ ~CannotBeArgument(token.text) /\ ~EndsArgument(token.text)
  /\ inputs' = [inputs EXCEPT ![Call.in].args[Call.count + 1].tokens = Append(@, token)]
  /\ calls' = [calls EXCEPT ![Len(calls)].depth = @ + Nested(token.text)]
  /\ Handled
  /\ UNCHANGED <<text, definitions, inputStack, out, errors, stopped, history>>

\* The only argument of a call does not count if nothing was recorded.
NoArgument == token.text = ")" /\ Arity = 1 /\ inputs[Call.in].args[1].tokens = <<>>
CountAfter == IF NoArgument THEN Call.count ELSE Call.count + 1

EndArgument ==
  /\ InArguments
  /\ ~CannotBeArgument(token.text) /\ EndsArgument(token.text)
  /\ LET n == CountAfter
         phase == CASE n < Arity /\ token.text # ")" -> "args"
                    [] n >= Arity /\ token.text # ")" -> "recover"
                    [] OTHER -> "ready" IN
     /\ calls' = [calls EXCEPT ![Len(calls)].count = IF phase = "ready" THEN 1 ELSE n,
                               ![Len(calls)].phase = phase]
     /\ errors' = (errors \/ phase = "recover" \/ (phase = "ready" /\ n < Arity))
     /\ spanned' = (spanned \/ Call.left)
  /\ Handled
  /\ UNCHANGED <<text, definitions, inputStack, inputs, out, stopped, source, again>>

\* Too many arguments: look for the end of the call, whatever comes.
Recover ==
  /\ token # NoToken /\ Looking /\ Call.phase = "recover"
  /\ token.text # EndOfInput
  /\ LET depth == Call.depth + (IF token.text = "(" THEN 1 ELSE 0) IN
     calls' = IF depth = 0 /\ token.text = ")"
              THEN [calls EXCEPT ![Len(calls)].phase = "ready", ![Len(calls)].count = 1]
              ELSE [calls EXCEPT ![Len(calls)].depth = depth - (IF token.text = ")" THEN 1 ELSE 0)]
  /\ Handled
  /\ UNCHANGED <<text, definitions, inputStack, inputs, out, errors, stopped, history>>

\* The call is abandoned; if it was part of an argument, what is left of that
\* argument is tossed.
AbandonCall ==
  /\ token # NoToken /\ Looking
  /\ \/ Call.phase = "args" /\ CannotBeArgument(token.text)
     \/ Call.phase = "recover" /\ token.text = EndOfInput
  /\ errors' = TRUE
  /\ inputs' = Destroyed(Call.in)
  /\ LET outer == Front(calls) IN
     IF outer = <<>> THEN calls' = outer /\ stopped' = TRUE
     ELSE calls' = [outer EXCEPT ![Len(outer)].phase = "toss"] /\ UNCHANGED stopped
  /\ Handled
  /\ UNCHANGED <<text, definitions, inputStack, out, history>>

\* The arguments are expanded one after the other, each up to a marker.
Ready == ~stopped /\ token = NoToken /\ calls # <<>> /\ Call.phase = "ready"

PrescanArgument ==
  /\ Ready /\ Call.count <= Arity
  /\ inputStack' = inputStack \o <<MarkerInput, TokenInput(Call.in, Call.count, FALSE)>>
  /\ inputs' = [inputs EXCEPT ![Call.in].args[Call.count].at = 1]
  /\ calls' = [calls EXCEPT ![Len(calls)].phase = "prescan", ![Len(calls)].output = <<>>]
  /\ UNCHANGED <<text, definitions, token, out, errors, stopped, history>>

TossUntilMarker(t) == t = Marker
TossUntil(t) == Ends(t)

TossArgument ==
  /\ token # NoToken /\ calls # <<>> /\ Call.phase = "toss"
  /\ ~TossUntil(token.text)
  /\ Handled
  /\ UNCHANGED <<text, definitions, inputStack, inputs, calls, out, errors, stopped, history>>

EndPrescan ==
  /\ token # NoToken /\ calls # <<>>
  /\ \/ Call.phase = "prescan" /\ Ends(token.text)
     \/ Call.phase = "toss" /\ TossUntil(token.text)
  /\ inputs' = [inputs EXCEPT ![Call.in].expandedArgs[Call.count] =
                  IF token.text = Marker THEN Stream(Call.output) ELSE NoStream]
  /\ calls' = [calls EXCEPT ![Len(calls)].phase = "ready", ![Len(calls)].count = @ + 1]
  /\ Handled
  /\ UNCHANGED <<text, definitions, inputStack, out, errors, stopped, history>>

ExpandCall ==
  /\ Ready /\ Call.count > Arity
  /\ StartExpansion(Call.in, Call.mac)
  /\ calls' = Front(calls)
  /\ UNCHANGED <<text, macroDefs, inputs, token, out, errors, stopped, history>>

MacroExpand ==
  \/ ExpandObject \/ BeginCall \/ NotACall \/ Parenthesis \/ RecordToken \/ EndArgument
  \/ Recover \/ AbandonCall \/ PrescanArgument \/ TossArgument \/ EndPrescan \/ ExpandCall

Next == Scan \/ Emit \/ Define \/ Stop \/ MacroExpand

Spec == Init /\ [][Next]_vars /\ WF_vars(Next)

-------------------------------------------------------------------------------
(* The bit and the cursor in a definition can serve all its expansions, and   *)
(* arguments can be read from the objects that own them: a macro is busy if   *)
(* and only if one input, and no more, is an expansion of it, every argument  *)
(* that is read belongs to a call that is being made or to an expansion below *)
(* it, no argument is read twice at a time, and no object outlives its use.   *)
Expansions(m) ==
  {i \in DOMAIN inputStack : inputStack[i].kind = "macro" /\ inputs[inputStack[i].in].mac = m}
OwnersBelow(i) ==
  {c.in : c \in ToSet(calls)} \cup {inputStack[j].in : j \in {j \in 1..i : inputStack[j].kind = "macro"}}
InUse ==
  /\ \A m \in Names : Cardinality(Expansions(m)) = IF busy[m] THEN 1 ELSE 0
  /\ DOMAIN inputs = OwnersBelow(Len(inputStack))
  /\ \A i \in DOMAIN inputStack : inputStack[i].kind = "tokens" =>
       /\ inputStack[i].in \in OwnersBelow(i)
       /\ \A j \in DOMAIN inputStack : inputStack[j] = inputStack[i] => j = i

(* The parser gets what the text stands for: parameters replaced by arguments *)
(* "after all macros contained therein have been expanded" (the comment in    *)
(* tMacroInput::scan), and no macro within its own expansion.  This is not    *)
(* settled, and not claimed, for a call that begins in an expansion and ends  *)
(* outside of it, and where NoRecursion fails it is false.                    *)
MT == INSTANCE MacroText
ExpandsToItsMeaning ==
  stopped /\ ~errors /\ ~spanned /\ ~again => out = MT!Expansion(source.macroDefs, source.text)

(* "no recursive expansions" (the comment in MacroExpand): a name that was met *)
(* in an expansion of its macro, and so was left alone, is not expanded later. *)
NoRecursion == ~again

(* Every text ends, whatever its macros are defined as and however wrong it   *)
(* is: no expansion goes on for ever and no error leaves the scanner waiting. *)
Terminates == <>stopped
===============================================================================
