---------------------------- MODULE PpMacrosProofs ----------------------------
(***************************************************************************)
(* What holds of the objects of macro expansion for all macros, texts and  *)
(* depths of calls, the calls that are abandoned included: the inductive   *)
(* invariant is about the markers.  A prescan may end at a marker that is  *)
(* not its own, when the call within it that was in error took its own;    *)
(* but what it finds then is further down, so nothing is left of what was  *)
(* pushed for it.                                                          *)
(***************************************************************************)
EXTENDS PpMacros, FiniteSetTheorems, SequenceTheorems, TLAPS

(***************************************************************************)
(* Types.                                                                  *)
(***************************************************************************)
Readable == [text : Tokens \cup Directives, painted : BOOLEAN, own : BOOLEAN]
Pending == [text : Tokens \cup Directives \cup {Marker, EndOfInput}, painted : BOOLEAN, own : BOOLEAN]
Streams == [tokens : Seq(Readable), at : Nat \ {0}]
Objects == [mac : Names, args : Seq(Streams), expandedArgs : Seq(Streams \cup {NoStream})]
Phases == {"name", "args", "recover", "ready", "prescan", "toss"}
Calls == [in : Nat, mac : Names, phase : Phases, count : Nat, depth : Int,
          output : Seq(Readable), left : BOOLEAN, own : BOOLEAN]
Inputs == [kind : {"string"}] \cup [kind : {"macro"}, in : Nat]
            \cup [kind : {"tokens"}, in : Nat, arg : Nat, preExpanded : BOOLEAN]
            \cup [kind : {"marker"}, done : BOOLEAN]
            \cup [kind : {"ungot"}, token : Pending, done : BOOLEAN]

TypeOK ==
  /\ text \in Seq(Tokens \cup Directives)
  /\ macroDefs \in [Names -> Macros]
  /\ busy \in [Names -> BOOLEAN]
  /\ at \in [Names -> Nat \ {0}]
  /\ token \in Pending \cup {NoToken}
  /\ calls \in Seq(Calls)
  /\ inputStack \in Seq(Inputs)
  /\ inputs \in [DOMAIN inputs -> Objects]
  /\ IsFiniteSet(DOMAIN inputs) /\ DOMAIN inputs \subseteq Nat

(***************************************************************************)
(* The inductive invariant.                                                *)
(***************************************************************************)
IsMacro(input) == input.kind = "macro"
IsTokens(input) == input.kind = "tokens"
MacroOf(f, input) == f[input.in].mac
Prescanning(call) == call.phase \in {"prescan", "toss"}

(* The objects have as many arguments as their macros have parameters.       *)
ObjectsOK ==
  \A id \in DOMAIN inputs :
    /\ Len(inputs[id].args) = Len(macroDefs[inputs[id].mac].args)
    /\ Len(inputs[id].expandedArgs) = Len(inputs[id].args)

(* Only the innermost call is not in the middle of a prescan.                *)
CallsOK ==
  \A k \in DOMAIN calls :
    /\ calls[k].in \in DOMAIN inputs /\ inputs[calls[k].in].mac = calls[k].mac
    /\ k < Len(calls) => calls[k].phase = "prescan"
    /\ calls[k].phase \in {"ready", "prescan", "toss"} => calls[k].count >= 1
    /\ Prescanning(calls[k]) => calls[k].count <= Len(inputs[calls[k].in].args)
    /\ \A l \in DOMAIN calls : calls[l].in = calls[k].in => l = k

(* An object belongs to a call or to an expansion, and not to both.          *)
OwnedByCall(c, id) == \E k \in DOMAIN c : c[k].in = id
ExpandedBelow(s, id, i) == \E j \in DOMAIN s : j < i /\ IsMacro(s[j]) /\ s[j].in = id
OwnersOK ==
  /\ \A id \in DOMAIN inputs :
       OwnedByCall(calls, id) \/ ExpandedBelow(inputStack, id, Len(inputStack) + 1)
  /\ \A m \in Names : busy[m] =>
       \E i \in DOMAIN inputStack : IsMacro(inputStack[i]) /\ MacroOf(inputs, inputStack[i]) = m

StackOK ==
  /\ \A i \in DOMAIN inputStack : inputStack[i].kind = "string" => i = 1
  /\ \A i \in DOMAIN inputStack : IsMacro(inputStack[i]) =>
       /\ inputStack[i].in \in DOMAIN inputs /\ busy[MacroOf(inputs, inputStack[i])]
       /\ ~OwnedByCall(calls, inputStack[i].in)
       /\ \A j \in DOMAIN inputStack :
            IsMacro(inputStack[j]) /\ MacroOf(inputs, inputStack[j]) = MacroOf(inputs, inputStack[i])
              => j = i

(* What is read of an argument exists, and there is one such input to an     *)
(* object.                                                                   *)
ArgumentsOK ==
  \A i \in DOMAIN inputStack : IsTokens(inputStack[i]) =>
    /\ inputStack[i].in \in DOMAIN inputs
    /\ inputStack[i].arg \in DOMAIN inputs[inputStack[i].in].args
    /\ inputStack[i].preExpanded =>
         inputs[inputStack[i].in].expandedArgs[inputStack[i].arg] # NoStream
    /\ \/ OwnedByCall(calls, inputStack[i].in) /\ ~inputStack[i].preExpanded
       \/ ExpandedBelow(inputStack, inputStack[i].in, i)
    /\ \A j \in DOMAIN inputStack :
         IsTokens(inputStack[j]) /\ inputStack[j].in = inputStack[i].in => j = i

(* A marker that is still to be read, or was read and not handled yet.       *)
IsMarker(input) == input.kind = "marker" \/ (input.kind = "ungot" /\ input.token.text = Marker)
Live(s, tok, i) ==
  IsMarker(s[i]) /\ (~s[i].done \/ (i = Len(s) /\ tok.text = Marker))
TokenOK ==
  /\ token.text = Marker =>
       /\ inputStack # <<>> /\ IsMarker(inputStack[Len(inputStack)])
       /\ inputStack[Len(inputStack)].done
  /\ token.text = EndOfInput => inputStack = <<>>
  /\ token # NoToken => token.text = EndOfInput \/ inputStack # <<>>

(* Every live marker can be given a call that is prescanning, of its own and *)
(* in the order of the calls, such that whatever was pushed for a call, its  *)
(* argument and the expansions of its macro in there, has above it only the  *)
(* markers of calls within that call.                                        *)
PushedFor(f, input, call) ==
  \/ IsTokens(input) /\ input.in = call.in
  \/ IsMacro(input) /\ MacroOf(f, input) = call.mac
Above(s, tok, owner, i, k) == \A j \in DOMAIN s : Live(s, tok, j) /\ j > i => owner[j] > k
MarkersOf(owner, s, tok, c, f) ==
  /\ \A i \in DOMAIN s : Live(s, tok, i) => owner[i] \in DOMAIN c /\ Prescanning(c[owner[i]])
  /\ \A i, j \in DOMAIN s : Live(s, tok, i) /\ Live(s, tok, j) /\ i < j => owner[i] < owner[j]
  /\ \A i \in DOMAIN s, k \in DOMAIN c :
       PushedFor(f, s[i], c[k]) => Prescanning(c[k]) /\ Above(s, tok, owner, i, k)
MarkersOK ==
  \E owner \in [DOMAIN inputStack -> 0 .. Len(calls)] :
    MarkersOf(owner, inputStack, token, calls, inputs)

IInv ==
  /\ TypeOK /\ ObjectsOK /\ CallsOK /\ OwnersOK /\ StackOK /\ ArgumentsOK /\ TokenOK /\ MarkersOK

(***************************************************************************)
(* Sequences and functions that change at one place.                       *)
(***************************************************************************)
LEMMA AppendIs ==
  ASSUME NEW S, NEW s \in Seq(S), NEW x \in S
  PROVE  /\ Append(s, x) \in Seq(S) /\ Len(Append(s, x)) = Len(s) + 1
         /\ DOMAIN Append(s, x) = 1 .. Len(s) + 1
         /\ \A i \in 1 .. Len(s) : Append(s, x)[i] = s[i]
         /\ Append(s, x)[Len(s) + 1] = x
OBVIOUS

LEMMA FrontIs ==
  ASSUME NEW S, NEW s \in Seq(S), s # <<>>
  PROVE  /\ Front(s) \in Seq(S) /\ Len(Front(s)) = Len(s) - 1 /\ Len(s) \in Nat \ {0}
         /\ DOMAIN Front(s) = 1 .. Len(s) - 1
         /\ \A i \in 1 .. Len(s) - 1 : Front(s)[i] = s[i]
<1>1. Len(s) \in Nat \ {0} /\ \A i \in 1 .. Len(s) - 1 : s[i] \in S
  OBVIOUS
<1>2. /\ SubSeq(s, 1, Len(s) - 1) \in Seq(S) /\ Len(SubSeq(s, 1, Len(s) - 1)) = Len(s) - 1
      /\ \A i \in 1 .. Len(s) - 1 : SubSeq(s, 1, Len(s) - 1)[i] = s[i]
  <2>1. PICK n \in Nat : Len(s) = n + 1
    <3>1. Len(s) - 1 \in Nat /\ Len(s) = (Len(s) - 1) + 1
      BY <1>1
    <3> QED BY <3>1
  <2>2. Len(s) - 1 = n /\ \A i \in 1 .. n : s[i] \in S
    BY <1>1, <2>1
  <2>3. /\ SubSeq(s, 1, n) \in Seq(S) /\ Len(SubSeq(s, 1, n)) = n
        /\ \A i \in 1 .. n : SubSeq(s, 1, n)[i] = s[i]
    BY <2>2, SubSeqProperties
  <2> QED BY <2>2, <2>3
<1>3. DOMAIN SubSeq(s, 1, Len(s) - 1) = 1 .. Len(s) - 1
  BY <1>2, LenProperties
<1> QED BY <1>1, <1>2, <1>3 DEF Front

LEMMA LastIs ==
  ASSUME NEW S, NEW s \in Seq(S), s # <<>>
  PROVE  /\ Last(s) = s[Len(s)] /\ Last(s) \in S
         /\ Len(s) \in Nat \ {0} /\ Len(s) \in DOMAIN s /\ DOMAIN s = 1 .. Len(s)
BY DEF Last

LEMMA ReplaceLast ==
  ASSUME NEW S, NEW s \in Seq(S), NEW x \in S, s # <<>>
  PROVE  LET r == [s EXCEPT ![Len(s)] = x] IN
         /\ r \in Seq(S) /\ Len(r) = Len(s) /\ r # <<>> /\ DOMAIN r = DOMAIN s
         /\ \A i \in DOMAIN s : i # Len(s) => r[i] = s[i]
         /\ r[Len(s)] = x
OBVIOUS

LEMMA TailIs ==
  ASSUME NEW S, NEW s \in Seq(S), s # <<>>
  PROVE  Head(s) \in S /\ Tail(s) \in Seq(S)
OBVIOUS

LEMMA SeqChanged ==
  ASSUME NEW S, NEW s \in Seq(S), NEW i, NEW x \in S
  PROVE  [s EXCEPT ![i] = x] \in Seq(S) /\ Len([s EXCEPT ![i] = x]) = Len(s)
<1>1. CASE i \in 1 .. Len(s)
  BY <1>1, ExceptSeq
<1>2. CASE i \notin 1 .. Len(s)
  <2>1. s \in [1 .. Len(s) -> S]
    BY LenProperties
  <2>2. [s EXCEPT ![i] = x] = s
    BY <1>2, <2>1, Zenon
  <2> QED BY <2>2
<1> QED BY <1>1, <1>2

LEMMA UpToLast ==
  ASSUME NEW n \in Nat, NEW k \in 1 .. n
  PROVE  (k < n \/ k = n) /\ (k # n => k \in 1 .. n - 1)
OBVIOUS

LEMMA BelowLast ==
  ASSUME NEW n \in Nat \ {0}, NEW k \in 1 .. n - 1
  PROVE  k \in 1 .. n /\ n \in 1 .. n /\ k # n
OBVIOUS

(* An object is changed, made, and destroyed.                                *)
LEMMA ObjectChanged ==
  ASSUME NEW S, NEW D, NEW f \in [D -> S], NEW id, NEW x \in S
  PROVE  LET g == [f EXCEPT ![id] = x] IN
         /\ g \in [D -> S] /\ DOMAIN g = D
         /\ id \in D => g[id] = x
         /\ \A j \in D : j # id => g[j] = f[j]
OBVIOUS

(***************************************************************************)
(* Type correctness, action by action.                                     *)
(***************************************************************************)
LEMMA TypeInit == Init => TypeOK
<1> SUFFICES ASSUME Init PROVE TypeOK
  OBVIOUS
<1>1. text \in Seq(Tokens \cup Directives) /\ macroDefs \in [Names -> Macros]
  BY TextsAssumption, MacrosAssumption DEF Init
<1>2. busy \in [Names -> BOOLEAN] /\ at \in [Names -> Nat \ {0}]
  BY DEF Init
<1>3. token \in Pending \cup {NoToken} /\ calls \in Seq(Calls) /\ inputStack \in Seq(Inputs)
  BY DEF Init, Inputs, StringInput
<1>4. DOMAIN inputs = {}
  BY DEF Init
<1>5. inputs \in [DOMAIN inputs -> Objects]
  BY <1>4 DEF Init
<1>6. IsFiniteSet(DOMAIN inputs) /\ DOMAIN inputs \subseteq Nat
  BY <1>4, FS_EmptySet
<1> QED BY <1>1, <1>2, <1>3, <1>5, <1>6 DEF TypeOK

(* One argument of an object changes, as given or as expanded.                *)
Kept(f, g) ==
  /\ f \in [DOMAIN f -> Objects] /\ DOMAIN f = DOMAIN g
  /\ \A id \in DOMAIN g :
       /\ f[id].mac = g[id].mac /\ Len(f[id].args) = Len(g[id].args)
       /\ Len(f[id].expandedArgs) = Len(g[id].expandedArgs)

StillExpanded(f, g) ==
  \A id \in DOMAIN g : \A i \in DOMAIN g[id].expandedArgs :
    g[id].expandedArgs[i] # NoStream => f[id].expandedArgs[i] # NoStream

LEMMA ArgChanged ==
  ASSUME NEW D, NEW f \in [D -> Objects], NEW id \in D, NEW i, NEW x \in Streams
  PROVE  /\ Kept([f EXCEPT ![id].args[i] = x], f)
         /\ StillExpanded([f EXCEPT ![id].args[i] = x], f)
<1> DEFINE o == [f[id] EXCEPT !.args = [@ EXCEPT ![i] = x]]
<1>1. f[id].args \in Seq(Streams)
  BY DEF Objects
<1>2. LET a == [f[id].args EXCEPT ![i] = x] IN a \in Seq(Streams) /\ Len(a) = Len(f[id].args)
  BY <1>1, SeqChanged
<1>3. /\ o \in Objects /\ o.mac = f[id].mac /\ Len(o.args) = Len(f[id].args)
      /\ o.expandedArgs = f[id].expandedArgs
  BY <1>2 DEF Objects
<1>4. [f EXCEPT ![id].args[i] = x] = [f EXCEPT ![id] = o]
  OBVIOUS
<1> HIDE DEF o
<1>5. Kept([f EXCEPT ![id] = o], f)
  BY <1>3, ObjectChanged DEF Kept
<1>6. StillExpanded([f EXCEPT ![id] = o], f)
  BY <1>3, ObjectChanged DEF StillExpanded
<1> QED BY <1>4, <1>5, <1>6

LEMMA ExpandedChanged ==
  ASSUME NEW D, NEW f \in [D -> Objects], NEW id \in D, NEW i, NEW x \in Streams \cup {NoStream}
  PROVE  LET g == [f EXCEPT ![id].expandedArgs[i] = x] IN
         /\ Kept(g, f)
         /\ x # NoStream => StillExpanded(g, f)
         /\ \A j \in D : j # id => g[j] = f[j]
<1> DEFINE o == [f[id] EXCEPT !.expandedArgs = [@ EXCEPT ![i] = x]]
<1>1. f[id].expandedArgs \in Seq(Streams \cup {NoStream})
  BY DEF Objects
<1>2. LET a == [f[id].expandedArgs EXCEPT ![i] = x] IN
      a \in Seq(Streams \cup {NoStream}) /\ Len(a) = Len(f[id].expandedArgs)
  BY <1>1, SeqChanged
<1>3. /\ o \in Objects /\ o.mac = f[id].mac /\ o.args = f[id].args
      /\ Len(o.expandedArgs) = Len(f[id].expandedArgs)
  BY <1>2 DEF Objects
<1>4. [f EXCEPT ![id].expandedArgs[i] = x] = [f EXCEPT ![id] = o]
  OBVIOUS
<1>5. ASSUME x # NoStream, NEW j \in DOMAIN f[id].expandedArgs, f[id].expandedArgs[j] # NoStream
      PROVE  o.expandedArgs[j] # NoStream
  <2>1. o.expandedArgs = [f[id].expandedArgs EXCEPT ![i] = x]
    BY DEF Objects
  <2> QED BY <1>5, <2>1
<1> HIDE DEF o
<1>6. Kept([f EXCEPT ![id] = o], f)
  BY <1>3, ObjectChanged DEF Kept
<1>7. x # NoStream => StillExpanded([f EXCEPT ![id] = o], f)
  BY <1>3, <1>5, ObjectChanged DEF StillExpanded
<1>8. \A j \in D : j # id => [f EXCEPT ![id] = o][j] = f[j]
  BY <1>3, ObjectChanged
<1> QED BY <1>4, <1>6, <1>7, <1>8

LEMMA TopIs ==
  TypeOK /\ inputStack # <<>> =>
    /\ Top = inputStack[Len(inputStack)] /\ Top \in Inputs
    /\ Len(inputStack) \in Nat \ {0} /\ DOMAIN inputStack = 1 .. Len(inputStack)
BY LastIs DEF TypeOK, Top

LEMMA CallIs ==
  TypeOK /\ calls # <<>> =>
    /\ Call = calls[Len(calls)] /\ Call \in Calls
    /\ Len(calls) \in Nat \ {0} /\ DOMAIN calls = 1 .. Len(calls)
BY LastIs DEF TypeOK, Call

LEMMA TextType == TypeOK /\ Next => text' \in Seq(Tokens \cup Directives)
<1> SUFFICES ASSUME TypeOK, Next PROVE text' \in Seq(Tokens \cup Directives)
  OBVIOUS
<1>1. CASE text' = text
  BY <1>1 DEF TypeOK
<1>2. CASE TakeToken /\ Top.kind = "string"
  <2>1. text # <<>> /\ text' = Tail(text)
    BY <1>2 DEF TakeToken, Exhausted
  <2> QED BY <2>1, TailIs DEF TypeOK
<1>3. text' = text \/ (TakeToken /\ Top.kind = "string")
  BY DEF Next, Scan, PopInput, PushArgument, TakeToken, NoInput, Emit, Define, Stop, MacroExpand,
     ExpandObject, BeginCall, NotACall, Parenthesis, RecordToken, EndArgument, Recover,
     AbandonCall, PrescanArgument, TossArgument, EndPrescan, ExpandCall
<1> QED BY <1>1, <1>2, <1>3

LEMMA MacroDefsType == TypeOK /\ Next => macroDefs' \in [Names -> Macros]
<1> SUFFICES ASSUME TypeOK, Next PROVE macroDefs' \in [Names -> Macros]
  OBVIOUS
<1>1. CASE macroDefs' = macroDefs
  BY <1>1 DEF TypeOK
<1>2. CASE Define
  <2> DEFINE d == Meaning[token.text]
  <2>1. d.name \in Names /\ d.macro \in Macros
    BY <1>2, MacrosAssumption DEF Define
  <2>2. macroDefs \in [Names -> Macros]
    BY DEF TypeOK
  <2>3. [macroDefs[d.name] EXCEPT !.defined = FALSE] \in Macros
    BY <2>1, <2>2 DEF Macros
  <2>4. macroDefs' = IF d.macro.defined THEN [macroDefs EXCEPT ![d.name] = d.macro]
                     ELSE [macroDefs EXCEPT ![d.name] = [macroDefs[d.name] EXCEPT !.defined = FALSE]]
    BY <1>2 DEF Define, After
  <2> HIDE DEF d
  <2> QED BY <2>1, <2>2, <2>3, <2>4
<1>3. macroDefs' = macroDefs \/ Define
  BY DEF Next, Scan, PopInput, PushArgument, TakeToken, NoInput, Emit, Stop, MacroExpand,
     ExpandObject, BeginCall, NotACall, Parenthesis, RecordToken, EndArgument, Recover,
     AbandonCall, PrescanArgument, TossArgument, EndPrescan, ExpandCall, definitions
<1> QED BY <1>1, <1>2, <1>3

LEMMA BusyType == TypeOK /\ Next => busy' \in [Names -> BOOLEAN]
<1> SUFFICES ASSUME TypeOK, Next PROVE busy' \in [Names -> BOOLEAN]
  OBVIOUS
<1>1. busy' = busy \/ \E m : busy' = [busy EXCEPT ![m] = TRUE] \/ busy' = [busy EXCEPT ![m] = FALSE]
  BY DEF Next, Scan, PopInput, NotBusy, PushArgument, TakeToken, NoInput, Emit, Define, Stop,
     MacroExpand, ExpandObject, StartExpansion, BeginCall, NotACall, Parenthesis, RecordToken,
     EndArgument, Recover, AbandonCall, PrescanArgument, TossArgument, EndPrescan, ExpandCall,
     definitions
<1> QED BY <1>1 DEF TypeOK

LEMMA AtType == TypeOK /\ Next => at' \in [Names -> Nat \ {0}]
<1> SUFFICES ASSUME TypeOK, Next PROVE at' \in [Names -> Nat \ {0}]
  OBVIOUS
<1>1. at' = at \/ \E m : at' = [at EXCEPT ![m] = 1] \/ at' = [at EXCEPT ![m] = @ + 1]
  BY DEF Next, Scan, PopInput, PushArgument, TakeToken, NoInput, Emit, Define, Stop,
     MacroExpand, ExpandObject, StartExpansion, BeginCall, NotACall, Parenthesis, RecordToken,
     EndArgument, Recover, AbandonCall, PrescanArgument, TossArgument, EndPrescan, ExpandCall,
     definitions
<1> QED BY <1>1 DEF TypeOK

(* What a scan returns, and what is handled.                                 *)
LEMMA PlainType ==
  ASSUME NEW t \in Tokens \cup Directives PROVE Plain(t) \in Readable
BY DEF Plain, Readable

LEMMA NewIdIs ==
  TypeOK => NewId \in Nat /\ NewId \notin DOMAIN inputs
<1> SUFFICES ASSUME TypeOK PROVE NewId \in Nat /\ NewId \notin DOMAIN inputs
  OBVIOUS
<1> DEFINE n == Cardinality(DOMAIN inputs)
<1>1. n \in Nat
  BY FS_CardinalityType DEF TypeOK
<1>2. \E id \in 1 .. (n + 1) : id \notin DOMAIN inputs
  <2>1. SUFFICES ASSUME 1 .. (n + 1) \subseteq DOMAIN inputs PROVE FALSE
    OBVIOUS
  <2>2. Cardinality(1 .. (n + 1)) <= n
    BY <2>1, FS_Subset DEF TypeOK
  <2>3. Cardinality(1 .. (n + 1)) = n + 1
    BY <1>1, FS_Interval
  <2> QED BY <1>1, <2>2, <2>3
<1> QED BY <1>1, <1>2 DEF NewId

LEMMA TakeReadable ==
  ASSUME TypeOK, ObjectsOK, StackOK, ArgumentsOK, TakeToken, Top.kind \notin {"marker", "ungot"}
  PROVE  token' \in Readable
<1>1. CASE TakeToken /\ Top.kind = "string"
  <2>1. text # <<>> /\ token' = Plain(Head(text))
    BY <1>1 DEF TakeToken, Exhausted
  <2>2. Head(text) \in Tokens \cup Directives
    BY <2>1, TailIs DEF TypeOK
  <2> QED BY <2>1, <2>2, PlainType
<1>2. CASE TakeToken /\ Top.kind = "macro"
  <2> DEFINE m == inputs[Top.in].mac
  <2>0. inputStack # <<>>
    BY <1>2 DEF TakeToken
  <2>1. Top.in \in DOMAIN inputs /\ m = inputs[Top.in].mac
    BY <1>2, <2>0, TopIs DEF StackOK, IsMacro, MacroOf
  <2>2. m \in Names /\ at[m] \in Nat \ {0} /\ macroDefs[m].body \in Seq(Tokens)
    <3>1. inputs[Top.in] \in Objects
      BY <2>1 DEF TypeOK
    <3>2. m \in Names
      BY <2>1, <3>1 DEF Objects
    <3>3. macroDefs[m] \in Macros
      BY <3>2 DEF TypeOK
    <3> QED BY <3>2, <3>3 DEF Macros, TypeOK
  <2>3. token' = Plain(macroDefs[m].body[at[m]]) /\ ~(at[m] > Len(macroDefs[m].body))
    BY <1>2, <2>1 DEF TakeToken, Exhausted, BodyToken
  <2>4. macroDefs[m].body[at[m]] \in Tokens
    BY <2>2, <2>3
  <2> QED BY <2>3, <2>4, PlainType
<1>3. CASE TakeToken /\ Top.kind = "tokens"
  <2>0. inputStack # <<>>
    BY <1>3 DEF TakeToken
  <2>1. StreamOf(Top) \in Streams
    <3>1. Top = inputStack[Len(inputStack)] /\ Len(inputStack) \in DOMAIN inputStack
      BY <2>0, TopIs
    <3>2. /\ Top.in \in DOMAIN inputs /\ Top.arg \in DOMAIN inputs[Top.in].args
          /\ Top.preExpanded => inputs[Top.in].expandedArgs[Top.arg] # NoStream
      BY <1>3, <3>1 DEF ArgumentsOK, IsTokens
    <3>3. inputs[Top.in] \in Objects
      BY <3>2 DEF TypeOK
    <3>4. CASE Top.preExpanded
      <4>1. Top.arg \in DOMAIN inputs[Top.in].expandedArgs
        <5>1. /\ inputs[Top.in].args \in Seq(Streams)
              /\ inputs[Top.in].expandedArgs \in Seq(Streams \cup {NoStream})
              /\ Len(inputs[Top.in].expandedArgs) = Len(inputs[Top.in].args)
          BY <3>2, <3>3 DEF ObjectsOK, Objects
        <5> QED BY <3>2, <5>1, LenProperties
      <4> QED BY <3>2, <3>3, <3>4, <4>1 DEF Objects, StreamOf
    <3>5. CASE ~Top.preExpanded
      BY <3>2, <3>3, <3>5 DEF Objects, StreamOf
    <3> QED BY <3>4, <3>5
  <2> DEFINE s == StreamOf(Top)
             t == s.tokens[s.at]
             p == Top.preExpanded /\ ~MayBeCalled(s)
  <2>2. token' = [t EXCEPT !.painted = p] /\ ~(s.at > Len(s.tokens))
    BY <1>3 DEF TakeToken, Exhausted
  <2>3. t \in Readable
    BY <2>1, <2>2 DEF Streams
  <2>4. p \in BOOLEAN
    OBVIOUS
  <2> HIDE DEF t, p
  <2> QED BY <2>2, <2>3, <2>4 DEF Readable
<1>4. Top.kind \in {"string", "macro", "tokens"}
  BY DEF TakeToken
<1> QED BY <1>1, <1>2, <1>3, <1>4

LEMMA TokenType ==
  TypeOK /\ ObjectsOK /\ StackOK /\ ArgumentsOK /\ Next => token' \in Pending \cup {NoToken}
<1> SUFFICES ASSUME TypeOK, ObjectsOK, StackOK, ArgumentsOK, Next
             PROVE  token' \in Pending \cup {NoToken}
  OBVIOUS
<1>1. CASE token' \in {token, NoToken}
  BY <1>1 DEF TypeOK
<1>2. CASE NoInput
  BY <1>2 DEF NoInput, Plain, Pending
<1>3. CASE TakeToken /\ Top.kind \notin {"marker", "ungot"}
  BY <1>3, TakeReadable DEF Readable, Pending
<1>6. CASE TakeToken /\ Top.kind = "marker"
  <2>1. token' = Plain(Marker)
    BY <1>6 DEF TakeToken
  <2> QED BY <2>1 DEF Plain, Pending
<1>7. CASE TakeToken /\ Top.kind = "ungot"
  <2>1. token' = Top.token /\ inputStack # <<>>
    BY <1>7 DEF TakeToken
  <2> QED BY <1>7, <2>1, TopIs DEF Inputs
<1>8. token' \in {token, NoToken} \/ NoInput \/ TakeToken
  BY DEF Next, Scan, PopInput, PushArgument, Emit, Define, Stop, MacroExpand, Handled,
     ExpandObject, BeginCall, NotACall, Parenthesis, RecordToken, EndArgument, Recover,
     AbandonCall, PrescanArgument, TossArgument, EndPrescan, ExpandCall
<1> QED BY <1>1, <1>2, <1>3, <1>6, <1>7, <1>8

(***************************************************************************)
(* What the actions do to the calls: the innermost one changes, or ends, or *)
(* another begins.                                                         *)
(***************************************************************************)
Alike(c, d) ==
  /\ c \in Seq(Calls) /\ Len(c) = Len(d)
  /\ \A k \in 1 .. Len(d) : c[k].in = d[k].in /\ c[k].mac = d[k].mac
  /\ \A k \in 1 .. Len(d) : k < Len(d) => c[k].phase = d[k].phase /\ c[k].count = d[k].count
LastPhase(c, phase, count) == c[Len(c)].phase = phase /\ c[Len(c)].count = count
SamePhases(c, d) == Alike(c, d) /\ (d # <<>> => LastPhase(c, d[Len(d)].phase, d[Len(d)].count))

LEMMA CallChanged ==
  ASSUME NEW c \in Seq(Calls), c # <<>>, NEW x \in Calls,
         x.in = c[Len(c)].in, x.mac = c[Len(c)].mac
  PROVE  LET d == [c EXCEPT ![Len(c)] = x] IN
         Alike(d, c) /\ LastPhase(d, x.phase, x.count)
<1> DEFINE d == [c EXCEPT ![Len(c)] = x]
<1>1. /\ d \in Seq(Calls) /\ Len(d) = Len(c) /\ d[Len(c)] = x
      /\ \A i \in DOMAIN c : i # Len(c) => d[i] = c[i]
  BY ReplaceLast
<1>2. DOMAIN c = 1 .. Len(c) /\ Len(c) \in Nat
  BY LenProperties
<1> HIDE DEF d
<1>3. LastPhase(d, x.phase, x.count)
  BY <1>1 DEF LastPhase
<1>4. \A k \in 1 .. Len(c) : d[k].in = c[k].in /\ d[k].mac = c[k].mac
  BY <1>1, <1>2
<1>5. \A k \in 1 .. Len(c) : k < Len(c) => d[k].phase = c[k].phase /\ d[k].count = c[k].count
  BY <1>1, <1>2
<1> QED BY <1>1, <1>3, <1>4, <1>5 DEF Alike, d

LEMMA EmitCalls ==
  ASSUME NEW c \in Seq(Calls), NEW t \in Readable, EmitFrom(c, t)
  PROVE  SamePhases(calls', c)
<1>1. CASE c = <<>>
  BY <1>1 DEF EmitFrom, SamePhases, Alike
<1>2. CASE c # <<>>
  <2> DEFINE x == [c[Len(c)] EXCEPT !.output = Append(@, t)]
  <2>1. calls' = [c EXCEPT ![Len(c)] = x]
    BY <1>2 DEF EmitFrom
  <2>2. c[Len(c)] \in Calls
    BY <1>2, LastIs
  <2>3. /\ x \in Calls /\ x.in = c[Len(c)].in /\ x.mac = c[Len(c)].mac
        /\ x.phase = c[Len(c)].phase /\ x.count = c[Len(c)].count
    <3> DEFINE o == Append(c[Len(c)].output, t)
    <3>1. o \in Seq(Readable)
      BY <2>2, AppendIs DEF Calls
    <3>2. x = [c[Len(c)] EXCEPT !.output = o]
      OBVIOUS
    <3> HIDE DEF o, x
    <3> QED BY <2>2, <3>1, <3>2 DEF Calls
  <2> HIDE DEF x
  <2>4. Alike(calls', c) /\ LastPhase(calls', x.phase, x.count)
    BY <1>2, <2>1, <2>3, CallChanged, Zenon
  <2> QED BY <2>3, <2>4 DEF SamePhases
<1> QED BY <1>1, <1>2

LEMMA EmitStep == TypeOK /\ Emit => SamePhases(calls', calls)
<1> SUFFICES ASSUME TypeOK, Emit PROVE SamePhases(calls', calls)
  OBVIOUS
<1> DEFINE o == token.own \/ (token.text \in Names /\ busy[token.text])
           t == [token EXCEPT !.own = o]
<1>1. token \in Pending /\ ~Ends(token.text) /\ EmitFrom(calls, t)
  BY DEF Emit, Expanding, TypeOK
<1>2. o \in BOOLEAN
  OBVIOUS
<1> HIDE DEF o
<1>3. t \in Readable
  BY <1>1, <1>2 DEF Readable, Pending, Ends
<1> HIDE DEF t
<1> QED BY <1>1, <1>3, EmitCalls DEF TypeOK

(* The innermost call stays where it is, or goes on.                         *)
LEMMA ChangedAs ==
  ASSUME TypeOK, calls # <<>>, NEW phase \in Phases, NEW count \in Nat, NEW depth \in Int,
         NEW output \in Seq(Readable), NEW l \in BOOLEAN,
         calls' = [calls EXCEPT ![Len(calls)] =
                     [Call EXCEPT !.phase = phase, !.count = count, !.depth = depth,
                                  !.output = output, !.left = l]]
  PROVE  Alike(calls', calls) /\ LastPhase(calls', phase, count)
<1> DEFINE x == [Call EXCEPT !.phase = phase, !.count = count, !.depth = depth,
                             !.output = output, !.left = l]
<1>1. Call = calls[Len(calls)] /\ Call \in Calls
  BY CallIs
<1>2. x \in Calls /\ x.in = Call.in /\ x.mac = Call.mac /\ x.phase = phase /\ x.count = count
  BY <1>1 DEF Calls
<1> HIDE DEF x
<1>3. calls' = [calls EXCEPT ![Len(calls)] = x] /\ calls \in Seq(Calls) /\ calls # <<>>
  BY DEF x, TypeOK
<1>4. x.in = calls[Len(calls)].in /\ x.mac = calls[Len(calls)].mac
  BY <1>1, <1>2
<1>5. Alike([calls EXCEPT ![Len(calls)] = x], calls)
        /\ LastPhase([calls EXCEPT ![Len(calls)] = x], x.phase, x.count)
  BY <1>2, <1>3, <1>4, CallChanged, Zenon
<1> QED BY <1>2, <1>3, <1>5, Zenon

LEMMA CallParts ==
  TypeOK /\ calls # <<>> =>
    /\ Call.in \in Nat /\ Call.mac \in Names /\ Call.count \in Nat /\ Call.depth \in Int
    /\ Call.output \in Seq(Readable) /\ Call.left \in BOOLEAN /\ Call.phase \in Phases
    /\ {"args", "recover", "ready", "prescan", "toss"} \subseteq Phases
    /\ "args" \in Phases /\ "recover" \in Phases /\ "ready" \in Phases
    /\ "prescan" \in Phases /\ "toss" \in Phases
BY CallIs DEF Calls, Phases

LEMMA ParenthesisStep ==
  TypeOK /\ Parenthesis => Alike(calls', calls) /\ LastPhase(calls', "args", Call.count)
<1> SUFFICES ASSUME TypeOK, Parenthesis
             PROVE  Alike(calls', calls) /\ LastPhase(calls', "args", Call.count)
  OBVIOUS
<1>1. calls # <<>> /\ calls' = [calls EXCEPT ![Len(calls)].phase = "args"]
  BY DEF Parenthesis, Looking, ToPhase
<1>2. Call = calls[Len(calls)] /\ Call \in Calls
  BY <1>1, CallIs
<1>3. calls' = [calls EXCEPT ![Len(calls)] =
                  [Call EXCEPT !.phase = "args", !.count = Call.count, !.depth = Call.depth,
                               !.output = Call.output, !.left = Call.left]]
  BY <1>1, <1>2 DEF Calls
<1> QED BY <1>1, <1>3, CallParts, ChangedAs, Zenon

LEMMA RecordTokenStep ==
  TypeOK /\ RecordToken => Alike(calls', calls) /\ LastPhase(calls', "args", Call.count)
<1> SUFFICES ASSUME TypeOK, RecordToken
             PROVE  Alike(calls', calls) /\ LastPhase(calls', "args", Call.count)
  OBVIOUS
<1> DEFINE depth == Call.depth + Nested(token.text)
<1>1. calls # <<>> /\ Call.phase = "args" /\ calls' = [calls EXCEPT ![Len(calls)].depth = @ + Nested(token.text)]
  BY DEF RecordToken, InArguments, Looking
<1>2. Call = calls[Len(calls)] /\ Call \in Calls
  BY <1>1, CallIs
<1>3. depth \in Int
  BY <1>2 DEF Calls, Nested
<1>4. calls' = [calls EXCEPT ![Len(calls)] =
                  [Call EXCEPT !.phase = "args", !.count = Call.count, !.depth = depth,
                               !.output = Call.output, !.left = Call.left]]
  <2>1. calls' = [calls EXCEPT ![Len(calls)] = [Call EXCEPT !.depth = depth]]
    BY <1>1, <1>2
  <2>2. [Call EXCEPT !.depth = depth]
          = [Call EXCEPT !.phase = "args", !.count = Call.count, !.depth = depth,
                         !.output = Call.output, !.left = Call.left]
    BY <1>1, <1>2 DEF Calls
  <2> QED BY <2>1, <2>2
<1>5. /\ calls # <<>> /\ "args" \in Phases /\ Call.count \in Nat
      /\ Call.output \in Seq(Readable) /\ Call.left \in BOOLEAN
  BY <1>1, CallParts
<1> HIDE DEF depth
<1> QED BY <1>3, <1>4, <1>5, ChangedAs, Zenon

LEMMA EndArgumentStep ==
  TypeOK /\ EndArgument =>
    /\ Alike(calls', calls)
    /\ \/ \E n \in Nat : LastPhase(calls', "args", n) \/ LastPhase(calls', "recover", n)
       \/ LastPhase(calls', "ready", 1)
<1> SUFFICES ASSUME TypeOK, EndArgument
             PROVE  /\ Alike(calls', calls)
                    /\ \/ \E n \in Nat : LastPhase(calls', "args", n) \/ LastPhase(calls', "recover", n)
                       \/ LastPhase(calls', "ready", 1)
  OBVIOUS
<1> DEFINE n == CountAfter
           phase == CASE n < Arity /\ token.text # ")" -> "args"
                      [] n >= Arity /\ token.text # ")" -> "recover"
                      [] OTHER -> "ready"
           count == IF phase = "ready" THEN 1 ELSE n
<1>1. calls # <<>> /\ calls' = [calls EXCEPT ![Len(calls)].count = count, ![Len(calls)].phase = phase]
  BY DEF EndArgument, InArguments, Looking
<1>2. Call = calls[Len(calls)] /\ Call \in Calls
  BY <1>1, CallIs
<1>3. n \in Nat
  BY <1>2 DEF Calls, CountAfter
<1>4. phase \in {"args", "recover", "ready"} /\ phase \in Phases
  BY DEF Phases
<1> HIDE DEF n, phase
<1>5. count \in Nat
  BY <1>3
<1> HIDE DEF count
<1>6. calls' = [calls EXCEPT ![Len(calls)] =
                  [Call EXCEPT !.phase = phase, !.count = count, !.depth = Call.depth,
                               !.output = Call.output, !.left = Call.left]]
  <2>1. calls' = [calls EXCEPT ![Len(calls)] = [Call EXCEPT !.count = count, !.phase = phase]]
    BY <1>1, <1>2
  <2>2. [Call EXCEPT !.count = count, !.phase = phase]
          = [Call EXCEPT !.phase = phase, !.count = count, !.depth = Call.depth,
                         !.output = Call.output, !.left = Call.left]
    BY <1>2 DEF Calls
  <2> QED BY <2>1, <2>2
<1>7. Alike(calls', calls) /\ LastPhase(calls', phase, count)
  BY <1>1, <1>4, <1>5, <1>6, CallParts, ChangedAs, Zenon
<1>8. phase = "ready" => count = 1
  BY DEF count
<1> QED BY <1>4, <1>5, <1>7, <1>8, Zenon

LEMMA RecoverStep ==
  TypeOK /\ Recover =>
    /\ Alike(calls', calls)
    /\ LastPhase(calls', "recover", Call.count) \/ LastPhase(calls', "ready", 1)
<1> SUFFICES ASSUME TypeOK, Recover
             PROVE  /\ Alike(calls', calls)
                    /\ LastPhase(calls', "recover", Call.count) \/ LastPhase(calls', "ready", 1)
  OBVIOUS
<1> DEFINE depth == Call.depth + (IF token.text = "(" THEN 1 ELSE 0)
           left == depth - (IF token.text = ")" THEN 1 ELSE 0)
<1>1. calls # <<>> /\ Call.phase = "recover"
  BY DEF Recover, Looking
<1>2. Call = calls[Len(calls)] /\ Call \in Calls
  BY <1>1, CallIs
<1>3. depth \in Int /\ left \in Int
  BY <1>2 DEF Calls
<1>4. CASE depth = 0 /\ token.text = ")"
  <2>1. calls' = [calls EXCEPT ![Len(calls)].phase = "ready", ![Len(calls)].count = 1]
    BY <1>4 DEF Recover
  <2>2. calls' = [calls EXCEPT ![Len(calls)] = [Call EXCEPT !.phase = "ready", !.count = 1]]
    BY <1>2, <2>1
  <2>3. [Call EXCEPT !.phase = "ready", !.count = 1]
          = [Call EXCEPT !.phase = "ready", !.count = 1, !.depth = Call.depth,
                         !.output = Call.output, !.left = Call.left]
    BY <1>2 DEF Calls
  <2>4. calls' = [calls EXCEPT ![Len(calls)] =
                    [Call EXCEPT !.phase = "ready", !.count = 1, !.depth = Call.depth,
                                 !.output = Call.output, !.left = Call.left]]
    BY <2>2, <2>3
  <2>5. 1 \in Nat
    OBVIOUS
  <2> QED BY <1>1, <2>4, <2>5, CallParts, ChangedAs, Zenon
<1>5. CASE ~(depth = 0 /\ token.text = ")")
  <2>1. calls' = [calls EXCEPT ![Len(calls)].depth = left]
    BY <1>5 DEF Recover
  <2> HIDE DEF left
  <2>2. calls' = [calls EXCEPT ![Len(calls)] = [Call EXCEPT !.depth = left]]
    BY <1>2, <2>1
  <2>3. [Call EXCEPT !.depth = left]
          = [Call EXCEPT !.phase = "recover", !.count = Call.count, !.depth = left,
                         !.output = Call.output, !.left = Call.left]
    BY <1>1, <1>2 DEF Calls
  <2>4. calls' = [calls EXCEPT ![Len(calls)] =
                    [Call EXCEPT !.phase = "recover", !.count = Call.count, !.depth = left,
                                 !.output = Call.output, !.left = Call.left]]
    BY <2>2, <2>3
  <2> QED BY <1>1, <1>3, <2>4, CallParts, ChangedAs, Zenon
<1> QED BY <1>4, <1>5

LEMMA PrescanStep ==
  TypeOK /\ PrescanArgument => Alike(calls', calls) /\ LastPhase(calls', "prescan", Call.count)
<1> SUFFICES ASSUME TypeOK, PrescanArgument
             PROVE  Alike(calls', calls) /\ LastPhase(calls', "prescan", Call.count)
  OBVIOUS
<1>1. calls # <<>> /\ calls' = [calls EXCEPT ![Len(calls)].phase = "prescan", ![Len(calls)].output = <<>>]
  BY DEF PrescanArgument, Ready
<1>2. Call = calls[Len(calls)] /\ Call \in Calls
  BY <1>1, CallIs
<1>3. <<>> \in Seq(Readable)
  OBVIOUS
<1>4. calls' = [calls EXCEPT ![Len(calls)] = [Call EXCEPT !.phase = "prescan", !.output = <<>>]]
  BY <1>1, <1>2
<1>5. [Call EXCEPT !.phase = "prescan", !.output = <<>>]
        = [Call EXCEPT !.phase = "prescan", !.count = Call.count, !.depth = Call.depth,
                       !.output = <<>>, !.left = Call.left]
  BY <1>2 DEF Calls
<1>6. calls' = [calls EXCEPT ![Len(calls)] =
                  [Call EXCEPT !.phase = "prescan", !.count = Call.count, !.depth = Call.depth,
                               !.output = <<>>, !.left = Call.left]]
  BY <1>4, <1>5
<1>7. calls # <<>>
  BY <1>1
<1> QED BY <1>3, <1>6, <1>7, CallParts, ChangedAs, Zenon

LEMMA EndPrescanStep ==
  TypeOK /\ EndPrescan => Alike(calls', calls) /\ LastPhase(calls', "ready", Call.count + 1)
<1> SUFFICES ASSUME TypeOK, EndPrescan
             PROVE  Alike(calls', calls) /\ LastPhase(calls', "ready", Call.count + 1)
  OBVIOUS
<1>1. calls # <<>> /\ calls' = [calls EXCEPT ![Len(calls)].phase = "ready", ![Len(calls)].count = @ + 1]
  BY DEF EndPrescan
<1>2. Call = calls[Len(calls)] /\ Call \in Calls
  BY <1>1, CallIs
<1>3. Call.count + 1 \in Nat
  BY <1>2 DEF Calls
<1>4. calls' = [calls EXCEPT ![Len(calls)] = [Call EXCEPT !.phase = "ready", !.count = Call.count + 1]]
  BY <1>1, <1>2
<1>5. [Call EXCEPT !.phase = "ready", !.count = Call.count + 1]
        = [Call EXCEPT !.phase = "ready", !.count = Call.count + 1, !.depth = Call.depth,
                       !.output = Call.output, !.left = Call.left]
  BY <1>2 DEF Calls
<1>6. calls' = [calls EXCEPT ![Len(calls)] =
                  [Call EXCEPT !.phase = "ready", !.count = Call.count + 1, !.depth = Call.depth,
                               !.output = Call.output, !.left = Call.left]]
  BY <1>4, <1>5
<1>7. calls # <<>>
  BY <1>1
<1> QED BY <1>3, <1>6, <1>7, CallParts, ChangedAs, Zenon

LEMMA PopStep == TypeOK /\ PopInput => SamePhases(calls', calls)
<1> SUFFICES ASSUME TypeOK, PopInput PROVE SamePhases(calls', calls)
  OBVIOUS
<1>1. CASE calls' = calls
  BY <1>1 DEF SamePhases, Alike, LastPhase, TypeOK
<1>2. CASE calls # <<>> /\ calls' = [calls EXCEPT ![Len(calls)].left = TRUE]
  <2>1. Call = calls[Len(calls)] /\ Call \in Calls
    BY <1>2, CallIs
  <2>2. calls' = [calls EXCEPT ![Len(calls)] = [Call EXCEPT !.left = TRUE]]
    BY <1>2, <2>1
  <2>3. [Call EXCEPT !.left = TRUE]
          = [Call EXCEPT !.phase = Call.phase, !.count = Call.count, !.depth = Call.depth,
                         !.output = Call.output, !.left = TRUE]
    BY <2>1 DEF Calls
  <2>4. calls' = [calls EXCEPT ![Len(calls)] =
                    [Call EXCEPT !.phase = Call.phase, !.count = Call.count, !.depth = Call.depth,
                                 !.output = Call.output, !.left = TRUE]]
    BY <2>2, <2>3
  <2>5. calls # <<>> /\ TRUE \in BOOLEAN
    BY <1>2
  <2>6. Alike(calls', calls) /\ LastPhase(calls', Call.phase, Call.count)
    BY <2>4, <2>5, CallParts, ChangedAs, Zenon
  <2> QED BY <2>1, <2>6 DEF SamePhases
<1>3. calls' = calls \/ (calls # <<>> /\ calls' = [calls EXCEPT ![Len(calls)].left = TRUE])
  BY DEF PopInput, Looking
<1> QED BY <1>1, <1>2, <1>3

(* A call ends.                                                              *)
LEMMA OuterCalls ==
  TypeOK /\ calls # <<>> =>
    /\ SamePhases(Front(calls), Front(calls)) /\ Front(calls) \in Seq(Calls)
    /\ Len(Front(calls)) = Len(calls) - 1 /\ Len(calls) \in Nat \ {0}
    /\ \A k \in 1 .. Len(calls) - 1 : Front(calls)[k] = calls[k]
BY FrontIs DEF TypeOK, SamePhases, Alike, LastPhase

LEMMA NotACallStep == TypeOK /\ NotACall => SamePhases(calls', Front(calls))
<1> SUFFICES ASSUME TypeOK, NotACall PROVE SamePhases(calls', Front(calls))
  OBVIOUS
<1> DEFINE t == [Plain(Call.mac) EXCEPT !.own = Call.own]
<1>1. calls # <<>> /\ EmitFrom(Front(calls), t)
  BY DEF NotACall, Looking
<1>2. Call.mac \in Names /\ Call.own \in BOOLEAN
  BY <1>1, CallIs DEF Calls
<1>3. t \in Readable
  BY <1>2 DEF Plain, Readable, Tokens
<1> HIDE DEF t
<1> QED BY <1>1, <1>3, OuterCalls, EmitCalls

LEMMA AbandonStep ==
  TypeOK /\ AbandonCall =>
    /\ calls # <<>> /\ Alike(calls', Front(calls))
    /\ Front(calls) # <<>> => LastPhase(calls', "toss", Last(Front(calls)).count)
<1> SUFFICES ASSUME TypeOK, AbandonCall
             PROVE  /\ calls # <<>> /\ Alike(calls', Front(calls))
                    /\ Front(calls) # <<>> => LastPhase(calls', "toss", Last(Front(calls)).count)
  OBVIOUS
<1> DEFINE c == Front(calls)
           x == [c[Len(c)] EXCEPT !.phase = "toss"]
<1>1. calls # <<>>
  BY DEF AbandonCall, Looking
<1>2. c \in Seq(Calls) /\ SamePhases(c, c)
  BY <1>1, OuterCalls
<1>3. CASE c = <<>>
  BY <1>1, <1>2, <1>3 DEF AbandonCall, SamePhases, Alike
<1>4. CASE c # <<>>
  <2>1. calls' = [c EXCEPT ![Len(c)] = x]
    BY <1>4 DEF AbandonCall
  <2>2. Last(c) = c[Len(c)] /\ c[Len(c)] \in Calls
    BY <1>2, <1>4, LastIs
  <2>3. /\ x \in Calls /\ x.in = c[Len(c)].in /\ x.mac = c[Len(c)].mac
        /\ x.phase = "toss" /\ x.count = c[Len(c)].count
    BY <2>2 DEF Calls, Phases
  <2> HIDE DEF x, c
  <2>4. Alike(calls', c) /\ LastPhase(calls', x.phase, x.count)
    BY <1>2, <1>4, <2>1, <2>3, CallChanged, Zenon
  <2> USE DEF c
  <2> QED BY <1>1, <2>2, <2>3, <2>4
<1> QED BY <1>3, <1>4

LEMMA BeginCallStep ==
  TypeOK /\ BeginCall =>
    /\ calls' \in Seq(Calls) /\ Len(calls') = Len(calls) + 1 /\ Len(calls) \in Nat
    /\ \A k \in 1 .. Len(calls) : calls'[k] = calls[k]
    /\ calls'[Len(calls) + 1].in = NewId /\ calls'[Len(calls) + 1].mac = token.text
    /\ calls'[Len(calls) + 1].phase = "name"
    /\ DOMAIN calls = 1 .. Len(calls) /\ DOMAIN calls' = 1 .. Len(calls) + 1
<1> SUFFICES ASSUME TypeOK, BeginCall
    PROVE  /\ calls' \in Seq(Calls) /\ Len(calls') = Len(calls) + 1 /\ Len(calls) \in Nat
           /\ \A k \in 1 .. Len(calls) : calls'[k] = calls[k]
           /\ calls'[Len(calls) + 1].in = NewId /\ calls'[Len(calls) + 1].mac = token.text
           /\ calls'[Len(calls) + 1].phase = "name"
           /\ DOMAIN calls = 1 .. Len(calls) /\ DOMAIN calls' = 1 .. Len(calls) + 1
  OBVIOUS
<1> DEFINE c == [in |-> NewId, mac |-> token.text, phase |-> "name", count |-> 0,
                 depth |-> 0, output |-> <<>>, left |-> FALSE, own |-> token.own]
<1>1. token.text \in Names /\ token.own \in BOOLEAN
  BY DEF BeginCall, Expanding, Expandable, TypeOK, Pending
<1>2. NewId \in Nat
  BY NewIdIs
<1>3. c \in Calls
  BY <1>1, <1>2 DEF Calls, Phases
<1>4. c.in = NewId /\ c.mac = token.text /\ c.phase = "name"
  OBVIOUS
<1>5. calls' = Append(calls, c) /\ calls \in Seq(Calls)
  BY DEF BeginCall, TypeOK
<1> HIDE DEF c
<1> QED BY <1>3, <1>4, <1>5, AppendIs, LenProperties

LEMMA CallsType == TypeOK /\ Next => calls' \in Seq(Calls)
<1> SUFFICES ASSUME TypeOK, Next PROVE calls' \in Seq(Calls)
  OBVIOUS
<1>1. CASE calls' = calls
  BY <1>1 DEF TypeOK
<1>2. CASE PopInput \/ Emit \/ NotACall
  BY <1>2, PopStep, EmitStep, NotACallStep DEF SamePhases, Alike
<1>3. CASE Parenthesis \/ RecordToken \/ EndArgument \/ Recover
  BY <1>3, ParenthesisStep, RecordTokenStep, EndArgumentStep, RecoverStep DEF Alike
<1>4. CASE PrescanArgument \/ EndPrescan \/ AbandonCall
  BY <1>4, PrescanStep, EndPrescanStep, AbandonStep DEF Alike
<1>5. CASE BeginCall
  BY <1>5, BeginCallStep
<1>6. CASE ExpandCall
  BY <1>6, OuterCalls DEF ExpandCall, Ready
<1>7. \/ calls' = calls \/ PopInput \/ Emit \/ NotACall \/ Parenthesis \/ RecordToken \/ EndArgument
      \/ Recover \/ PrescanArgument \/ EndPrescan \/ AbandonCall \/ BeginCall \/ ExpandCall
  BY DEF Next, Scan, PushArgument, TakeToken, NoInput, Define, Stop, MacroExpand, ExpandObject,
     TossArgument
<1> QED BY <1>1, <1>2, <1>3, <1>4, <1>5, <1>6, <1>7

(***************************************************************************)
(* What the actions do to the objects.                                     *)
(***************************************************************************)
LEMMA NoChange ==
  TypeOK => Kept(inputs, inputs)
BY DEF TypeOK, Kept

LEMMA NewInputIs ==
  ASSUME TypeOK, NEW m \in Names, NEW n \in Nat
  PROVE  LET new == NewInput(m, n) IN
         /\ new \in [DOMAIN new -> Objects] /\ DOMAIN new = DOMAIN inputs \cup {NewId}
         /\ \A id \in DOMAIN inputs : new[id] = inputs[id]
         /\ new[NewId].mac = m /\ Len(new[NewId].args) = n /\ Len(new[NewId].expandedArgs) = n
<1> DEFINE o == [mac |-> m, args |-> [i \in 1..n |-> Stream(<<>>)],
                 expandedArgs |-> [i \in 1..n |-> NoStream]]
<1>1. Stream(<<>>) \in Streams
  BY DEF Stream, Streams
<1>2. [i \in 1..n |-> Stream(<<>>)] \in Seq(Streams) /\ Len([i \in 1..n |-> Stream(<<>>)]) = n
  BY <1>1
<1>3. /\ [i \in 1..n |-> NoStream] \in Seq(Streams \cup {NoStream})
      /\ Len([i \in 1..n |-> NoStream]) = n
  OBVIOUS
<1>4. o \in Objects /\ o.mac = m /\ Len(o.args) = n /\ Len(o.expandedArgs) = n
  BY <1>2, <1>3 DEF Objects
<1>5. NewInput(m, n) = [id \in DOMAIN inputs \cup {NewId} |-> IF id = NewId THEN o ELSE inputs[id]]
  BY DEF NewInput
<1>6. NewId \notin DOMAIN inputs /\ \A id \in DOMAIN inputs : inputs[id] \in Objects
  BY NewIdIs DEF TypeOK
<1> HIDE DEF o
<1> QED BY <1>4, <1>5, <1>6

LEMMA Streaming ==
  ASSUME NEW s \in Streams
  PROVE  [s EXCEPT !.at = 1] \in Streams /\ [s EXCEPT !.at = @ + 1] \in Streams
BY DEF Streams

\* What the macro on top of the stack reads from.
LEMMA MacroOnTop ==
  ASSUME TypeOK, ObjectsOK, StackOK, inputStack # <<>>, Top.kind = "macro"
  PROVE  /\ Top.in \in DOMAIN inputs /\ inputs[Top.in] \in Objects /\ Top.in \in Nat
         /\ inputs[Top.in].mac \in Names /\ macroDefs[inputs[Top.in].mac] \in Macros
         /\ Len(inputs[Top.in].args) = Len(macroDefs[inputs[Top.in].mac].args)
         /\ Len(inputs[Top.in].expandedArgs) = Len(inputs[Top.in].args)
         /\ IsMacro(inputStack[Len(inputStack)]) /\ inputStack[Len(inputStack)] = Top
<1>1. Top.in \in DOMAIN inputs
  BY TopIs DEF StackOK, IsMacro
<1>2. inputs[Top.in] \in Objects /\ Top.in \in Nat
  BY <1>1 DEF TypeOK
<1>3. inputs[Top.in].mac \in Names
  BY <1>2 DEF Objects
<1>4. macroDefs[inputs[Top.in].mac] \in Macros
  BY <1>3 DEF TypeOK
<1>5. IsMacro(inputStack[Len(inputStack)]) /\ inputStack[Len(inputStack)] = Top
  BY TopIs DEF IsMacro
<1> QED BY <1>1, <1>2, <1>3, <1>4, <1>5 DEF ObjectsOK

LEMMA PushArgumentStep ==
  TypeOK /\ ObjectsOK /\ StackOK /\ PushArgument =>
    \E i \in DOMAIN inputs[Top.in].args, e \in BOOLEAN :
      /\ inputStack' = Append(inputStack, TokenInput(Top.in, i, e))
      /\ e => inputs'[Top.in].expandedArgs[i] # NoStream
      /\ Kept(inputs', inputs) /\ StillExpanded(inputs', inputs)
      /\ TokenInput(Top.in, i, e) \in Inputs
<1> SUFFICES ASSUME TypeOK, ObjectsOK, StackOK, PushArgument
    PROVE  \E i \in DOMAIN inputs[Top.in].args, e \in BOOLEAN :
             /\ inputStack' = Append(inputStack, TokenInput(Top.in, i, e))
             /\ e => inputs'[Top.in].expandedArgs[i] # NoStream
             /\ Kept(inputs', inputs) /\ StillExpanded(inputs', inputs)
             /\ TokenInput(Top.in, i, e) \in Inputs
  OBVIOUS
<1> DEFINE o == inputs[Top.in]
           P == Parameter(o.mac, BodyToken(o.mac))
           i == CHOOSE i \in P : TRUE
           e == o.expandedArgs[i] # NoStream
<1>1. /\ P # {} /\ inputStack' = Append(inputStack, TokenInput(Top.in, i, e))
      /\ inputs' = IF e THEN [inputs EXCEPT ![Top.in].expandedArgs[i].at = 1]
                   ELSE [inputs EXCEPT ![Top.in].args[i].at = 1]
      /\ inputStack # <<>> /\ Top.kind = "macro"
  BY DEF PushArgument
<1>2. /\ Top.in \in DOMAIN inputs /\ o \in Objects /\ Top.in \in Nat
      /\ macroDefs[o.mac] \in Macros
      /\ Len(o.args) = Len(macroDefs[o.mac].args) /\ Len(o.expandedArgs) = Len(o.args)
  BY <1>1, MacroOnTop
<1>3. i \in DOMAIN macroDefs[o.mac].args
  BY <1>1 DEF Parameter
<1>4. o.args \in Seq(Streams) /\ o.expandedArgs \in Seq(Streams \cup {NoStream})
  BY <1>2 DEF Objects
<1>5. i \in DOMAIN o.args /\ i \in DOMAIN o.expandedArgs /\ i \in Nat
  <2>1. macroDefs[o.mac].args \in Seq(Tokens)
    BY <1>2 DEF Macros
  <2>2. DOMAIN macroDefs[o.mac].args = 1 .. Len(o.args)
    BY <1>2, <2>1, LenProperties
  <2>3. DOMAIN o.args = 1 .. Len(o.args) /\ DOMAIN o.expandedArgs = 1 .. Len(o.args)
    BY <1>2, <1>4, LenProperties
  <2> QED BY <1>3, <2>2, <2>3
<1>6. e \in BOOLEAN
  OBVIOUS
<1> HIDE DEF i
<1>7. CASE e
  <2> DEFINE x == [o.expandedArgs[i] EXCEPT !.at = 1]
  <2>1. o.expandedArgs[i] \in Streams
    BY <1>4, <1>5, <1>7
  <2>2. x \in Streams
    BY <2>1, Streaming
  <2>3. inputs' = [inputs EXCEPT ![Top.in].expandedArgs[i] = x]
    BY <1>1, <1>7
  <2>4. x # NoStream
    BY <2>1 DEF Streams, NoStream
  <2>5. inputs'[Top.in].expandedArgs[i] = x
    BY <1>2, <1>5, <2>3 DEF Objects
  <2> HIDE DEF x, e, o
  <2>6. Kept(inputs', inputs) /\ StillExpanded(inputs', inputs)
    BY <1>2, <2>2, <2>3, <2>4, ExpandedChanged DEF TypeOK
  <2> USE DEF e, o
  <2> QED BY <1>1, <1>2, <1>5, <1>6, <2>4, <2>5, <2>6 DEF TokenInput, Inputs
<1>8. CASE ~e
  <2> DEFINE x == [o.args[i] EXCEPT !.at = 1]
  <2>1. o.args[i] \in Streams
    BY <1>4, <1>5
  <2>2. x \in Streams
    BY <2>1, Streaming
  <2>3. inputs' = [inputs EXCEPT ![Top.in].args[i] = x]
    BY <1>1, <1>8
  <2> HIDE DEF x, e, o
  <2>4. Kept(inputs', inputs) /\ StillExpanded(inputs', inputs)
    BY <1>2, <2>2, <2>3, ArgChanged DEF TypeOK
  <2> USE DEF e, o
  <2> QED BY <1>1, <1>2, <1>5, <1>6, <1>8, <2>4 DEF TokenInput, Inputs
<1> QED BY <1>7, <1>8

\* What an argument on top of the stack is read from.
LEMMA TokensOnTop ==
  ASSUME TypeOK, ObjectsOK, ArgumentsOK, inputStack # <<>>, Top.kind = "tokens"
  PROVE  /\ Top.in \in DOMAIN inputs /\ StreamOf(Top) \in Streams
         /\ Kept(Advance(Top), inputs) /\ StillExpanded(Advance(Top), inputs)
<1>1. Top = inputStack[Len(inputStack)] /\ Len(inputStack) \in DOMAIN inputStack
  BY TopIs
<1>2. /\ Top.in \in DOMAIN inputs /\ Top.arg \in DOMAIN inputs[Top.in].args
      /\ Top.preExpanded => inputs[Top.in].expandedArgs[Top.arg] # NoStream
  BY <1>1 DEF ArgumentsOK, IsTokens
<1>3. /\ inputs[Top.in].args \in Seq(Streams)
      /\ inputs[Top.in].expandedArgs \in Seq(Streams \cup {NoStream})
      /\ Len(inputs[Top.in].expandedArgs) = Len(inputs[Top.in].args)
      /\ inputs \in [DOMAIN inputs -> Objects]
  BY <1>2 DEF TypeOK, Objects, ObjectsOK
<1>4. CASE Top.preExpanded
  <2> DEFINE s == inputs[Top.in].expandedArgs[Top.arg]
             x == [s EXCEPT !.at = @ + 1]
  <2>1. s \in Streams
    BY <1>2, <1>3, <1>4, LenProperties
  <2>2. x \in Streams /\ x # NoStream
    BY <2>1, Streaming DEF Streams, NoStream
  <2>3. Advance(Top) = [inputs EXCEPT ![Top.in].expandedArgs[Top.arg] = x] /\ StreamOf(Top) = s
    BY <1>4 DEF Advance, StreamOf
  <2> HIDE DEF x, s
  <2>4. /\ Kept([inputs EXCEPT ![Top.in].expandedArgs[Top.arg] = x], inputs)
        /\ StillExpanded([inputs EXCEPT ![Top.in].expandedArgs[Top.arg] = x], inputs)
    BY <1>2, <1>3, <2>2, ExpandedChanged
  <2> QED BY <1>2, <2>1, <2>3, <2>4, Zenon
<1>5. CASE ~Top.preExpanded
  <2> DEFINE s == inputs[Top.in].args[Top.arg]
             x == [s EXCEPT !.at = @ + 1]
  <2>1. s \in Streams
    BY <1>2, <1>3, LenProperties
  <2>2. x \in Streams
    BY <2>1, Streaming
  <2>3. Advance(Top) = [inputs EXCEPT ![Top.in].args[Top.arg] = x] /\ StreamOf(Top) = s
    BY <1>5 DEF Advance, StreamOf
  <2> HIDE DEF x, s
  <2>4. /\ Kept([inputs EXCEPT ![Top.in].args[Top.arg] = x], inputs)
        /\ StillExpanded([inputs EXCEPT ![Top.in].args[Top.arg] = x], inputs)
    BY <1>2, <1>3, <2>2, ArgChanged
  <2> QED BY <1>2, <2>1, <2>3, <2>4, Zenon
<1> QED BY <1>4, <1>5

\* The object of the innermost call.
LEMMA CallsObject ==
  ASSUME TypeOK, CallsOK, calls # <<>>
  PROVE  /\ Call.in \in DOMAIN inputs /\ inputs[Call.in] \in Objects /\ Call.in \in Nat
         /\ inputs[Call.in].args \in Seq(Streams)
         /\ inputs[Call.in].expandedArgs \in Seq(Streams \cup {NoStream})
         /\ inputs[Call.in].mac = Call.mac
         /\ Call.phase \in {"ready", "prescan", "toss"} => Call.count \in Nat \ {0}
<1>1. Call = calls[Len(calls)] /\ Len(calls) \in DOMAIN calls /\ Call \in Calls
  BY CallIs
<1>2. Call.in \in DOMAIN inputs /\ inputs[Call.in].mac = Call.mac
  BY <1>1 DEF CallsOK
<1>3. Call.phase \in {"ready", "prescan", "toss"} => Call.count \in Nat \ {0}
  <2>1. Call.phase \in {"ready", "prescan", "toss"} => Call.count >= 1
    BY <1>1 DEF CallsOK
  <2> QED BY <1>1, <2>1 DEF Calls
<1>4. inputs[Call.in] \in Objects /\ Call.in \in Nat
  BY <1>2 DEF TypeOK
<1> QED BY <1>2, <1>3, <1>4 DEF Objects

LEMMA RecordTokenObjects ==
  TypeOK /\ CallsOK /\ RecordToken => Kept(inputs', inputs) /\ StillExpanded(inputs', inputs)
<1> SUFFICES ASSUME TypeOK, CallsOK, RecordToken
             PROVE  Kept(inputs', inputs) /\ StillExpanded(inputs', inputs)
  OBVIOUS
<1> DEFINE i == Call.count + 1
           s == inputs[Call.in].args[i]
           x == [s EXCEPT !.tokens = Append(@, token)]
<1>1. /\ calls # <<>> /\ token \in Pending /\ ~Ends(token.text)
      /\ inputs' = [inputs EXCEPT ![Call.in].args[i] = x]
  BY DEF RecordToken, InArguments, Looking, CannotBeArgument, TypeOK
<1>2. token \in Readable
  BY <1>1 DEF Pending, Readable, Ends
<1>3. /\ Call.in \in DOMAIN inputs /\ inputs[Call.in].args \in Seq(Streams)
      /\ inputs \in [DOMAIN inputs -> Objects]
  BY <1>1, CallsObject DEF TypeOK
<1>4. CASE i \in 1 .. Len(inputs[Call.in].args)
  <2>1. s \in Streams
    BY <1>3, <1>4
  <2>2. Append(s.tokens, token) \in Seq(Readable)
    BY <1>2, <2>1, AppendIs DEF Streams
  <2>3. x \in Streams
    BY <2>1, <2>2 DEF Streams
  <2> HIDE DEF x, i
  <2> QED BY <1>1, <1>3, <2>3, ArgChanged
<1>5. CASE i \notin 1 .. Len(inputs[Call.in].args)
  <2>1. i \notin DOMAIN inputs[Call.in].args
    BY <1>3, <1>5, LenProperties
  <2> HIDE DEF x, i
  <2>2. [inputs[Call.in].args EXCEPT ![i] = x] = inputs[Call.in].args
    BY <1>3, <2>1
  <2>3. inputs[Call.in] \in Objects
    BY <1>3
  <2>4. [inputs[Call.in] EXCEPT !.args = [@ EXCEPT ![i] = x]] = inputs[Call.in]
    BY <2>2, <2>3 DEF Objects
  <2>5. inputs' = inputs
    BY <1>1, <1>3, <2>4
  <2> QED BY <2>5, NoChange DEF StillExpanded
<1> QED BY <1>4, <1>5

LEMMA PrescanObjects ==
  TypeOK /\ CallsOK /\ PrescanArgument =>
    /\ Kept(inputs', inputs) /\ StillExpanded(inputs', inputs)
    /\ Call.count \in DOMAIN inputs[Call.in].args /\ calls # <<>>
    /\ Call.count <= Len(inputs[Call.in].args)
    /\ {MarkerInput, TokenInput(Call.in, Call.count, FALSE)} \subseteq Inputs
<1> SUFFICES ASSUME TypeOK, CallsOK, PrescanArgument
    PROVE  /\ Kept(inputs', inputs) /\ StillExpanded(inputs', inputs)
           /\ Call.count \in DOMAIN inputs[Call.in].args /\ calls # <<>>
           /\ Call.count <= Len(inputs[Call.in].args)
           /\ {MarkerInput, TokenInput(Call.in, Call.count, FALSE)} \subseteq Inputs
  OBVIOUS
<1> DEFINE s == inputs[Call.in].args[Call.count]
           x == [s EXCEPT !.at = 1]
<1>1. /\ calls # <<>> /\ Call.phase = "ready" /\ Call.count <= Len(inputs[Call.in].args)
      /\ inputs' = [inputs EXCEPT ![Call.in].args[Call.count] = x]
  BY DEF PrescanArgument, Ready, Arity
<1>2. /\ Call.in \in DOMAIN inputs /\ inputs[Call.in].args \in Seq(Streams) /\ Call.in \in Nat
      /\ inputs \in [DOMAIN inputs -> Objects] /\ Call.count \in Nat \ {0}
  BY <1>1, CallsObject DEF TypeOK
<1>3. Call.count \in DOMAIN inputs[Call.in].args
  BY <1>1, <1>2
<1>4. s \in Streams
  BY <1>2, <1>3
<1>5. x \in Streams
  BY <1>4, Streaming
<1>6. {MarkerInput, TokenInput(Call.in, Call.count, FALSE)} \subseteq Inputs
  BY <1>2 DEF MarkerInput, TokenInput, Inputs
<1> HIDE DEF x
<1> QED BY <1>1, <1>2, <1>3, <1>5, <1>6, ArgChanged

LEMMA EndPrescanObjects ==
  TypeOK /\ CallsOK /\ EndPrescan =>
    Kept(inputs', inputs) /\ \A id \in DOMAIN inputs : id # Call.in => inputs'[id] = inputs[id]
<1> SUFFICES ASSUME TypeOK, CallsOK, EndPrescan
    PROVE  Kept(inputs', inputs) /\ \A id \in DOMAIN inputs : id # Call.in => inputs'[id] = inputs[id]
  OBVIOUS
<1> DEFINE x == IF token.text = Marker THEN Stream(Call.output) ELSE NoStream
<1>1. calls # <<>> /\ inputs' = [inputs EXCEPT ![Call.in].expandedArgs[Call.count] = x]
  BY DEF EndPrescan
<1>2. /\ Call.in \in DOMAIN inputs /\ inputs \in [DOMAIN inputs -> Objects]
      /\ Call.output \in Seq(Readable)
  BY <1>1, CallsObject, CallParts DEF TypeOK
<1>3. x \in Streams \cup {NoStream}
  BY <1>2 DEF Stream, Streams
<1> HIDE DEF x
<1> QED BY <1>1, <1>2, <1>3, ExpandedChanged

ObjectsTyped(f) == f \in [DOMAIN f -> Objects] /\ IsFiniteSet(DOMAIN f) /\ DOMAIN f \subseteq Nat

LEMMA KeptTyped == ASSUME TypeOK, NEW f, Kept(f, inputs) PROVE ObjectsTyped(f)
BY DEF TypeOK, Kept, ObjectsTyped

LEMMA DestroyedIs ==
  ASSUME TypeOK, NEW id
  PROVE  /\ ObjectsTyped(Destroyed(id)) /\ DOMAIN Destroyed(id) = DOMAIN inputs \ {id}
         /\ \A j \in DOMAIN inputs : j # id => Destroyed(id)[j] = inputs[j]
<1>1. IsFiniteSet(DOMAIN inputs \ {id})
  BY FS_Subset DEF TypeOK
<1>2. DOMAIN Destroyed(id) = DOMAIN inputs \ {id}
  BY DEF Destroyed
<1> QED BY <1>1, <1>2 DEF TypeOK, ObjectsTyped, Destroyed

LEMMA NewTyped ==
  ASSUME TypeOK, NEW m \in Names, NEW n \in Nat PROVE ObjectsTyped(NewInput(m, n))
<1> DEFINE new == NewInput(m, n)
<1>1. new \in [DOMAIN new -> Objects] /\ DOMAIN new = DOMAIN inputs \cup {NewId}
  BY NewInputIs
<1>2. NewId \in Nat
  BY NewIdIs
<1>3. IsFiniteSet(DOMAIN inputs \cup {NewId})
  BY FS_AddElement DEF TypeOK
<1> HIDE DEF new
<1> QED BY <1>1, <1>2, <1>3 DEF TypeOK, ObjectsTyped, new

\* The macro that is expanded has a name and parameters.
LEMMA ExpandableIs ==
  TypeOK /\ Expandable =>
    /\ token.text \in Names /\ macroDefs[token.text] \in Macros /\ ~busy[token.text]
    /\ Len(macroDefs[token.text].args) \in Nat
    /\ ~macroDefs[token.text].functionLike => Len(macroDefs[token.text].args) = 0
<1> SUFFICES ASSUME TypeOK, Expandable
    PROVE  /\ token.text \in Names /\ macroDefs[token.text] \in Macros /\ ~busy[token.text]
           /\ Len(macroDefs[token.text].args) \in Nat
           /\ ~macroDefs[token.text].functionLike => Len(macroDefs[token.text].args) = 0
  OBVIOUS
<1>1. token.text \in Names /\ ~busy[token.text]
  BY DEF Expandable
<1>2. macroDefs[token.text] \in Macros
  BY <1>1 DEF TypeOK
<1>3. macroDefs[token.text].args \in Seq(Tokens)
  BY <1>2 DEF Macros
<1>4. ~macroDefs[token.text].functionLike => macroDefs[token.text].args = <<>>
  BY <1>2 DEF Macros
<1> QED BY <1>1, <1>2, <1>3, <1>4, LenProperties

LEMMA InputsType ==
  TypeOK /\ ObjectsOK /\ CallsOK /\ StackOK /\ ArgumentsOK /\ Next => ObjectsTyped(inputs')
<1> SUFFICES ASSUME TypeOK, ObjectsOK, CallsOK, StackOK, ArgumentsOK, Next
             PROVE  ObjectsTyped(inputs')
  OBVIOUS
<1>1. CASE inputs' = inputs
  BY <1>1 DEF TypeOK, ObjectsTyped
<1>2. CASE PopInput /\ Top.kind = "macro"
  BY <1>2, DestroyedIs DEF PopInput, Destroyed
<1>3. CASE NotACall \/ AbandonCall
  BY <1>3, DestroyedIs DEF NotACall, AbandonCall
<1>4. CASE ExpandObject
  <2>1. inputs' = NewInput(token.text, 0) /\ token.text \in Names
    BY <1>4 DEF ExpandObject, Expandable
  <2> QED BY <2>1, NewTyped
<1>5. CASE BeginCall
  <2>1. inputs' = NewInput(token.text, Len(macroDefs[token.text].args)) /\ Expandable
    BY <1>5 DEF BeginCall
  <2> QED BY <2>1, ExpandableIs, NewTyped
<1>6. CASE PushArgument
  BY <1>6, PushArgumentStep, KeptTyped
<1>7. CASE TakeToken /\ Top.kind = "tokens"
  <2>1. inputStack # <<>> /\ inputs' = Advance(Top)
    BY <1>7 DEF TakeToken
  <2> QED BY <1>7, <2>1, TokensOnTop, KeptTyped
<1>8. CASE RecordToken \/ PrescanArgument \/ EndPrescan
  BY <1>8, RecordTokenObjects, PrescanObjects, EndPrescanObjects, KeptTyped
<1>9. \/ inputs' = inputs \/ (PopInput /\ Top.kind = "macro") \/ NotACall \/ AbandonCall
      \/ ExpandObject \/ BeginCall \/ PushArgument \/ (TakeToken /\ Top.kind = "tokens")
      \/ RecordToken \/ PrescanArgument \/ EndPrescan
  BY DEF Next, Scan, PopInput, TakeToken, NoInput, Emit, Define, Stop, MacroExpand, Parenthesis,
     EndArgument, Recover, TossArgument, ExpandCall
<1> QED BY <1>1, <1>2, <1>3, <1>4, <1>5, <1>6, <1>7, <1>8, <1>9

(***************************************************************************)
(* What the actions do to the stack.                                       *)
(***************************************************************************)
LEMMA Pushed ==
  ASSUME TypeOK, NEW x \in Inputs
  PROVE  LET s == Append(inputStack, x) IN
         /\ s \in Seq(Inputs) /\ Len(s) = Len(inputStack) + 1 /\ Len(inputStack) \in Nat
         /\ DOMAIN s = 1 .. Len(inputStack) + 1 /\ DOMAIN inputStack = 1 .. Len(inputStack)
         /\ \A i \in 1 .. Len(inputStack) : s[i] = inputStack[i]
         /\ s[Len(inputStack) + 1] = x
BY AppendIs DEF TypeOK

LEMMA PrescanPush ==
  TypeOK /\ CallsOK /\ PrescanArgument =>
    LET n == Len(inputStack) IN
    /\ inputStack' \in Seq(Inputs) /\ Len(inputStack') = n + 2 /\ n \in Nat
    /\ DOMAIN inputStack' = 1 .. n + 2 /\ DOMAIN inputStack = 1 .. n
    /\ \A i \in 1 .. n : inputStack'[i] = inputStack[i]
    /\ inputStack'[n + 1] = MarkerInput
    /\ inputStack'[n + 2] = TokenInput(Call.in, Call.count, FALSE)
<1> SUFFICES ASSUME TypeOK, CallsOK, PrescanArgument
    PROVE  LET n == Len(inputStack) IN
           /\ inputStack' \in Seq(Inputs) /\ Len(inputStack') = n + 2 /\ n \in Nat
           /\ DOMAIN inputStack' = 1 .. n + 2 /\ DOMAIN inputStack = 1 .. n
           /\ \A i \in 1 .. n : inputStack'[i] = inputStack[i]
           /\ inputStack'[n + 1] = MarkerInput
           /\ inputStack'[n + 2] = TokenInput(Call.in, Call.count, FALSE)
  OBVIOUS
<1> DEFINE x == TokenInput(Call.in, Call.count, FALSE)
<1>1. inputStack' = inputStack \o <<MarkerInput, x>>
  BY DEF PrescanArgument
<1>2. MarkerInput \in Inputs /\ x \in Inputs
  BY PrescanObjects
<1> HIDE DEF x
<1>3. <<MarkerInput, x>> \in Seq(Inputs) /\ Len(<<MarkerInput, x>>) = 2
  BY <1>2
<1>4. inputStack \in Seq(Inputs) /\ Len(inputStack) \in Nat /\ DOMAIN inputStack = 1 .. Len(inputStack)
  BY LenProperties DEF TypeOK
<1> DEFINE two == <<MarkerInput, x>>
<1>5. two[1] = MarkerInput /\ two[2] = x /\ two \in Seq(Inputs) /\ Len(two) = 2
  BY <1>3
<1> HIDE DEF two
<1>6. /\ inputStack' \in Seq(Inputs) /\ Len(inputStack') = Len(inputStack) + 2
      /\ \A i \in 1 .. Len(inputStack) + 2 :
           inputStack'[i] = IF i <= Len(inputStack) THEN inputStack[i] ELSE two[i - Len(inputStack)]
  <2>1. inputStack' = inputStack \o two
    BY <1>1 DEF two
  <2>2. /\ inputStack \o two \in Seq(Inputs)
        /\ Len(inputStack \o two) = Len(inputStack) + Len(two)
        /\ \A i \in 1 .. Len(inputStack) + Len(two) :
             (inputStack \o two)[i]
               = IF i <= Len(inputStack) THEN inputStack[i] ELSE two[i - Len(inputStack)]
    BY <1>4, <1>5, ConcatProperties, Zenon
  <2>3. Len(two) = 2
    BY <1>5
  <2> QED BY <2>1, <2>2, <2>3, Zenon
<1>7. DOMAIN inputStack' = 1 .. Len(inputStack) + 2
  BY <1>6, LenProperties
<1>8. inputStack'[Len(inputStack) + 1] = MarkerInput /\ inputStack'[Len(inputStack) + 2] = x
  BY <1>4, <1>5, <1>6
<1>9. \A i \in 1 .. Len(inputStack) : inputStack'[i] = inputStack[i]
  BY <1>4, <1>6
<1> QED BY <1>4, <1>6, <1>7, <1>8, <1>9 DEF x

(* A marker, or what was put back, is used up.                               *)
LEMMA UsedIs ==
  ASSUME TypeOK, inputStack # <<>>, Top.kind \in {"marker", "ungot"}
  PROVE  /\ Used \in Seq(Inputs) /\ Len(Used) = Len(inputStack)
         /\ \A i \in DOMAIN inputStack : i # Len(inputStack) => Used[i] = inputStack[i]
         /\ Used[Len(inputStack)] = [Top EXCEPT !.done = TRUE]
         /\ [Top EXCEPT !.done = TRUE].kind = Top.kind
         /\ Top.kind = "ungot" => [Top EXCEPT !.done = TRUE].token = Top.token
<1> DEFINE x == [Top EXCEPT !.done = TRUE]
<1>1. Top = inputStack[Len(inputStack)] /\ Top \in Inputs
  BY TopIs
<1>2. x \in Inputs /\ x.kind = Top.kind /\ (Top.kind = "ungot" => x.token = Top.token)
  BY <1>1 DEF Inputs
<1>3. Used = [inputStack EXCEPT ![Len(inputStack)] = x]
  BY <1>1 DEF Used
<1> HIDE DEF x
<1>4. inputStack \in Seq(Inputs)
  BY DEF TypeOK
<1>5. /\ Used \in Seq(Inputs) /\ Len(Used) = Len(inputStack) /\ Used[Len(inputStack)] = x
      /\ \A i \in DOMAIN inputStack : i # Len(inputStack) => Used[i] = inputStack[i]
  BY <1>2, <1>3, <1>4, ReplaceLast
<1> QED BY <1>2, <1>5 DEF x

LEMMA StackType ==
  TypeOK /\ ObjectsOK /\ CallsOK /\ StackOK /\ Next => inputStack' \in Seq(Inputs)
<1> SUFFICES ASSUME TypeOK, ObjectsOK, CallsOK, StackOK, Next PROVE inputStack' \in Seq(Inputs)
  OBVIOUS
<1>1. CASE inputStack' = inputStack
  BY <1>1 DEF TypeOK
<1>2. CASE PopInput
  BY <1>2, FrontIs DEF PopInput, TypeOK
<1>3. CASE PushArgument
  BY <1>3, PushArgumentStep, Pushed
<1>4. CASE PrescanArgument
  BY <1>4, PrescanPush
<1>5. CASE ExpandObject
  <2>1. inputStack' = Append(inputStack, MacroInput(NewId)) /\ NewId \in Nat
    BY <1>5, NewIdIs DEF ExpandObject, StartExpansion
  <2>2. MacroInput(NewId) \in Inputs
    BY <2>1 DEF MacroInput, Inputs
  <2> QED BY <2>1, <2>2, Pushed
<1>6. CASE ExpandCall
  <2>1. inputStack' = Append(inputStack, MacroInput(Call.in)) /\ Call.in \in Nat
    BY <1>6, CallsObject DEF ExpandCall, StartExpansion, Ready
  <2>2. MacroInput(Call.in) \in Inputs
    BY <2>1 DEF MacroInput, Inputs
  <2> QED BY <2>1, <2>2, Pushed
<1>7. CASE NotACall
  <2>1. inputStack' = Append(inputStack, UngotInput(token)) /\ token \in Pending
    BY <1>7 DEF NotACall, TypeOK
  <2>2. UngotInput(token) \in Inputs
    BY <2>1 DEF UngotInput, Inputs
  <2> QED BY <2>1, <2>2, Pushed
<1>8. CASE TakeToken /\ Top.kind \in {"marker", "ungot"}
  <2>1. inputStack # <<>> /\ inputStack' = Used
    BY <1>8 DEF TakeToken
  <2> QED BY <1>8, <2>1, UsedIs
<1>9. \/ inputStack' = inputStack \/ PopInput \/ PushArgument \/ PrescanArgument \/ ExpandObject
      \/ ExpandCall \/ NotACall \/ (TakeToken /\ Top.kind \in {"marker", "ungot"})
  BY DEF Next, Scan, TakeToken, NoInput, Emit, Define, Stop, MacroExpand, BeginCall, Parenthesis,
     RecordToken, EndArgument, Recover, AbandonCall, TossArgument, EndPrescan
<1> QED BY <1>1, <1>2, <1>3, <1>4, <1>5, <1>6, <1>7, <1>8, <1>9

LEMMA TypeNext ==
  TypeOK /\ ObjectsOK /\ CallsOK /\ StackOK /\ ArgumentsOK /\ Next => TypeOK'
<1> SUFFICES ASSUME TypeOK, ObjectsOK, CallsOK, StackOK, ArgumentsOK, Next PROVE TypeOK'
  OBVIOUS
<1>1. /\ text' \in Seq(Tokens \cup Directives) /\ macroDefs' \in [Names -> Macros]
      /\ busy' \in [Names -> BOOLEAN] /\ at' \in [Names -> Nat \ {0}]
  BY TextType, MacroDefsType, BusyType, AtType
<1>2. token' \in Pending \cup {NoToken} /\ calls' \in Seq(Calls) /\ inputStack' \in Seq(Inputs)
  BY TokenType, CallsType, StackType
<1>3. ObjectsTyped(inputs')
  BY InputsType
<1> QED BY <1>1, <1>2, <1>3 DEF TypeOK, ObjectsTyped

(***************************************************************************)
(* Steps that leave the shape as it is: the same inputs, as far as macros   *)
(* and arguments go, the same calls, and the same objects.                 *)
(***************************************************************************)
SameStack(s, t) ==
  /\ Len(s) = Len(t)
  /\ \A i \in 1 .. Len(t) :
       s[i].kind = t[i].kind /\ (t[i].kind \in {"macro", "tokens"} => s[i] = t[i])
SameShape ==
  /\ SameStack(inputStack', inputStack) /\ Alike(calls', calls) /\ Kept(inputs', inputs)

\* A last call of a phase and count that CallsOK allows.
LastOK(c, f) ==
  c # <<>> =>
    LET l == c[Len(c)] IN
    /\ l.phase \in {"ready", "prescan", "toss"} => l.count >= 1
    /\ l.phase \in {"prescan", "toss"} => l.count <= Len(f[l.in].args)

LEMMA Domains ==
  TypeOK => /\ DOMAIN inputStack = 1 .. Len(inputStack) /\ DOMAIN calls = 1 .. Len(calls)
            /\ Len(inputStack) \in Nat /\ Len(calls) \in Nat
BY LenProperties DEF TypeOK

LEMMA Domains2 ==
  TypeOK' => /\ DOMAIN inputStack' = 1 .. Len(inputStack') /\ DOMAIN calls' = 1 .. Len(calls')
             /\ Len(inputStack') \in Nat /\ Len(calls') \in Nat
BY LenProperties DEF TypeOK

LEMMA SameViews ==
  ASSUME TypeOK, TypeOK', SameShape, StackOK
  PROVE  /\ DOMAIN inputStack' = DOMAIN inputStack /\ DOMAIN calls' = DOMAIN calls
         /\ DOMAIN inputs' = DOMAIN inputs
         /\ \A i \in DOMAIN inputStack :
              /\ inputStack'[i].kind = inputStack[i].kind
              /\ IsMacro(inputStack[i]) \/ IsTokens(inputStack[i]) => inputStack'[i] = inputStack[i]
              /\ IsMacro(inputStack[i]) =>
                   MacroOf(inputs', inputStack'[i]) = MacroOf(inputs, inputStack[i])
         /\ \A k \in DOMAIN calls : calls'[k].in = calls[k].in /\ calls'[k].mac = calls[k].mac
         /\ \A id : OwnedByCall(calls', id) <=> OwnedByCall(calls, id)
         /\ \A id, i : ExpandedBelow(inputStack', id, i) <=> ExpandedBelow(inputStack, id, i)
<1>1. DOMAIN inputStack' = DOMAIN inputStack /\ DOMAIN calls' = DOMAIN calls
  BY Domains, Domains2 DEF SameShape, SameStack, Alike
<1>2. DOMAIN inputs' = DOMAIN inputs
  BY DEF SameShape, Kept
<1>3. \A i \in DOMAIN inputStack :
        /\ inputStack'[i].kind = inputStack[i].kind
        /\ IsMacro(inputStack[i]) \/ IsTokens(inputStack[i]) => inputStack'[i] = inputStack[i]
  BY Domains DEF SameShape, SameStack, IsMacro, IsTokens
<1>4. ASSUME NEW i \in DOMAIN inputStack, IsMacro(inputStack[i])
      PROVE  MacroOf(inputs', inputStack'[i]) = MacroOf(inputs, inputStack[i])
  <2>1. inputStack'[i] = inputStack[i] /\ inputStack[i].in \in DOMAIN inputs
    BY <1>3, <1>4 DEF StackOK
  <2> QED BY <2>1 DEF MacroOf, SameShape, Kept
<1>5. \A k \in DOMAIN calls : calls'[k].in = calls[k].in /\ calls'[k].mac = calls[k].mac
  BY Domains DEF SameShape, Alike
<1>6. \A id : OwnedByCall(calls', id) <=> OwnedByCall(calls, id)
  BY <1>1, <1>5 DEF OwnedByCall
<1>7. \A id, i : ExpandedBelow(inputStack', id, i) <=> ExpandedBelow(inputStack, id, i)
  BY <1>1, <1>3 DEF ExpandedBelow, IsMacro
<1> QED BY <1>1, <1>2, <1>3, <1>4, <1>5, <1>6, <1>7

LEMMA ObjectsKept ==
  ASSUME ObjectsOK, Kept(inputs', inputs), macroDefs' = macroDefs
  PROVE  ObjectsOK'
BY DEF ObjectsOK, Kept

LEMMA CallsKept ==
  ASSUME TypeOK, TypeOK', CallsOK, Alike(calls', calls), Kept(inputs', inputs), LastOK(calls', inputs')
  PROVE  CallsOK'
<1>1. DOMAIN calls' = DOMAIN calls /\ DOMAIN calls = 1 .. Len(calls) /\ Len(calls') = Len(calls)
      /\ Len(calls) \in Nat
  BY Domains, Domains2 DEF Alike
<1> SUFFICES ASSUME NEW k \in 1 .. Len(calls)
    PROVE  /\ calls'[k].in \in DOMAIN inputs' /\ inputs'[calls'[k].in].mac = calls'[k].mac
           /\ k < Len(calls) => calls'[k].phase = "prescan"
           /\ calls'[k].phase \in {"ready", "prescan", "toss"} => calls'[k].count >= 1
           /\ calls'[k].phase \in {"prescan", "toss"} =>
                calls'[k].count <= Len(inputs'[calls'[k].in].args)
           /\ \A l \in 1 .. Len(calls) : calls'[l].in = calls'[k].in => l = k
  BY <1>1 DEF CallsOK, Prescanning
<1>2. calls'[k].in = calls[k].in /\ calls'[k].mac = calls[k].mac
  BY DEF Alike
<1>3. /\ calls[k].in \in DOMAIN inputs /\ inputs[calls[k].in].mac = calls[k].mac
      /\ k < Len(calls) => calls[k].phase = "prescan"
      /\ calls[k].phase \in {"ready", "prescan", "toss"} => calls[k].count >= 1
      /\ calls[k].phase \in {"prescan", "toss"} => calls[k].count <= Len(inputs[calls[k].in].args)
      /\ \A l \in 1 .. Len(calls) : calls[l].in = calls[k].in => l = k
  BY <1>1 DEF CallsOK, Prescanning
<1>4. calls'[k].in \in DOMAIN inputs' /\ inputs'[calls'[k].in].mac = calls'[k].mac
  BY <1>2, <1>3 DEF Kept
<1>5. \A l \in 1 .. Len(calls) : calls'[l].in = calls'[k].in => l = k
  BY <1>3 DEF Alike
<1>6. CASE k < Len(calls)
  <2>1. calls'[k].phase = calls[k].phase /\ calls'[k].count = calls[k].count
    BY <1>6 DEF Alike
  <2>2. Len(inputs'[calls'[k].in].args) = Len(inputs[calls[k].in].args)
    BY <1>2, <1>3 DEF Kept
  <2> QED BY <1>3, <1>4, <1>5, <2>1, <2>2
<1>7. CASE ~(k < Len(calls))
  <2>1. k = Len(calls')
    <3>1. Len(calls) \in Nat /\ Len(calls') = Len(calls)
      BY <1>1, Zenon
    <3> QED BY <1>7, <3>1, UpToLast
  <2>2. calls' # <<>>
    <3>1. Len(calls') # 0
      BY <1>1
    <3> QED BY <3>1
  <2> QED BY <1>4, <1>5, <1>7, <2>1, <2>2 DEF LastOK
<1> QED BY <1>6, <1>7

LEMMA ShapeKept ==
  ASSUME TypeOK, TypeOK', ObjectsOK, OwnersOK, StackOK, ArgumentsOK, SameShape, busy' = busy,
         \A i \in DOMAIN inputStack : IsTokens(inputStack[i]) =>
           LET f == inputs[inputStack[i].in] g == inputs'[inputStack[i].in] IN
           \A a \in DOMAIN f.expandedArgs :
             f.expandedArgs[a] # NoStream => g.expandedArgs[a] # NoStream
  PROVE  OwnersOK' /\ StackOK' /\ ArgumentsOK'
<1> DEFINE D == DOMAIN inputStack
<1>1. /\ DOMAIN inputStack' = DOMAIN inputStack /\ DOMAIN calls' = DOMAIN calls
      /\ DOMAIN inputs' = DOMAIN inputs
      /\ \A id : OwnedByCall(calls', id) <=> OwnedByCall(calls, id)
      /\ \A id, i : ExpandedBelow(inputStack', id, i) <=> ExpandedBelow(inputStack, id, i)
  BY SameViews
<1>2. \A i \in DOMAIN inputStack :
        /\ inputStack'[i].kind = inputStack[i].kind
        /\ IsMacro(inputStack'[i]) = IsMacro(inputStack[i])
        /\ IsTokens(inputStack'[i]) = IsTokens(inputStack[i])
        /\ IsMacro(inputStack[i]) \/ IsTokens(inputStack[i]) => inputStack'[i] = inputStack[i]
        /\ IsMacro(inputStack[i]) =>
             MacroOf(inputs', inputStack'[i]) = MacroOf(inputs, inputStack[i])
  BY SameViews DEF IsMacro, IsTokens
<1>3. Len(inputStack') = Len(inputStack)
  BY DEF SameShape, SameStack
<1>4. OwnersOK'
  <2>1. \A id \in DOMAIN inputs' :
          OwnedByCall(calls', id) \/ ExpandedBelow(inputStack', id, Len(inputStack') + 1)
    BY <1>1, <1>3 DEF OwnersOK
  <2>2. \A m \in Names : busy'[m] =>
          \E i \in DOMAIN inputStack' : IsMacro(inputStack'[i]) /\ MacroOf(inputs', inputStack'[i]) = m
    BY <1>1, <1>2 DEF OwnersOK
  <2> QED BY <2>1, <2>2 DEF OwnersOK
<1>5. StackOK'
  <2>1. \A i \in D : inputStack'[i].kind = "string" => i = 1
    BY <1>2 DEF StackOK
  <2>2. ASSUME NEW i \in D, IsMacro(inputStack'[i])
        PROVE  /\ inputStack'[i].in \in DOMAIN inputs' /\ busy'[MacroOf(inputs', inputStack'[i])]
               /\ ~OwnedByCall(calls', inputStack'[i].in)
               /\ \A j \in D :
                    IsMacro(inputStack'[j])
                      /\ MacroOf(inputs', inputStack'[j]) = MacroOf(inputs', inputStack'[i]) => j = i
    <3>1. IsMacro(inputStack[i]) /\ inputStack'[i] = inputStack[i]
          /\ MacroOf(inputs', inputStack'[i]) = MacroOf(inputs, inputStack[i])
      BY <1>2, <2>2
    <3>2. /\ inputStack[i].in \in DOMAIN inputs /\ busy[MacroOf(inputs, inputStack[i])]
          /\ ~OwnedByCall(calls, inputStack[i].in)
          /\ \A j \in D : IsMacro(inputStack[j])
               /\ MacroOf(inputs, inputStack[j]) = MacroOf(inputs, inputStack[i]) => j = i
      BY <3>1 DEF StackOK
    <3> QED BY <1>1, <1>2, <3>1, <3>2
  <2> QED BY <1>1, <2>1, <2>2 DEF StackOK
<1>6. ArgumentsOK'
  <2>1. SUFFICES ASSUME NEW i \in D, IsTokens(inputStack'[i])
        PROVE  /\ inputStack'[i].in \in DOMAIN inputs'
               /\ inputStack'[i].arg \in DOMAIN inputs'[inputStack'[i].in].args
               /\ inputStack'[i].preExpanded =>
                    inputs'[inputStack'[i].in].expandedArgs[inputStack'[i].arg] # NoStream
               /\ \/ OwnedByCall(calls', inputStack'[i].in) /\ ~inputStack'[i].preExpanded
                  \/ ExpandedBelow(inputStack', inputStack'[i].in, i)
               /\ \A j \in D :
                    IsTokens(inputStack'[j]) /\ inputStack'[j].in = inputStack'[i].in => j = i
    BY <1>1 DEF ArgumentsOK
  <2>2. IsTokens(inputStack[i]) /\ inputStack'[i] = inputStack[i]
    BY <1>2, <2>1
  <2> DEFINE x == inputStack[i]
  <2>3. /\ x.in \in DOMAIN inputs /\ x.arg \in DOMAIN inputs[x.in].args
        /\ x.preExpanded => inputs[x.in].expandedArgs[x.arg] # NoStream
        /\ \/ OwnedByCall(calls, x.in) /\ ~x.preExpanded
           \/ ExpandedBelow(inputStack, x.in, i)
        /\ \A j \in D : IsTokens(inputStack[j]) /\ inputStack[j].in = x.in => j = i
    BY <2>2 DEF ArgumentsOK
  <2>4. /\ inputs[x.in].args \in Seq(Streams) /\ inputs'[x.in].args \in Seq(Streams)
        /\ inputs[x.in].expandedArgs \in Seq(Streams \cup {NoStream})
        /\ Len(inputs[x.in].expandedArgs) = Len(inputs[x.in].args)
        /\ Len(inputs'[x.in].args) = Len(inputs[x.in].args)
    BY <2>3 DEF TypeOK, Objects, ObjectsOK, SameShape, Kept
  <2>5. /\ DOMAIN inputs'[x.in].args = DOMAIN inputs[x.in].args
        /\ DOMAIN inputs[x.in].expandedArgs = DOMAIN inputs[x.in].args
    BY <2>4, LenProperties
  <2>6. x.preExpanded => inputs'[x.in].expandedArgs[x.arg] # NoStream
    BY <2>2, <2>3, <2>5
  <2>7. \/ OwnedByCall(calls', x.in) /\ ~x.preExpanded
        \/ ExpandedBelow(inputStack', x.in, i)
    BY <1>1, <2>3, Zenon
  <2>8. \A j \in D : IsTokens(inputStack'[j]) /\ inputStack'[j].in = x.in => j = i
    BY <1>2, <2>3
  <2> HIDE DEF x
  <2>9. inputStack'[i] = x
    BY <2>2 DEF x
  <2>10. x.in \in DOMAIN inputs' /\ x.arg \in DOMAIN inputs'[x.in].args
    BY <1>1, <2>3, <2>5
  <2> QED BY <2>6, <2>7, <2>8, <2>9, <2>10
<1> QED BY <1>4, <1>5, <1>6

(***************************************************************************)
(* The markers after a step.                                               *)
(***************************************************************************)
\* Who owns a marker that is not live does not matter.
LEMMA MarkersMade ==
  ASSUME TypeOK', NEW owner, MarkersOf(owner, inputStack', token', calls', inputs')
  PROVE  MarkersOK'
<1> DEFINE L(i) == Live(inputStack', token', i)
           o == [i \in DOMAIN inputStack' |-> IF L(i) THEN owner[i] ELSE 0]
<1> HIDE DEF L
<1>1. /\ \A i \in DOMAIN inputStack' : L(i) => owner[i] \in DOMAIN calls' /\ Prescanning(calls'[owner[i]])
      /\ \A i, j \in DOMAIN inputStack' : L(i) /\ L(j) /\ i < j => owner[i] < owner[j]
      /\ \A i \in DOMAIN inputStack', k \in DOMAIN calls' :
           PushedFor(inputs', inputStack'[i], calls'[k]) =>
             /\ Prescanning(calls'[k])
             /\ \A j \in DOMAIN inputStack' : L(j) /\ j > i => owner[j] > k
  BY DEF MarkersOf, Above, L
<1>2. DOMAIN calls' \subseteq 0 .. Len(calls') /\ 0 \in 0 .. Len(calls')
  BY Domains2
<1>3. \A i \in DOMAIN inputStack' : L(i) => o[i] = owner[i]
  OBVIOUS
<1>4. o \in [DOMAIN inputStack' -> 0 .. Len(calls')]
  BY <1>1, <1>2
<1> HIDE DEF o
<1>5. /\ \A i \in DOMAIN inputStack' : L(i) => o[i] \in DOMAIN calls' /\ Prescanning(calls'[o[i]])
      /\ \A i, j \in DOMAIN inputStack' : L(i) /\ L(j) /\ i < j => o[i] < o[j]
      /\ \A i \in DOMAIN inputStack', k \in DOMAIN calls' :
           PushedFor(inputs', inputStack'[i], calls'[k]) =>
             /\ Prescanning(calls'[k])
             /\ \A j \in DOMAIN inputStack' : L(j) /\ j > i => o[j] > k
  BY <1>1, <1>3, Zenon
<1>6. MarkersOf(o, inputStack', token', calls', inputs')
  BY <1>5 DEF MarkersOf, Above, L
<1> QED BY <1>4, <1>6 DEF MarkersOK

\* Markers that are live were live, their calls go on, and what is pushed for a
\* call was so before or is above all live markers.
LEMMA MarkersStay ==
  ASSUME TypeOK', NEW owner, MarkersOf(owner, inputStack, token, calls, inputs),
         \A i \in DOMAIN inputStack' : Live(inputStack', token', i) =>
           /\ i \in DOMAIN inputStack /\ Live(inputStack, token, i)
           /\ owner[i] \in DOMAIN calls' /\ Prescanning(calls'[owner[i]]),
         \A i \in DOMAIN inputStack', k \in DOMAIN calls' :
           PushedFor(inputs', inputStack'[i], calls'[k]) =>
             /\ Prescanning(calls'[k])
             /\ \/ /\ i \in DOMAIN inputStack /\ k \in DOMAIN calls
                   /\ PushedFor(inputs, inputStack[i], calls[k])
                \/ \A j \in DOMAIN inputStack' : j > i => ~Live(inputStack', token', j)
  PROVE  MarkersOK'
<1> DEFINE M(j) == Live(inputStack', token', j)
           L(j) == Live(inputStack, token, j)
<1> HIDE DEF M, L
<1>1. \A i \in DOMAIN inputStack' : M(i) =>
        /\ i \in DOMAIN inputStack /\ L(i)
        /\ owner[i] \in DOMAIN calls' /\ Prescanning(calls'[owner[i]])
  BY DEF M, L
<1>2. /\ \A i, j \in DOMAIN inputStack : L(i) /\ L(j) /\ i < j => owner[i] < owner[j]
      /\ \A i \in DOMAIN inputStack, k \in DOMAIN calls :
           PushedFor(inputs, inputStack[i], calls[k]) =>
             \A j \in DOMAIN inputStack : L(j) /\ j > i => owner[j] > k
  BY DEF MarkersOf, Above, L
<1>3. ASSUME NEW i \in DOMAIN inputStack', NEW k \in DOMAIN calls',
             PushedFor(inputs', inputStack'[i], calls'[k])
      PROVE  /\ Prescanning(calls'[k])
             /\ \A j \in DOMAIN inputStack' : M(j) /\ j > i => owner[j] > k
  <2>1. /\ Prescanning(calls'[k])
        /\ \/ /\ i \in DOMAIN inputStack /\ k \in DOMAIN calls
              /\ PushedFor(inputs, inputStack[i], calls[k])
           \/ \A j \in DOMAIN inputStack' : j > i => ~M(j)
    BY <1>3, Zenon DEF M
  <2> QED BY <1>1, <1>2, <2>1, Zenon
<1>4. MarkersOf(owner, inputStack', token', calls', inputs')
  BY <1>1, <1>2, <1>3 DEF MarkersOf, Above, M
<1> QED BY <1>4, MarkersMade

\* The usual case: the shape stays, and a call that prescans goes on to do so.
LEMMA MarkersKept ==
  ASSUME TypeOK, TypeOK', StackOK, MarkersOK, SameShape,
         \A i \in DOMAIN inputStack : Live(inputStack', token', i) => Live(inputStack, token, i),
         \A k \in DOMAIN calls : Prescanning(calls[k]) => Prescanning(calls'[k])
  PROVE  MarkersOK'
<1>1. PICK owner : MarkersOf(owner, inputStack, token, calls, inputs)
  BY DEF MarkersOK
<1>2. /\ DOMAIN inputStack' = DOMAIN inputStack /\ DOMAIN calls' = DOMAIN calls
      /\ \A i \in DOMAIN inputStack :
           /\ inputStack'[i].kind = inputStack[i].kind
           /\ IsMacro(inputStack[i]) \/ IsTokens(inputStack[i]) => inputStack'[i] = inputStack[i]
           /\ IsMacro(inputStack[i]) =>
                MacroOf(inputs', inputStack'[i]) = MacroOf(inputs, inputStack[i])
      /\ \A k \in DOMAIN calls : calls'[k].in = calls[k].in /\ calls'[k].mac = calls[k].mac
  BY SameViews
<1>3. ASSUME NEW i \in DOMAIN inputStack', Live(inputStack', token', i)
      PROVE  /\ i \in DOMAIN inputStack /\ Live(inputStack, token, i)
             /\ owner[i] \in DOMAIN calls' /\ Prescanning(calls'[owner[i]])
  BY <1>1, <1>2, <1>3 DEF MarkersOf
<1>4. ASSUME NEW i \in DOMAIN inputStack', NEW k \in DOMAIN calls',
             PushedFor(inputs', inputStack'[i], calls'[k])
      PROVE  /\ Prescanning(calls'[k])
             /\ i \in DOMAIN inputStack /\ k \in DOMAIN calls
             /\ PushedFor(inputs, inputStack[i], calls[k])
  <2>1. PushedFor(inputs, inputStack[i], calls[k])
    BY <1>2, <1>4 DEF PushedFor, IsMacro, IsTokens
  <2> QED BY <1>1, <1>2, <2>1 DEF MarkersOf
<1> QED BY <1>1, <1>3, <1>4, MarkersStay, Zenon

(***************************************************************************)
(* Steps that leave the shape as it is.                                    *)
(***************************************************************************)
LEMMA NothingRead ==
  ASSUME token' = NoToken
  PROVE  /\ TokenOK'
         /\ \A s, i : Live(s, token', i) <=> IsMarker(s[i]) /\ ~s[i].done
BY DEF NoToken, TokenOK, Marker, EndOfInput, Live

LEMMA Unmoved == TypeOK => SameStack(inputStack, inputStack) /\ SamePhases(calls, calls)
BY DEF TypeOK, SameStack, SamePhases, Alike, LastPhase

LEMMA SameLast ==
  ASSUME TypeOK, CallsOK, SamePhases(calls', calls), Kept(inputs', inputs)
  PROVE  LastOK(calls', inputs')
<1> SUFFICES ASSUME calls' # <<>> PROVE LastOK(calls', inputs')
  BY DEF LastOK
<1>1. calls' \in Seq(Calls) /\ calls \in Seq(Calls) /\ Len(calls') = Len(calls)
  BY DEF SamePhases, Alike, TypeOK
<1>2. calls # <<>> /\ Len(calls) \in DOMAIN calls /\ Len(calls) \in 1 .. Len(calls)
  BY <1>1
<1>3. calls'[Len(calls)].phase = calls[Len(calls)].phase
        /\ calls'[Len(calls)].count = calls[Len(calls)].count
  BY <1>1, <1>2 DEF SamePhases, LastPhase
<1>4. calls'[Len(calls)].in = calls[Len(calls)].in
  BY <1>2 DEF SamePhases, Alike
<1>5. /\ calls[Len(calls)].phase \in {"ready", "prescan", "toss"} => calls[Len(calls)].count >= 1
      /\ calls[Len(calls)].phase \in {"prescan", "toss"} =>
           calls[Len(calls)].count <= Len(inputs[calls[Len(calls)].in].args)
      /\ calls[Len(calls)].in \in DOMAIN inputs
  BY <1>2 DEF CallsOK, Prescanning
<1>6. Len(inputs'[calls[Len(calls)].in].args) = Len(inputs[calls[Len(calls)].in].args)
  BY <1>5 DEF Kept
<1> QED BY <1>1, <1>3, <1>4, <1>5, <1>6 DEF LastOK

\* The token is handled, and the innermost call goes on, but not out of a prescan.
LEMMA HandledStep ==
  ASSUME IInv, TypeOK', Handled, Alike(calls', calls), LastOK(calls', inputs'),
         Kept(inputs', inputs), StillExpanded(inputs', inputs),
         UNCHANGED <<inputStack, busy, macroDefs>>,
         calls # <<>> /\ Prescanning(calls[Len(calls)]) => Prescanning(calls'[Len(calls)])
  PROVE  IInv'
<1>1. TypeOK /\ ObjectsOK /\ CallsOK /\ OwnersOK /\ StackOK /\ ArgumentsOK /\ MarkersOK
  BY DEF IInv
<1>2. SameShape
  BY <1>1, Unmoved DEF SameShape
<1>3. ObjectsOK' /\ CallsOK'
  BY <1>1, ObjectsKept, CallsKept
<1>4. OwnersOK' /\ StackOK' /\ ArgumentsOK'
  <2>1. \A i \in DOMAIN inputStack : IsTokens(inputStack[i]) =>
          inputStack[i].in \in DOMAIN inputs
    BY <1>1 DEF ArgumentsOK
  <2> QED BY <1>1, <1>2, <2>1, ShapeKept DEF StillExpanded
<1>5. TokenOK'
  BY NothingRead DEF Handled
<1>6. \A i \in DOMAIN inputStack : Live(inputStack', token', i) => Live(inputStack, token, i)
  BY NothingRead DEF Handled, Live
<1>7. ASSUME NEW k \in DOMAIN calls, Prescanning(calls[k])
      PROVE  Prescanning(calls'[k])
  <2>1. DOMAIN calls = 1 .. Len(calls) /\ Len(calls) \in Nat
    BY <1>1, Domains
  <2>2. CASE k < Len(calls)
    BY <1>7, <2>1, <2>2 DEF Alike, Prescanning
  <2>3. CASE k = Len(calls)
    <3>1. calls # <<>>
      BY <2>1
    <3> QED BY <1>7, <2>3, <3>1
  <2> QED BY <2>1, <2>2, <2>3
<1>8. MarkersOK'
  BY <1>1, <1>2, <1>6, <1>7, MarkersKept
<1> QED BY <1>3, <1>4, <1>5, <1>8 DEF IInv

LEMMA TypeKept == IInv /\ Next => TypeOK'
BY TypeNext DEF IInv

\* A last call whose phase and count are known.
LEMMA LastIsOK ==
  ASSUME TypeOK, NEW phase, NEW count, Alike(calls', calls), calls # <<>>,
         LastPhase(calls', phase, count),
         phase \in {"ready", "prescan", "toss"} => count >= 1,
         phase \in {"prescan", "toss"} => count <= Len(inputs'[Call.in].args)
  PROVE  LastOK(calls', inputs') /\ calls'[Len(calls)].phase = phase
<1>1. Len(calls') = Len(calls) /\ calls'[Len(calls)].in = Call.in
  BY CallIs DEF Alike
<1> QED BY <1>1 DEF LastOK, LastPhase

LEMMA EmitKeeps == IInv /\ Emit => IInv'
<1> SUFFICES ASSUME IInv, Emit PROVE IInv'
  OBVIOUS
<1>1. TypeOK' /\ TypeOK /\ CallsOK
  BY TypeKept DEF Next, IInv
<1>2. SamePhases(calls', calls)
  BY <1>1, EmitStep
<1>3. Handled /\ UNCHANGED <<inputStack, busy, macroDefs, inputs>>
  BY DEF Emit, definitions
<1>4. Kept(inputs', inputs) /\ StillExpanded(inputs', inputs)
  BY <1>1, <1>3, NoChange DEF StillExpanded
<1>5. LastOK(calls', inputs')
  BY <1>1, <1>2, <1>4, SameLast
<1>6. calls # <<>> /\ Prescanning(calls[Len(calls)]) => Prescanning(calls'[Len(calls)])
  BY <1>2 DEF SamePhases, Alike, LastPhase, Prescanning
<1> QED BY <1>1, <1>2, <1>3, <1>4, <1>5, <1>6, HandledStep DEF SamePhases

LEMMA UnchangedCallsKeep == IInv /\ (Stop \/ TossArgument) => IInv'
<1> SUFFICES ASSUME IInv, Stop \/ TossArgument PROVE IInv'
  OBVIOUS
<1>1. TypeOK' /\ TypeOK /\ CallsOK
  BY TypeKept DEF Next, MacroExpand, IInv
<1>2. Handled /\ UNCHANGED <<inputStack, busy, macroDefs, inputs, calls>>
  BY DEF Stop, TossArgument, definitions
<1>3. SamePhases(calls', calls)
  BY <1>1, <1>2, Unmoved
<1>4. Kept(inputs', inputs) /\ StillExpanded(inputs', inputs)
  BY <1>1, <1>2, NoChange DEF StillExpanded
<1>5. LastOK(calls', inputs')
  BY <1>1, <1>3, <1>4, SameLast
<1> QED BY <1>1, <1>2, <1>3, <1>4, <1>5, HandledStep DEF SamePhases

LEMMA ReadingArgumentsKeeps == IInv /\ (Parenthesis \/ RecordToken \/ EndArgument \/ Recover) => IInv'
<1> SUFFICES ASSUME IInv, Parenthesis \/ RecordToken \/ EndArgument \/ Recover PROVE IInv'
  OBVIOUS
<1>1. TypeOK' /\ TypeOK /\ CallsOK
  BY TypeKept DEF Next, MacroExpand, IInv
<1>2. Handled /\ UNCHANGED <<inputStack, busy, macroDefs>>
  BY DEF Parenthesis, RecordToken, EndArgument, Recover, definitions
<1>3. calls # <<>> /\ Call.phase \in {"name", "args", "recover"}
  BY DEF Parenthesis, RecordToken, EndArgument, Recover, Looking, InArguments
<1>4. ~Prescanning(calls[Len(calls)])
  BY <1>1, <1>3, CallIs DEF Prescanning
<1>5. Kept(inputs', inputs) /\ StillExpanded(inputs', inputs)
  <2>1. CASE RecordToken
    BY <1>1, <2>1, RecordTokenObjects
  <2>2. CASE inputs' = inputs
    BY <1>1, <2>2, NoChange DEF StillExpanded
  <2>3. RecordToken \/ inputs' = inputs
    BY DEF Parenthesis, EndArgument, Recover
  <2> QED BY <2>1, <2>2, <2>3
<1>6. /\ Alike(calls', calls)
      /\ \/ \E n : LastPhase(calls', "args", n) \/ LastPhase(calls', "recover", n)
         \/ LastPhase(calls', "ready", 1)
  BY <1>1, ParenthesisStep, RecordTokenStep, EndArgumentStep, RecoverStep, Zenon
<1>7. LastOK(calls', inputs')
  BY <1>6 DEF LastOK, LastPhase
<1> QED BY <1>1, <1>2, <1>4, <1>5, <1>6, <1>7, HandledStep

(* Reading a token.                                                          *)
LEMMA ReadStep ==
  ASSUME IInv, TypeOK', TokenOK', SameStack(inputStack', inputStack),
         Kept(inputs', inputs), StillExpanded(inputs', inputs),
         UNCHANGED <<busy, macroDefs, calls>>,
         \A i \in DOMAIN inputStack : Live(inputStack', token', i) => Live(inputStack, token, i)
  PROVE  IInv'
<1>1. TypeOK /\ ObjectsOK /\ CallsOK /\ OwnersOK /\ StackOK /\ ArgumentsOK /\ MarkersOK
  BY DEF IInv
<1>2. SamePhases(calls', calls)
  BY <1>1, Unmoved
<1>3. SameShape
  BY <1>2 DEF SameShape, SamePhases
<1>4. ObjectsOK' /\ CallsOK'
  BY <1>1, <1>2, <1>3, SameLast, ObjectsKept, CallsKept DEF SameShape
<1>5. OwnersOK' /\ StackOK' /\ ArgumentsOK'
  <2>1. \A i \in DOMAIN inputStack : IsTokens(inputStack[i]) =>
          inputStack[i].in \in DOMAIN inputs
    BY <1>1 DEF ArgumentsOK
  <2> QED BY <1>1, <1>3, <2>1, ShapeKept DEF StillExpanded
<1>6. MarkersOK'
  BY <1>1, <1>3, MarkersKept
<1> QED BY <1>4, <1>5, <1>6 DEF IInv

LEMMA TakeKeeps == IInv /\ TakeToken => IInv'
<1> SUFFICES ASSUME IInv, TakeToken PROVE IInv'
  OBVIOUS
<1>1. /\ TypeOK' /\ TypeOK /\ ObjectsOK /\ CallsOK /\ OwnersOK /\ StackOK /\ ArgumentsOK
      /\ MarkersOK
  BY TypeKept DEF Next, Scan, IInv
<1>2. /\ inputStack # <<>> /\ ~Exhausted(Top) /\ token = NoToken
      /\ UNCHANGED <<busy, macroDefs, calls>>
  BY DEF TakeToken, Scanning
<1> DEFINE n == Len(inputStack)
<1>3. /\ Top = inputStack[n] /\ n \in DOMAIN inputStack /\ Top \in Inputs
      /\ DOMAIN inputStack = 1 .. n /\ n \in Nat \ {0}
  BY <1>1, <1>2, TopIs
<1>4. Kept(inputs', inputs) /\ StillExpanded(inputs', inputs)
  <2>1. CASE Top.kind = "tokens"
    <3>1. inputs' = Advance(Top)
      BY <2>1 DEF TakeToken
    <3> QED BY <1>1, <1>2, <2>1, <3>1, TokensOnTop
  <2>2. CASE Top.kind # "tokens"
    <3>1. inputs' = inputs
      BY <2>2 DEF TakeToken
    <3> QED BY <1>1, <3>1, NoChange DEF StillExpanded
  <2> QED BY <2>1, <2>2
<1>5. /\ SameStack(inputStack', inputStack) /\ TokenOK'
      /\ \A i \in DOMAIN inputStack : Live(inputStack', token', i) => Live(inputStack, token, i)
  <2>1. CASE Top.kind \notin {"marker", "ungot"}
    <3>1. inputStack' = inputStack
      BY <2>1 DEF TakeToken
    <3>2. token'.text # Marker /\ token'.text # EndOfInput
      <4>1. token' \in Readable
        BY <1>1, <2>1, TakeReadable DEF TakeToken
      <4> QED BY <4>1, TokensAssumption DEF Readable
    <3>3. SameStack(inputStack', inputStack)
      BY <1>1, <3>1, Unmoved
    <3>4. \A i \in DOMAIN inputStack : Live(inputStack', token', i) => Live(inputStack, token, i)
      BY <3>1, <3>2 DEF Live
    <3>5. TokenOK'
      BY <1>2, <3>1, <3>2 DEF TokenOK
    <3> QED BY <3>3, <3>4, <3>5
  <2>2. CASE Top.kind \in {"marker", "ungot"}
    <3> DEFINE x == [Top EXCEPT !.done = TRUE]
    <3>1. inputStack' = Used
      BY <2>2 DEF TakeToken
    <3>2. /\ Len(inputStack') = n /\ DOMAIN inputStack' = 1 .. n /\ inputStack' # <<>>
          /\ \A i \in DOMAIN inputStack : i # n => inputStack'[i] = inputStack[i]
          /\ inputStack'[n] = x
      <4>1. /\ Used \in Seq(Inputs) /\ Len(Used) = n /\ Used[n] = x
            /\ \A i \in DOMAIN inputStack : i # n => Used[i] = inputStack[i]
        BY <1>1, <1>2, <2>2, UsedIs
      <4> QED BY <1>3, <3>1, <4>1, LenProperties
    <3>3. x.kind = Top.kind /\ x.done /\ (Top.kind = "ungot" => x.token = Top.token)
      BY <1>3, <2>2 DEF Inputs
    <3> HIDE DEF x
    <3>4. SameStack(inputStack', inputStack)
      BY <1>3, <2>2, <3>2, <3>3 DEF SameStack
    <3>5. ~Top.done /\ (Top.kind = "ungot" => Top.token.text # EndOfInput)
      BY <1>2, <2>2 DEF Exhausted
    <3>6. IsMarker(x) <=> IsMarker(Top)
      BY <2>2, <3>3 DEF IsMarker
    <3>7. ASSUME NEW i \in DOMAIN inputStack, Live(inputStack', token', i)
          PROVE  Live(inputStack, token, i)
      <4>1. CASE i = n
        BY <1>3, <3>2, <3>5, <3>6, <3>7, <4>1 DEF Live
      <4>2. CASE i # n
        BY <3>2, <3>7, <4>2 DEF Live
      <4> QED BY <4>1, <4>2
    <3>8. TokenOK'
      <4>1. CASE Top.kind = "marker"
        <5>1. token'.text = Marker
          BY <4>1 DEF TakeToken, Plain
        <5> QED BY <3>2, <3>3, <4>1, <5>1 DEF TokenOK, IsMarker, Marker, EndOfInput
      <4>2. CASE Top.kind = "ungot"
        <5>1. token' = Top.token
          BY <4>2 DEF TakeToken
        <5> QED BY <3>2, <3>3, <3>5, <4>2, <5>1 DEF TokenOK, IsMarker
      <4> QED BY <2>2, <4>1, <4>2
    <3> QED BY <3>4, <3>7, <3>8
  <2> QED BY <2>1, <2>2
<1> QED BY <1>1, <1>2, <1>4, <1>5, ReadStep

LEMMA NoInputKeeps == IInv /\ NoInput => IInv'
<1> SUFFICES ASSUME IInv, NoInput PROVE IInv'
  OBVIOUS
<1>1. TypeOK' /\ TypeOK
  BY TypeKept DEF Next, Scan, IInv
<1>2. /\ inputStack = <<>> /\ inputStack' = inputStack /\ token'.text = EndOfInput
      /\ UNCHANGED <<busy, macroDefs, calls, inputs>>
  BY DEF NoInput, Plain, definitions
<1>3. Kept(inputs', inputs) /\ StillExpanded(inputs', inputs) /\ SameStack(inputStack', inputStack)
  BY <1>1, <1>2, NoChange, Unmoved DEF StillExpanded
<1>4. TokenOK'
  BY <1>2 DEF TokenOK, Marker, EndOfInput
<1> QED BY <1>1, <1>2, <1>3, <1>4, ReadStep

(***************************************************************************)
(* The end of a prescan, at whichever marker: nothing is left of what was   *)
(* pushed for the innermost call.                                          *)
(***************************************************************************)
LEMMA PushedKinds ==
  ASSUME NEW f, NEW x, NEW c, PushedFor(f, x, c) PROVE ~IsMarker(x)
BY DEF PushedFor, IsMarker, IsMacro, IsTokens

LEMMA NothingLeft ==
  ASSUME IInv, EndPrescan, NEW owner, MarkersOf(owner, inputStack, token, calls, inputs)
  PROVE  /\ \A i \in DOMAIN inputStack : ~PushedFor(inputs, inputStack[i], calls[Len(calls)])
         /\ \A i \in DOMAIN inputStack : Live(inputStack, NoToken, i) =>
              Live(inputStack, token, i) /\ owner[i] \in 1 .. Len(calls) - 1
<1> DEFINE n == Len(calls)
           top == Len(inputStack)
<1>1. /\ TypeOK /\ TokenOK /\ calls # <<>> /\ token.text \in {Marker, EndOfInput}
  BY DEF IInv, EndPrescan, Ends, TossUntil
<1>2. DOMAIN calls = 1 .. n /\ n \in Nat \ {0}
  BY <1>1, CallIs
<1>3. DOMAIN inputStack = 1 .. top /\ top \in Nat
  BY <1>1, Domains
<1>4. CASE token.text = EndOfInput
  <2>1. inputStack = <<>>
    BY <1>1, <1>4 DEF TokenOK
  <2> QED BY <2>1
<1>5. CASE token.text = Marker
  <2>1. /\ top \in DOMAIN inputStack /\ IsMarker(inputStack[top]) /\ inputStack[top].done
    BY <1>1, <1>3, <1>5 DEF TokenOK
  <2>2. Live(inputStack, token, top)
    BY <1>5, <2>1 DEF Live
  <2>3. owner[top] \in 1 .. n
    BY <1>2, <2>1, <2>2 DEF MarkersOf
  <2>4. ASSUME NEW i \in DOMAIN inputStack, PushedFor(inputs, inputStack[i], calls[n])
        PROVE  FALSE
    <3>1. i # top
      BY <2>1, <2>4, PushedKinds
    <3>2. i < top
      BY <1>3, <3>1
    <3>3. Above(inputStack, token, owner, i, n)
      BY <1>2, <2>4 DEF MarkersOf
    <3>4. owner[top] > n
      BY <2>1, <2>2, <3>2, <3>3 DEF Above
    <3> QED BY <1>2, <2>3, <3>4
  <2>5. ASSUME NEW i \in DOMAIN inputStack, Live(inputStack, NoToken, i)
        PROVE  Live(inputStack, token, i) /\ owner[i] \in 1 .. n - 1
    <3>1. IsMarker(inputStack[i]) /\ ~inputStack[i].done
      BY <2>5 DEF Live, NoToken, Marker
    <3>2. Live(inputStack, token, i) /\ i # top
      BY <2>1, <3>1 DEF Live
    <3>3. owner[i] < owner[top] /\ owner[i] \in 1 .. n
      <4>1. i < top
        BY <1>3, <3>2
      <4> QED BY <1>2, <2>1, <2>2, <3>2, <4>1 DEF MarkersOf
    <3> QED BY <1>2, <2>3, <3>2, <3>3
  <2> QED BY <2>4, <2>5
<1> QED BY <1>1, <1>4, <1>5

LEMMA EndPrescanKeeps == IInv /\ EndPrescan => IInv'
<1> SUFFICES ASSUME IInv, EndPrescan PROVE IInv'
  OBVIOUS
<1>1. /\ TypeOK' /\ TypeOK /\ ObjectsOK /\ CallsOK /\ OwnersOK /\ StackOK /\ ArgumentsOK
      /\ MarkersOK /\ TokenOK
  BY TypeKept DEF Next, MacroExpand, IInv
<1>2. /\ calls # <<>> /\ token' = NoToken
      /\ UNCHANGED <<inputStack, busy, macroDefs>>
  BY DEF EndPrescan, Handled, definitions
<1> DEFINE n == Len(calls)
<1>3. Call = calls[n] /\ DOMAIN calls = 1 .. n /\ n \in Nat \ {0} /\ Call.count \in Nat
  BY <1>1, <1>2, CallIs, CallParts
<1>4. Alike(calls', calls) /\ LastPhase(calls', "ready", Call.count + 1)
  BY <1>1, EndPrescanStep
<1>5. Kept(inputs', inputs) /\ \A id \in DOMAIN inputs : id # Call.in => inputs'[id] = inputs[id]
  BY <1>1, EndPrescanObjects
<1>6. SameShape
  BY <1>1, <1>2, <1>4, <1>5, Unmoved DEF SameShape
<1>7. LastOK(calls', inputs')
  BY <1>1, <1>2, <1>3, <1>4, LastIsOK
<1>8. ObjectsOK' /\ CallsOK'
  BY <1>1, <1>2, <1>4, <1>5, <1>7, ObjectsKept, CallsKept
<1>9. PICK owner : MarkersOf(owner, inputStack, token, calls, inputs)
  BY <1>1 DEF MarkersOK
<1>10. /\ \A i \in DOMAIN inputStack : ~PushedFor(inputs, inputStack[i], calls[n])
       /\ \A i \in DOMAIN inputStack : Live(inputStack, NoToken, i) =>
            Live(inputStack, token, i) /\ owner[i] \in 1 .. n - 1
  BY <1>9, NothingLeft
<1>11. OwnersOK' /\ StackOK' /\ ArgumentsOK'
  <2>1. ASSUME NEW i \in DOMAIN inputStack, IsTokens(inputStack[i])
        PROVE  inputs'[inputStack[i].in] = inputs[inputStack[i].in]
    <3>1. inputStack[i].in # Call.in
      BY <1>3, <1>10, <2>1 DEF PushedFor
    <3>2. inputStack[i].in \in DOMAIN inputs
      BY <1>1, <2>1 DEF ArgumentsOK
    <3> QED BY <1>5, <3>1, <3>2
  <2> QED BY <1>1, <1>2, <1>6, <2>1, ShapeKept
<1>12. TokenOK'
  BY <1>2, NothingRead
<1>13. \A k \in 1 .. n - 1 : Prescanning(calls[k]) => Prescanning(calls'[k])
  BY <1>3, <1>4 DEF Alike, Prescanning
<1>14. MarkersOK'
  <2>1. ASSUME NEW i \in DOMAIN inputStack', Live(inputStack', token', i)
        PROVE  /\ i \in DOMAIN inputStack /\ Live(inputStack, token, i)
               /\ owner[i] \in DOMAIN calls' /\ Prescanning(calls'[owner[i]])
    <3>1. Live(inputStack, token, i) /\ owner[i] \in 1 .. n - 1 /\ i \in DOMAIN inputStack
      BY <1>2, <1>10, <2>1
    <3>2. DOMAIN calls' = DOMAIN calls
      BY <1>1, <1>6, SameViews
    <3>3. Prescanning(calls[owner[i]])
      BY <1>9, <3>1 DEF MarkersOf
    <3> QED BY <1>3, <1>13, <3>1, <3>2, <3>3
  <2>2. ASSUME NEW i \in DOMAIN inputStack', NEW k \in DOMAIN calls',
               PushedFor(inputs', inputStack'[i], calls'[k])
        PROVE  /\ Prescanning(calls'[k])
               /\ i \in DOMAIN inputStack /\ k \in DOMAIN calls
               /\ PushedFor(inputs, inputStack[i], calls[k])
    <3>1. /\ DOMAIN calls' = DOMAIN calls /\ i \in DOMAIN inputStack
          /\ calls'[k].in = calls[k].in /\ calls'[k].mac = calls[k].mac
          /\ IsMacro(inputStack[i]) =>
               MacroOf(inputs', inputStack'[i]) = MacroOf(inputs, inputStack[i])
      BY <1>1, <1>2, <1>6, SameViews
    <3>2. PushedFor(inputs, inputStack[i], calls[k])
      BY <1>2, <2>2, <3>1 DEF PushedFor
    <3>3. k # n
      BY <1>10, <3>1, <3>2
    <3>4. Prescanning(calls[k])
      BY <1>9, <3>1, <3>2 DEF MarkersOf
    <3> QED BY <1>3, <1>13, <3>1, <3>2, <3>3, <3>4
  <2> QED BY <1>1, <1>9, <2>1, <2>2, MarkersStay, Zenon
<1> QED BY <1>1, <1>8, <1>11, <1>12, <1>14 DEF IInv

(***************************************************************************)
(* The end of an input.                                                    *)
(***************************************************************************)
\* The calls that stay keep their objects.
LEMMA CallsFrom ==
  ASSUME TypeOK', NEW c \in Seq(Calls), Alike(calls', c), LastOK(calls', inputs'),
         \A k \in 1 .. Len(c) :
           /\ c[k].in \in DOMAIN inputs' /\ inputs'[c[k].in].mac = c[k].mac
           /\ k < Len(c) =>
                /\ c[k].phase = "prescan" /\ c[k].count >= 1
                /\ c[k].count <= Len(inputs'[c[k].in].args)
           /\ \A l \in 1 .. Len(c) : c[l].in = c[k].in => l = k
  PROVE  CallsOK'
<1> DEFINE n == Len(c)
<1>1. DOMAIN calls' = 1 .. n /\ Len(calls') = n /\ n \in Nat
  BY Domains2 DEF Alike
<1> SUFFICES ASSUME NEW k \in 1 .. n
    PROVE  /\ calls'[k].in \in DOMAIN inputs' /\ inputs'[calls'[k].in].mac = calls'[k].mac
           /\ k < n => calls'[k].phase = "prescan"
           /\ calls'[k].phase \in {"ready", "prescan", "toss"} => calls'[k].count >= 1
           /\ calls'[k].phase \in {"prescan", "toss"} =>
                calls'[k].count <= Len(inputs'[calls'[k].in].args)
           /\ \A l \in 1 .. n : calls'[l].in = calls'[k].in => l = k
  BY <1>1 DEF CallsOK, Prescanning
<1>2. \A l \in 1 .. n : calls'[l].in = c[l].in /\ calls'[l].mac = c[l].mac
  BY DEF Alike
<1>3. CASE k < n
  <2>1. calls'[k].phase = c[k].phase /\ calls'[k].count = c[k].count
    BY <1>3 DEF Alike
  <2> QED BY <1>2, <1>3, <2>1
<1>4. CASE k = n
  <2>1. calls' # <<>>
    <3>1. Len(calls') # 0
      BY <1>1
    <3> QED BY <3>1
  <2>2. Len(calls') = k
    BY <1>1, <1>4, Zenon
  <2>3. /\ calls'[k].phase \in {"ready", "prescan", "toss"} => calls'[k].count >= 1
        /\ calls'[k].phase \in {"prescan", "toss"} =>
             calls'[k].count <= Len(inputs'[calls'[k].in].args)
    BY <2>1, <2>2, Zenon DEF LastOK
  <2>4. ~(k < n)
    <3>1. n \in Nat
      BY <1>1, Zenon
    <3> QED BY <1>4, <3>1
  <2> QED BY <1>2, <2>3, <2>4
<1>5. k < n \/ k = n
  <2>1. n \in Nat
    BY <1>1, Zenon
  <2> QED BY <2>1, UpToLast
<1> QED BY <1>3, <1>4, <1>5, Zenon

LEMMA SameOwners ==
  ASSUME TypeOK, TypeOK', Alike(calls', calls)
  PROVE  /\ DOMAIN calls' = DOMAIN calls
         /\ \A k \in DOMAIN calls : calls'[k].in = calls[k].in /\ calls'[k].mac = calls[k].mac
         /\ \A id : OwnedByCall(calls', id) <=> OwnedByCall(calls, id)
<1>1. DOMAIN calls' = DOMAIN calls /\ DOMAIN calls = 1 .. Len(calls)
  BY Domains, Domains2 DEF Alike
<1> QED BY <1>1 DEF OwnedByCall, Alike

\* What is below is about other objects than the expansion that ends.
LEMMA PopAbout ==
  ASSUME IInv, PopInput
  PROVE  LET n == Len(inputStack)
             gone(id) == Top.kind = "macro" /\ id = Top.in IN
         /\ n \in Nat \ {0} /\ DOMAIN inputStack = 1 .. n /\ Top = inputStack[n]
         /\ DOMAIN inputStack' = 1 .. n - 1 /\ Len(inputStack') = n - 1
         /\ \A i \in 1 .. n - 1 : inputStack'[i] = inputStack[i]
         /\ \A id \in DOMAIN inputs : id \in DOMAIN inputs' <=> ~gone(id)
         /\ DOMAIN inputs' \subseteq DOMAIN inputs
         /\ \A id \in DOMAIN inputs' : inputs'[id] = inputs[id]
         /\ \A i \in 1 .. n - 1 : IsMacro(inputStack[i]) \/ IsTokens(inputStack[i]) =>
              inputStack[i].in \in DOMAIN inputs'
         /\ \A k \in DOMAIN calls : calls[k].in \in DOMAIN inputs'
         /\ \A i \in 1 .. n - 1 : IsMacro(inputStack[i]) =>
              busy'[MacroOf(inputs, inputStack[i])]
         /\ \A m \in Names : busy'[m] => busy[m] /\ (Top.kind = "macro" => m # inputs[Top.in].mac)
<1> DEFINE n == Len(inputStack)
           gone(id) == Top.kind = "macro" /\ id = Top.in
<1>1. TypeOK /\ ObjectsOK /\ CallsOK /\ OwnersOK /\ StackOK /\ ArgumentsOK
  BY DEF IInv
<1>2. inputStack # <<>> /\ inputStack' = Front(inputStack)
  BY DEF PopInput
<1>3. n \in Nat \ {0} /\ DOMAIN inputStack = 1 .. n /\ Top = inputStack[n]
  BY <1>1, <1>2, TopIs
<1>4. /\ DOMAIN inputStack' = 1 .. n - 1 /\ Len(inputStack') = n - 1
      /\ \A i \in 1 .. n - 1 : inputStack'[i] = inputStack[i]
  BY <1>1, <1>2, FrontIs DEF TypeOK
<1>5. \A i \in 1 .. n : IsMacro(inputStack[i]) \/ IsTokens(inputStack[i]) =>
        inputStack[i].in \in DOMAIN inputs
  BY <1>1, <1>3 DEF StackOK, ArgumentsOK
<1>6. \A k \in DOMAIN calls : calls[k].in \in DOMAIN inputs
  BY <1>1 DEF CallsOK
<1>7. CASE Top.kind # "macro"
  <2>1. inputs' = inputs /\ busy' = busy
    BY <1>7 DEF PopInput
  <2>2. \A i \in 1 .. n - 1 : IsMacro(inputStack[i]) => busy[MacroOf(inputs, inputStack[i])]
    BY <1>1, <1>3 DEF StackOK
  <2> QED BY <1>3, <1>4, <1>5, <1>6, <1>7, <2>1, <2>2
<1>8. CASE Top.kind = "macro"
  <2> DEFINE mac == inputs[Top.in].mac
  <2>1. /\ inputs' = Destroyed(Top.in) /\ busy' = [busy EXCEPT ![mac] = FALSE]
    BY <1>8 DEF PopInput, Destroyed, NotBusy
  <2>2. /\ DOMAIN inputs' = DOMAIN inputs \ {Top.in}
        /\ \A id \in DOMAIN inputs' : inputs'[id] = inputs[id]
    BY <1>1, <2>1, DestroyedIs
  <2>3. IsMacro(inputStack[n]) /\ MacroOf(inputs, inputStack[n]) = mac
    BY <1>3, <1>8 DEF IsMacro, MacroOf
  <2>4. ~OwnedByCall(calls, Top.in)
    BY <1>1, <1>3, <2>3 DEF StackOK
  <2>5. ASSUME NEW i \in 1 .. n - 1, IsMacro(inputStack[i])
        PROVE  /\ MacroOf(inputs, inputStack[i]) # mac /\ inputStack[i].in # Top.in
               /\ busy[MacroOf(inputs, inputStack[i])] /\ MacroOf(inputs, inputStack[i]) \in Names
    <3>1. i \in DOMAIN inputStack /\ n \in DOMAIN inputStack /\ i # n
      <4>1. DOMAIN inputStack = 1 .. n /\ n \in Nat \ {0}
        BY <1>3, Zenon
      <4> QED BY <4>1, BelowLast, Zenon
    <3>2. MacroOf(inputs, inputStack[i]) # mac
      BY <1>1, <2>3, <2>5, <3>1 DEF StackOK
    <3>3. busy[MacroOf(inputs, inputStack[i])]
      BY <1>1, <2>5, <3>1 DEF StackOK
    <3>4. inputs[inputStack[i].in] \in Objects
      BY <1>1, <1>5, <2>5 DEF TypeOK
    <3> QED BY <3>2, <3>3, <3>4 DEF MacroOf, Objects
  <2>6. ASSUME NEW i \in 1 .. n - 1, IsTokens(inputStack[i]) PROVE inputStack[i].in # Top.in
    <3>1. OwnedByCall(calls, inputStack[i].in) \/ ExpandedBelow(inputStack, inputStack[i].in, i)
      BY <1>1, <1>3, <2>6 DEF ArgumentsOK
    <3>2. ~ExpandedBelow(inputStack, Top.in, i)
      BY <1>3, <2>5 DEF ExpandedBelow
    <3> QED BY <2>4, <3>1, <3>2
  <2>7. \A k \in DOMAIN calls : calls[k].in # Top.in
    BY <2>4 DEF OwnedByCall
  <2>8. \A m \in Names : busy'[m] <=> busy[m] /\ m # mac
    BY <1>1, <2>1 DEF TypeOK
  <2>9. \A i \in 1 .. n - 1 : IsMacro(inputStack[i]) => busy'[MacroOf(inputs, inputStack[i])]
    BY <2>5, <2>8
  <2>10. \A i \in 1 .. n - 1 : IsMacro(inputStack[i]) \/ IsTokens(inputStack[i]) =>
           inputStack[i].in \in DOMAIN inputs'
    BY <1>5, <2>2, <2>5, <2>6
  <2> QED BY <1>3, <1>4, <1>6, <1>8, <2>2, <2>7, <2>8, <2>9, <2>10
<1> QED BY <1>7, <1>8

LEMMA ObjectsFewer ==
  ASSUME ObjectsOK, macroDefs' = macroDefs, DOMAIN inputs' \subseteq DOMAIN inputs,
         \A id \in DOMAIN inputs' : inputs'[id] = inputs[id]
  PROVE  ObjectsOK'
BY DEF ObjectsOK

LEMMA PopKeeps == IInv /\ PopInput => IInv'
<1> SUFFICES ASSUME IInv, PopInput PROVE IInv'
  OBVIOUS
<1> DEFINE n == Len(inputStack)
           gone(id) == Top.kind = "macro" /\ id = Top.in
<1>1. /\ TypeOK' /\ TypeOK /\ ObjectsOK /\ CallsOK /\ OwnersOK /\ StackOK /\ ArgumentsOK
      /\ MarkersOK /\ TokenOK
  BY TypeKept DEF Next, Scan, IInv
<1>2. token = NoToken /\ token' = token /\ macroDefs' = macroDefs
  BY DEF PopInput, Scanning
<1>3. /\ n \in Nat \ {0} /\ DOMAIN inputStack = 1 .. n /\ Top = inputStack[n]
      /\ DOMAIN inputStack' = 1 .. n - 1 /\ Len(inputStack') = n - 1
      /\ \A i \in 1 .. n - 1 : inputStack'[i] = inputStack[i]
  BY PopAbout
<1>4. /\ \A id \in DOMAIN inputs : id \in DOMAIN inputs' <=> ~gone(id)
      /\ DOMAIN inputs' \subseteq DOMAIN inputs
      /\ \A id \in DOMAIN inputs' : inputs'[id] = inputs[id]
      /\ \A i \in 1 .. n - 1 : IsMacro(inputStack[i]) \/ IsTokens(inputStack[i]) =>
           inputStack[i].in \in DOMAIN inputs'
      /\ \A k \in DOMAIN calls : calls[k].in \in DOMAIN inputs'
      /\ \A i \in 1 .. n - 1 : IsMacro(inputStack[i]) => busy'[MacroOf(inputs, inputStack[i])]
      /\ \A m \in Names : busy'[m] => busy[m] /\ (Top.kind = "macro" => m # inputs[Top.in].mac)
  BY PopAbout
<1> HIDE DEF gone
<1>5. SamePhases(calls', calls)
  BY <1>1, PopStep
<1>6. /\ DOMAIN calls' = DOMAIN calls
      /\ \A k \in DOMAIN calls : calls'[k].in = calls[k].in /\ calls'[k].mac = calls[k].mac
      /\ \A id : OwnedByCall(calls', id) <=> OwnedByCall(calls, id)
  BY <1>1, <1>5, SameOwners DEF SamePhases
<1>7. \A i \in 1 .. n - 1 : IsMacro(inputStack[i]) =>
        MacroOf(inputs', inputStack[i]) = MacroOf(inputs, inputStack[i])
  BY <1>4 DEF MacroOf
<1>8. \A id : \A i \in 1 .. n : ExpandedBelow(inputStack', id, i) <=> ExpandedBelow(inputStack, id, i)
  BY <1>3 DEF ExpandedBelow
<1>9. ObjectsOK'
  BY <1>1, <1>2, <1>4, ObjectsFewer
<1>11. CallsOK'
  <2>1. DOMAIN calls = 1 .. Len(calls) /\ Len(calls) \in Nat
    BY <1>1, Domains
  <2>2. ASSUME NEW k \in 1 .. Len(calls)
        PROVE  /\ calls[k].in \in DOMAIN inputs' /\ inputs'[calls[k].in].mac = calls[k].mac
               /\ k < Len(calls) =>
                    /\ calls[k].phase = "prescan" /\ calls[k].count >= 1
                    /\ calls[k].count <= Len(inputs'[calls[k].in].args)
               /\ \A l \in 1 .. Len(calls) : calls[l].in = calls[k].in => l = k
    BY <1>1, <1>4, <2>1 DEF CallsOK, Prescanning
  <2>3. LastOK(calls', inputs')
    <3> SUFFICES ASSUME calls' # <<>> PROVE LastOK(calls', inputs')
      BY DEF LastOK
    <3>1. Len(calls') = Len(calls) /\ calls \in Seq(Calls) /\ calls' \in Seq(Calls)
      BY <1>1, <1>5 DEF SamePhases, Alike, TypeOK
    <3>2. calls # <<>> /\ Len(calls) \in DOMAIN calls
      BY <2>1, <3>1
    <3>3. calls'[Len(calls)].phase = calls[Len(calls)].phase
            /\ calls'[Len(calls)].count = calls[Len(calls)].count
      BY <1>5, <3>1, <3>2 DEF SamePhases, LastPhase
    <3> QED BY <1>1, <1>4, <1>6, <3>1, <3>2, <3>3 DEF LastOK, CallsOK, Prescanning
  <2> QED BY <1>1, <1>5, <2>2, <2>3, CallsFrom DEF SamePhases, TypeOK
<1>12. OwnersOK'
  <2>1. ASSUME NEW id \in DOMAIN inputs'
        PROVE  OwnedByCall(calls', id) \/ ExpandedBelow(inputStack', id, Len(inputStack') + 1)
    <3>1. id \in DOMAIN inputs /\ ~gone(id)
      BY <1>4
    <3>2. OwnedByCall(calls, id) \/ ExpandedBelow(inputStack, id, n + 1)
      BY <1>1, <3>1 DEF OwnersOK
    <3>3. ASSUME ExpandedBelow(inputStack, id, n + 1) PROVE ExpandedBelow(inputStack', id, n)
      <4>1. PICK j \in 1 .. n : IsMacro(inputStack[j]) /\ inputStack[j].in = id
        BY <1>3, <3>3 DEF ExpandedBelow
      <4>2. j # n
        BY <1>3, <3>1, <4>1 DEF gone, IsMacro
      <4>3. j \in DOMAIN inputStack' /\ j < n /\ inputStack'[j] = inputStack[j]
        BY <1>3, <4>2
      <4> QED BY <4>1, <4>3 DEF ExpandedBelow
    <3> QED BY <1>3, <1>6, <3>2, <3>3
  <2>2. ASSUME NEW m \in Names, busy'[m]
        PROVE  \E i \in DOMAIN inputStack' :
                 IsMacro(inputStack'[i]) /\ MacroOf(inputs', inputStack'[i]) = m
    <3>1. busy[m] /\ (Top.kind = "macro" => m # inputs[Top.in].mac)
      BY <1>4, <2>2
    <3>2. PICK i \in 1 .. n : IsMacro(inputStack[i]) /\ MacroOf(inputs, inputStack[i]) = m
      BY <1>1, <1>3, <3>1 DEF OwnersOK
    <3>3. i # n
      BY <1>3, <3>1, <3>2 DEF IsMacro, MacroOf
    <3>4. i \in 1 .. n - 1
      <4>1. n \in Nat
        BY <1>3, Zenon
      <4> QED BY <3>3, <4>1, UpToLast
    <3> QED BY <1>3, <1>7, <3>2, <3>4
  <2> QED BY <2>1, <2>2 DEF OwnersOK
<1>13. StackOK'
  <2>1. ASSUME NEW i \in 1 .. n - 1
        PROVE  /\ inputStack'[i].kind = "string" => i = 1
               /\ IsMacro(inputStack'[i]) =>
                    /\ inputStack'[i].in \in DOMAIN inputs'
                    /\ busy'[MacroOf(inputs', inputStack'[i])]
                    /\ ~OwnedByCall(calls', inputStack'[i].in)
                    /\ \A j \in 1 .. n - 1 :
                         IsMacro(inputStack'[j])
                           /\ MacroOf(inputs', inputStack'[j]) = MacroOf(inputs', inputStack'[i])
                         => j = i
    <3>1. i \in DOMAIN inputStack /\ 1 .. n - 1 \subseteq DOMAIN inputStack
      BY <1>3
    <3> QED BY <1>1, <1>3, <1>4, <1>6, <1>7, <3>1 DEF StackOK
  <2> QED BY <1>3, <2>1 DEF StackOK
<1>14. ArgumentsOK'
  <2>1. ASSUME NEW i \in 1 .. n - 1, IsTokens(inputStack'[i])
        PROVE  /\ inputStack'[i].in \in DOMAIN inputs'
               /\ inputStack'[i].arg \in DOMAIN inputs'[inputStack'[i].in].args
               /\ inputStack'[i].preExpanded =>
                    inputs'[inputStack'[i].in].expandedArgs[inputStack'[i].arg] # NoStream
               /\ \/ OwnedByCall(calls', inputStack'[i].in) /\ ~inputStack'[i].preExpanded
                  \/ ExpandedBelow(inputStack', inputStack'[i].in, i)
               /\ \A j \in 1 .. n - 1 :
                    IsTokens(inputStack'[j]) /\ inputStack'[j].in = inputStack'[i].in => j = i
    <3>1. /\ i \in DOMAIN inputStack /\ 1 .. n - 1 \subseteq DOMAIN inputStack
          /\ i \in 1 .. n /\ inputStack'[i] = inputStack[i]
      BY <1>3
    <3>2. /\ inputStack[i].in \in DOMAIN inputs' /\ inputs'[inputStack[i].in] = inputs[inputStack[i].in]
      BY <1>4, <2>1, <3>1
    <3>3. /\ inputStack[i].arg \in DOMAIN inputs[inputStack[i].in].args
          /\ inputStack[i].preExpanded =>
               inputs[inputStack[i].in].expandedArgs[inputStack[i].arg] # NoStream
          /\ \/ OwnedByCall(calls, inputStack[i].in) /\ ~inputStack[i].preExpanded
             \/ ExpandedBelow(inputStack, inputStack[i].in, i)
          /\ \A j \in DOMAIN inputStack :
               IsTokens(inputStack[j]) /\ inputStack[j].in = inputStack[i].in => j = i
      BY <1>1, <2>1, <3>1 DEF ArgumentsOK
    <3>4. ExpandedBelow(inputStack', inputStack[i].in, i)
            <=> ExpandedBelow(inputStack, inputStack[i].in, i)
      BY <1>8, <3>1
    <3>5. \A j \in 1 .. n - 1 :
            IsTokens(inputStack'[j]) /\ inputStack'[j].in = inputStack[i].in => j = i
      BY <1>3, <3>1, <3>3
    <3> QED BY <1>6, <3>1, <3>2, <3>3, <3>4, <3>5
  <2> QED BY <1>3, <2>1 DEF ArgumentsOK
<1>15. TokenOK'
  BY <1>2, NothingRead
<1>16. MarkersOK'
  <2>1. PICK owner : MarkersOf(owner, inputStack, token, calls, inputs)
    BY <1>1 DEF MarkersOK
  <2>2. \A k \in DOMAIN calls : Prescanning(calls[k]) => Prescanning(calls'[k])
    <3>1. DOMAIN calls = 1 .. Len(calls) /\ Len(calls) \in Nat /\ (calls = <<>> => Len(calls) = 0)
      BY <1>1, Domains
    <3>2. /\ Len(calls') = Len(calls)
          /\ \A k \in 1 .. Len(calls) : k < Len(calls) => calls'[k].phase = calls[k].phase
          /\ calls # <<>> => calls'[Len(calls)].phase = calls[Len(calls)].phase
      BY <1>5 DEF SamePhases, Alike, LastPhase
    <3> QED BY <3>1, <3>2 DEF Prescanning
  <2>3. ASSUME NEW i \in DOMAIN inputStack', Live(inputStack', token', i)
        PROVE  /\ i \in DOMAIN inputStack /\ Live(inputStack, token, i)
               /\ owner[i] \in DOMAIN calls' /\ Prescanning(calls'[owner[i]])
    <3>1. i \in DOMAIN inputStack /\ inputStack'[i] = inputStack[i]
      BY <1>3
    <3>2. Live(inputStack, token, i)
      BY <1>2, <2>3, <3>1 DEF Live, NoToken, Marker
    <3> QED BY <1>6, <2>1, <2>2, <3>1, <3>2 DEF MarkersOf
  <2>4. ASSUME NEW i \in DOMAIN inputStack', NEW k \in DOMAIN calls',
               PushedFor(inputs', inputStack'[i], calls'[k])
        PROVE  /\ Prescanning(calls'[k])
               /\ i \in DOMAIN inputStack /\ k \in DOMAIN calls
               /\ PushedFor(inputs, inputStack[i], calls[k])
    <3>1. i \in 1 .. n - 1 /\ i \in DOMAIN inputStack /\ inputStack'[i] = inputStack[i]
      BY <1>3
    <3>2. PushedFor(inputs, inputStack[i], calls[k])
      BY <1>6, <1>7, <2>4, <3>1 DEF PushedFor
    <3> QED BY <1>6, <2>1, <2>2, <3>1, <3>2 DEF MarkersOf
  <2> QED BY <1>1, <2>1, <2>3, <2>4, MarkersStay, Zenon
<1> QED BY <1>1, <1>9, <1>11, <1>12, <1>13, <1>14, <1>15, <1>16 DEF IInv

(***************************************************************************)
(* An input is pushed.                                                     *)
(***************************************************************************)
LEMMA BelowPush ==
  ASSUME TypeOK, NEW x \in Inputs, inputStack' = Append(inputStack, x)
  PROVE  LET n == Len(inputStack) IN
         /\ n \in Nat /\ DOMAIN inputStack = 1 .. n /\ DOMAIN inputStack' = 1 .. n + 1
         /\ Len(inputStack') = n + 1 /\ inputStack'[n + 1] = x
         /\ \A i \in 1 .. n : inputStack'[i] = inputStack[i]
         /\ \A id : \A i \in 1 .. n + 1 :
              ExpandedBelow(inputStack', id, i) <=> ExpandedBelow(inputStack, id, i)
<1> DEFINE n == Len(inputStack)
<1>1. /\ n \in Nat /\ DOMAIN inputStack = 1 .. n /\ DOMAIN inputStack' = 1 .. n + 1
      /\ Len(inputStack') = n + 1 /\ inputStack'[n + 1] = x
      /\ \A i \in 1 .. n : inputStack'[i] = inputStack[i]
  BY Pushed
<1>2. ASSUME NEW id, NEW i \in 1 .. n + 1
      PROVE  ExpandedBelow(inputStack', id, i) <=> ExpandedBelow(inputStack, id, i)
  <2>1. \A j \in 1 .. n + 1 : j < i => j \in 1 .. n
    BY <1>1
  <2>2. \A j \in 1 .. n : j \in 1 .. n + 1
    BY <1>1
  <2> QED BY <1>1, <2>1, <2>2 DEF ExpandedBelow
<1> QED BY <1>1, <1>2

LEMMA PushArgumentKeeps == IInv /\ PushArgument => IInv'
<1> SUFFICES ASSUME IInv, PushArgument PROVE IInv'
  OBVIOUS
<1> DEFINE n == Len(inputStack)
<1>1. /\ TypeOK' /\ TypeOK /\ ObjectsOK /\ CallsOK /\ OwnersOK /\ StackOK /\ ArgumentsOK
      /\ MarkersOK /\ TokenOK
  BY TypeKept DEF Next, Scan, IInv
<1>2. /\ token = NoToken /\ token' = token /\ inputStack # <<>> /\ Top.kind = "macro"
      /\ UNCHANGED <<macroDefs, busy, calls>>
  BY DEF PushArgument, Scanning
<1>3. PICK a \in DOMAIN inputs[Top.in].args, e \in BOOLEAN :
        /\ inputStack' = Append(inputStack, TokenInput(Top.in, a, e))
        /\ e => inputs'[Top.in].expandedArgs[a] # NoStream
        /\ Kept(inputs', inputs) /\ StillExpanded(inputs', inputs)
        /\ TokenInput(Top.in, a, e) \in Inputs
  BY <1>1, PushArgumentStep
<1> DEFINE x == TokenInput(Top.in, a, e)
<1>4. x.kind = "tokens" /\ x.in = Top.in /\ x.arg = a /\ x.preExpanded = e
  BY DEF TokenInput
<1> HIDE DEF x
<1>5. /\ n \in Nat /\ DOMAIN inputStack = 1 .. n /\ DOMAIN inputStack' = 1 .. n + 1
      /\ Len(inputStack') = n + 1 /\ inputStack'[n + 1] = x
      /\ \A i \in 1 .. n : inputStack'[i] = inputStack[i]
      /\ \A id : \A i \in 1 .. n + 1 :
           ExpandedBelow(inputStack', id, i) <=> ExpandedBelow(inputStack, id, i)
  <2>1. x \in Inputs /\ inputStack' = Append(inputStack, x)
    BY <1>3 DEF x
  <2> QED BY <1>1, <2>1, BelowPush
<1>6. /\ Top = inputStack[n] /\ n \in 1 .. n /\ IsMacro(inputStack[n]) /\ Top.in \in DOMAIN inputs
      /\ ~OwnedByCall(calls, Top.in)
  BY <1>1, <1>2, TopIs DEF IsMacro, StackOK
<1>7. ObjectsOK' /\ CallsOK'
  <2>1. SamePhases(calls', calls)
    BY <1>1, <1>2, Unmoved
  <2> QED BY <1>1, <1>2, <1>3, <2>1, SameLast, ObjectsKept, CallsKept DEF SamePhases
<1>8. DOMAIN inputs' = DOMAIN inputs
  BY <1>3 DEF Kept
<1>9. \A i \in 1 .. n : IsMacro(inputStack[i]) =>
        /\ inputStack[i].in \in DOMAIN inputs
        /\ MacroOf(inputs', inputStack[i]) = MacroOf(inputs, inputStack[i])
  BY <1>1, <1>3, <1>5 DEF StackOK, MacroOf, Kept
<1>10. OwnersOK'
  <2>1. ASSUME NEW id \in DOMAIN inputs'
        PROVE  OwnedByCall(calls', id) \/ ExpandedBelow(inputStack', id, Len(inputStack') + 1)
    <3>1. OwnedByCall(calls, id) \/ ExpandedBelow(inputStack, id, n + 1)
      BY <1>1, <1>8, <2>1 DEF OwnersOK
    <3>2. ASSUME ExpandedBelow(inputStack, id, n + 1)
          PROVE  ExpandedBelow(inputStack', id, n + 1 + 1)
      BY <1>5, <3>2 DEF ExpandedBelow
    <3> QED BY <1>2, <1>5, <3>1, <3>2
  <2>2. \A m \in Names : busy'[m] => \E i \in DOMAIN inputStack' :
          IsMacro(inputStack'[i]) /\ MacroOf(inputs', inputStack'[i]) = m
    <3> SUFFICES ASSUME NEW m \in Names, busy'[m]
                 PROVE  \E i \in DOMAIN inputStack' :
                          IsMacro(inputStack'[i]) /\ MacroOf(inputs', inputStack'[i]) = m
      OBVIOUS
    <3>1. PICK i \in 1 .. n : IsMacro(inputStack[i]) /\ MacroOf(inputs, inputStack[i]) = m
      BY <1>1, <1>2, <1>5 DEF OwnersOK
    <3>2. i \in 1 .. n + 1
      BY <1>5
    <3> QED BY <1>5, <1>9, <3>1, <3>2
  <2> QED BY <2>1, <2>2 DEF OwnersOK
<1>11. \A i \in 1 .. n + 1 : i \in 1 .. n \/ i = n + 1
  BY <1>5
<1>12. ~IsMacro(x) /\ IsTokens(x) /\ ~IsMarker(x) /\ x.kind # "string"
  BY <1>4 DEF IsMacro, IsTokens, IsMarker
<1>13. StackOK'
  <2>1. ASSUME NEW i \in 1 .. n + 1
        PROVE  /\ inputStack'[i].kind = "string" => i = 1
               /\ IsMacro(inputStack'[i]) =>
                    /\ inputStack'[i].in \in DOMAIN inputs'
                    /\ busy'[MacroOf(inputs', inputStack'[i])]
                    /\ ~OwnedByCall(calls', inputStack'[i].in)
                    /\ \A j \in 1 .. n + 1 :
                         IsMacro(inputStack'[j])
                           /\ MacroOf(inputs', inputStack'[j]) = MacroOf(inputs', inputStack'[i])
                         => j = i
    <3>1. CASE i = n + 1
      BY <1>5, <1>12, <3>1
    <3>2. CASE i \in 1 .. n
      BY <1>1, <1>2, <1>5, <1>8, <1>9, <1>11, <1>12, <3>2 DEF StackOK
    <3> QED BY <1>11, <3>1, <3>2
  <2> QED BY <1>5, <2>1 DEF StackOK
<1>14. \A i \in 1 .. n : IsTokens(inputStack[i]) => inputStack[i].in # Top.in
  <2> SUFFICES ASSUME NEW i \in 1 .. n, IsTokens(inputStack[i]), inputStack[i].in = Top.in
               PROVE  FALSE
    OBVIOUS
  <2>1. ExpandedBelow(inputStack, Top.in, i)
    BY <1>1, <1>5, <1>6 DEF ArgumentsOK
  <2>2. PICK j \in 1 .. n : j < i /\ IsMacro(inputStack[j]) /\ inputStack[j].in = Top.in
    BY <1>5, <2>1 DEF ExpandedBelow
  <2>3. j = n
    BY <1>1, <1>5, <1>6, <2>2 DEF StackOK, MacroOf
  <2> QED BY <1>5, <2>2, <2>3
<1>15. ArgumentsOK'
  <2>1. ASSUME NEW i \in 1 .. n + 1, IsTokens(inputStack'[i])
        PROVE  /\ inputStack'[i].in \in DOMAIN inputs'
               /\ inputStack'[i].arg \in DOMAIN inputs'[inputStack'[i].in].args
               /\ inputStack'[i].preExpanded =>
                    inputs'[inputStack'[i].in].expandedArgs[inputStack'[i].arg] # NoStream
               /\ \/ OwnedByCall(calls', inputStack'[i].in) /\ ~inputStack'[i].preExpanded
                  \/ ExpandedBelow(inputStack', inputStack'[i].in, i)
               /\ \A j \in 1 .. n + 1 :
                    IsTokens(inputStack'[j]) /\ inputStack'[j].in = inputStack'[i].in => j = i
    <3>0. \A id \in DOMAIN inputs : DOMAIN inputs'[id].args = DOMAIN inputs[id].args
      <4> TAKE id \in DOMAIN inputs
      <4>1. /\ inputs[id].args \in Seq(Streams) /\ inputs'[id].args \in Seq(Streams)
            /\ Len(inputs'[id].args) = Len(inputs[id].args)
        BY <1>1, <1>3 DEF TypeOK, Objects, Kept
      <4> QED BY <4>1, LenProperties
    <3>1. CASE i = n + 1
      <4>1. ExpandedBelow(inputStack', Top.in, i)
        BY <1>5, <1>6, <3>1 DEF ExpandedBelow
      <4> QED BY <1>3, <1>4, <1>5, <1>6, <1>8, <1>11, <1>14, <3>0, <3>1, <4>1
    <3>2. CASE i \in 1 .. n
      <4> DEFINE y == inputStack[i]
      <4>1. inputStack'[i] = y /\ IsTokens(y) /\ y.in # Top.in
        BY <1>5, <1>14, <2>1, <3>2
      <4>2. /\ y.in \in DOMAIN inputs /\ y.arg \in DOMAIN inputs[y.in].args
            /\ y.preExpanded => inputs[y.in].expandedArgs[y.arg] # NoStream
            /\ (OwnedByCall(calls, y.in) /\ ~y.preExpanded) \/ ExpandedBelow(inputStack, y.in, i)
            /\ \A j \in 1 .. n : IsTokens(inputStack[j]) /\ inputStack[j].in = y.in => j = i
        BY <1>1, <1>5, <3>2, <4>1 DEF ArgumentsOK
      <4>3. y.arg \in DOMAIN inputs[y.in].expandedArgs
        <5>1. /\ inputs[y.in].args \in Seq(Streams)
              /\ inputs[y.in].expandedArgs \in Seq(Streams \cup {NoStream})
              /\ Len(inputs[y.in].expandedArgs) = Len(inputs[y.in].args)
          BY <1>1, <4>2 DEF TypeOK, Objects, ObjectsOK
        <5> QED BY <4>2, <5>1, LenProperties
      <4>4. y.preExpanded => inputs'[y.in].expandedArgs[y.arg] # NoStream
        BY <1>3, <4>2, <4>3 DEF StillExpanded
      <4>5. ExpandedBelow(inputStack', y.in, i) <=> ExpandedBelow(inputStack, y.in, i)
        BY <1>5, <2>1
      <4>6. \A j \in 1 .. n + 1 : IsTokens(inputStack'[j]) /\ inputStack'[j].in = y.in => j = i
        BY <1>4, <1>5, <1>11, <4>1, <4>2
      <4> HIDE DEF y
      <4> QED BY <1>2, <1>8, <3>0, <4>1, <4>2, <4>4, <4>5, <4>6
    <3> QED BY <1>11, <3>1, <3>2
  <2> QED BY <1>5, <2>1 DEF ArgumentsOK
<1>16. TokenOK'
  BY <1>2, NothingRead
<1>17. MarkersOK'
  <2>1. PICK owner : MarkersOf(owner, inputStack, token, calls, inputs)
    BY <1>1 DEF MarkersOK
  <2>2. ASSUME NEW i \in DOMAIN inputStack', Live(inputStack', token', i)
        PROVE  /\ i \in DOMAIN inputStack /\ Live(inputStack, token, i)
               /\ owner[i] \in DOMAIN calls' /\ Prescanning(calls'[owner[i]])
    <3>1. IsMarker(inputStack'[i]) /\ ~inputStack'[i].done
      BY <1>2, <2>2, NothingRead
    <3>2. i \in DOMAIN inputStack /\ inputStack'[i] = inputStack[i]
      BY <1>5, <1>11, <1>12, <3>1
    <3>3. Live(inputStack, token, i)
      BY <3>1, <3>2 DEF Live
    <3> QED BY <1>2, <2>1, <3>2, <3>3 DEF MarkersOf
  <2>3. ASSUME NEW i \in DOMAIN inputStack', NEW k \in DOMAIN calls',
               PushedFor(inputs', inputStack'[i], calls'[k])
        PROVE  /\ Prescanning(calls'[k])
               /\ i \in DOMAIN inputStack /\ k \in DOMAIN calls
               /\ PushedFor(inputs, inputStack[i], calls[k])
    <3>1. k \in DOMAIN calls /\ calls'[k] = calls[k]
      BY <1>2
    <3>2. i # n + 1
      BY <1>4, <1>5, <1>6, <1>12, <2>3, <3>1 DEF PushedFor, OwnedByCall
    <3>3. i \in 1 .. n /\ inputStack'[i] = inputStack[i]
      BY <1>5, <1>11, <3>2
    <3>4. PushedFor(inputs, inputStack[i], calls[k])
      BY <1>9, <2>3, <3>1, <3>3 DEF PushedFor
    <3> QED BY <1>5, <2>1, <3>1, <3>3, <3>4 DEF MarkersOf
  <2> QED BY <1>1, <2>1, <2>2, <2>3, MarkersStay, Zenon
<1> QED BY <1>1, <1>7, <1>10, <1>13, <1>15, <1>16, <1>17 DEF IInv

(***************************************************************************)
(* An expansion, or a call, begins.                                        *)
(***************************************************************************)
LEMMA BeginsWith ==
  ASSUME IInv, Expandable, NEW l \in Nat, l = Len(macroDefs[token.text].args),
         inputs' = NewInput(token.text, l), macroDefs' = macroDefs
  PROVE  /\ NewId \in Nat /\ NewId \notin DOMAIN inputs
         /\ DOMAIN inputs' = DOMAIN inputs \cup {NewId} /\ inputs'[NewId].mac = token.text
         /\ \A id \in DOMAIN inputs : inputs'[id] = inputs[id]
         /\ token.text \in Names /\ ~busy[token.text]
         /\ ObjectsOK'
         /\ \A i \in DOMAIN inputStack : IsMacro(inputStack[i]) \/ IsTokens(inputStack[i]) =>
              inputStack[i].in \in DOMAIN inputs
         /\ \A i \in DOMAIN inputStack : IsMacro(inputStack[i]) =>
              /\ MacroOf(inputs', inputStack[i]) = MacroOf(inputs, inputStack[i])
              /\ MacroOf(inputs, inputStack[i]) # token.text
         /\ \A k \in DOMAIN calls : calls[k].in \in DOMAIN inputs
<1>1. TypeOK /\ ObjectsOK /\ CallsOK /\ OwnersOK /\ StackOK /\ ArgumentsOK
  BY DEF IInv
<1>2. token.text \in Names /\ ~busy[token.text]
  BY DEF Expandable
<1>3. NewId \in Nat /\ NewId \notin DOMAIN inputs
  BY <1>1, NewIdIs
<1>4. /\ DOMAIN inputs' = DOMAIN inputs \cup {NewId} /\ inputs'[NewId].mac = token.text
      /\ \A id \in DOMAIN inputs : inputs'[id] = inputs[id]
      /\ Len(inputs'[NewId].args) = l /\ Len(inputs'[NewId].expandedArgs) = l
  <2> DEFINE new == NewInput(token.text, l)
  <2>1. /\ DOMAIN new = DOMAIN inputs \cup {NewId} /\ new[NewId].mac = token.text
        /\ \A id \in DOMAIN inputs : new[id] = inputs[id]
        /\ Len(new[NewId].args) = l /\ Len(new[NewId].expandedArgs) = l
    BY <1>1, <1>2, NewInputIs
  <2>2. inputs' = new
    OBVIOUS
  <2> HIDE DEF new
  <2> QED BY <2>1, <2>2
<1>5. ObjectsOK'
  <2>1. ASSUME NEW id \in DOMAIN inputs'
        PROVE  /\ Len(inputs'[id].args) = Len(macroDefs[inputs'[id].mac].args)
               /\ Len(inputs'[id].expandedArgs) = Len(inputs'[id].args)
    <3>1. CASE id = NewId
      BY <1>4, <3>1
    <3>2. CASE id \in DOMAIN inputs
      BY <1>1, <1>4, <3>2 DEF ObjectsOK
    <3> QED BY <1>4, <3>1, <3>2
  <2> QED BY <2>1 DEF ObjectsOK
<1>6. \A i \in DOMAIN inputStack : IsMacro(inputStack[i]) \/ IsTokens(inputStack[i]) =>
        inputStack[i].in \in DOMAIN inputs
  BY <1>1 DEF StackOK, ArgumentsOK
<1>7. \A i \in DOMAIN inputStack : IsMacro(inputStack[i]) =>
        /\ MacroOf(inputs', inputStack[i]) = MacroOf(inputs, inputStack[i])
        /\ MacroOf(inputs, inputStack[i]) # token.text
  BY <1>1, <1>2, <1>4, <1>6 DEF StackOK, MacroOf
<1>8. \A k \in DOMAIN calls : calls[k].in \in DOMAIN inputs
  BY <1>1 DEF CallsOK
<1> QED BY <1>2, <1>3, <1>4, <1>5, <1>6, <1>7, <1>8

LEMMA ArgumentsBelow ==
  ASSUME ArgumentsOK, DOMAIN inputStack \subseteq DOMAIN inputStack',
         \A i \in DOMAIN inputStack : inputStack'[i] = inputStack[i],
         \A i \in DOMAIN inputStack' : i \notin DOMAIN inputStack => ~IsTokens(inputStack'[i]),
         \A id : \A i \in DOMAIN inputStack :
           ExpandedBelow(inputStack', id, i) <=> ExpandedBelow(inputStack, id, i),
         \A i \in DOMAIN inputStack : IsTokens(inputStack[i]) =>
           /\ inputStack[i].in \in DOMAIN inputs'
           /\ inputs'[inputStack[i].in] = inputs[inputStack[i].in]
           /\ OwnedByCall(calls, inputStack[i].in) => OwnedByCall(calls', inputStack[i].in)
  PROVE  ArgumentsOK'
<1> SUFFICES ASSUME NEW i \in DOMAIN inputStack', IsTokens(inputStack'[i])
    PROVE  /\ inputStack'[i].in \in DOMAIN inputs'
           /\ inputStack'[i].arg \in DOMAIN inputs'[inputStack'[i].in].args
           /\ inputStack'[i].preExpanded =>
                inputs'[inputStack'[i].in].expandedArgs[inputStack'[i].arg] # NoStream
           /\ \/ OwnedByCall(calls', inputStack'[i].in) /\ ~inputStack'[i].preExpanded
              \/ ExpandedBelow(inputStack', inputStack'[i].in, i)
           /\ \A j \in DOMAIN inputStack' :
                IsTokens(inputStack'[j]) /\ inputStack'[j].in = inputStack'[i].in => j = i
  BY DEF ArgumentsOK
<1> DEFINE y == inputStack[i]
<1>1. i \in DOMAIN inputStack /\ inputStack'[i] = y /\ IsTokens(y)
  OBVIOUS
<1>2. /\ y.in \in DOMAIN inputs' /\ inputs'[y.in] = inputs[y.in]
      /\ OwnedByCall(calls, y.in) => OwnedByCall(calls', y.in)
      /\ ExpandedBelow(inputStack', y.in, i) <=> ExpandedBelow(inputStack, y.in, i)
  BY <1>1
<1>3. /\ y.arg \in DOMAIN inputs[y.in].args
      /\ y.preExpanded => inputs[y.in].expandedArgs[y.arg] # NoStream
      /\ (OwnedByCall(calls, y.in) /\ ~y.preExpanded) \/ ExpandedBelow(inputStack, y.in, i)
      /\ \A j \in DOMAIN inputStack : IsTokens(inputStack[j]) /\ inputStack[j].in = y.in => j = i
  BY <1>1 DEF ArgumentsOK
<1> HIDE DEF y
<1>4. \A j \in DOMAIN inputStack' : IsTokens(inputStack'[j]) /\ inputStack'[j].in = y.in => j = i
  BY <1>3
<1> QED BY <1>1, <1>2, <1>3, <1>4

\* The expansion of a macro that no input is an expansion of.
LEMMA ExpansionStarts ==
  ASSUME IInv, TypeOK', ObjectsOK', CallsOK', token' = NoToken, NEW id \in Nat, NEW m \in Names,
         inputStack' = Append(inputStack, MacroInput(id)), busy' = [busy EXCEPT ![m] = TRUE],
         DOMAIN inputs' = DOMAIN inputs \cup {id}, inputs'[id].mac = m,
         \A j \in DOMAIN inputs : inputs'[j] = inputs[j],
         \A i \in DOMAIN inputStack : IsMacro(inputStack[i]) => MacroOf(inputs, inputStack[i]) # m,
         \A i \in DOMAIN inputStack : IsTokens(inputStack[i]) => inputStack[i].in # id,
         ~OwnedByCall(calls', id),
         \A j : j # id => (OwnedByCall(calls', j) <=> OwnedByCall(calls, j)),
         \A k \in DOMAIN calls' : k \in DOMAIN calls /\ calls'[k] = calls[k] /\ Prescanning(calls[k]),
         \A k \in DOMAIN calls : Prescanning(calls[k]) => k \in DOMAIN calls'
  PROVE  IInv'
<1> DEFINE n == Len(inputStack)
           x == MacroInput(id)
<1>1. TypeOK /\ ObjectsOK /\ CallsOK /\ OwnersOK /\ StackOK /\ ArgumentsOK /\ MarkersOK
  BY DEF IInv
<1>3. \A i \in DOMAIN inputStack : IsMacro(inputStack[i]) =>
        /\ inputStack[i].in \in DOMAIN inputs /\ inputStack[i].in # id
        /\ MacroOf(inputs', inputStack[i]) = MacroOf(inputs, inputStack[i])
  BY <1>1 DEF StackOK, MacroOf
<1>4. x.kind = "macro" /\ x.in = id /\ x \in Inputs
  BY DEF MacroInput, Inputs
<1> HIDE DEF x
<1>5. /\ n \in Nat /\ DOMAIN inputStack = 1 .. n /\ DOMAIN inputStack' = 1 .. n + 1
      /\ Len(inputStack') = n + 1 /\ inputStack'[n + 1] = x
      /\ \A i \in 1 .. n : inputStack'[i] = inputStack[i]
      /\ \A e : \A i \in 1 .. n + 1 :
           ExpandedBelow(inputStack', e, i) <=> ExpandedBelow(inputStack, e, i)
  <2>1. inputStack' = Append(inputStack, x)
    BY DEF x
  <2> QED BY <1>1, <1>4, <2>1, BelowPush
<1>6. \A i \in 1 .. n + 1 : i \in 1 .. n \/ i = n + 1
  BY <1>5
<1>7. IsMacro(x) /\ ~IsTokens(x) /\ ~IsMarker(x) /\ x.kind # "string" /\ MacroOf(inputs', x) = m
  BY <1>3, <1>4 DEF IsMacro, IsTokens, IsMarker, MacroOf
<1>8. busy'[m] /\ \A d \in Names : d # m => busy'[d] = busy[d]
  BY <1>1 DEF TypeOK
<1>10. OwnersOK'
  <2>1. ASSUME NEW j \in DOMAIN inputs'
        PROVE  OwnedByCall(calls', j) \/ ExpandedBelow(inputStack', j, Len(inputStack') + 1)
    <3>1. CASE j = id
      BY <1>4, <1>5, <1>7, <3>1 DEF ExpandedBelow
    <3>2. CASE j \in DOMAIN inputs /\ j # id
      <4>1. OwnedByCall(calls, j) \/ ExpandedBelow(inputStack, j, n + 1)
        BY <1>1, <3>2 DEF OwnersOK
      <4>2. ExpandedBelow(inputStack, j, n + 1) => ExpandedBelow(inputStack', j, n + 1 + 1)
        BY <1>5 DEF ExpandedBelow
      <4> QED BY <1>5, <3>2, <4>1, <4>2
    <3> QED BY <3>1, <3>2
  <2>2. ASSUME NEW d \in Names, busy'[d]
        PROVE  \E i \in DOMAIN inputStack' :
                 IsMacro(inputStack'[i]) /\ MacroOf(inputs', inputStack'[i]) = d
    <3>1. CASE d = m
      BY <1>5, <1>7, <3>1
    <3>2. CASE d # m
      <4>1. PICK i \in 1 .. n : IsMacro(inputStack[i]) /\ MacroOf(inputs, inputStack[i]) = d
        BY <1>1, <1>5, <1>8, <2>2, <3>2 DEF OwnersOK
      <4>2. i \in 1 .. n + 1
        BY <1>5
      <4> QED BY <1>3, <1>5, <4>1, <4>2
    <3> QED BY <3>1, <3>2
  <2> QED BY <2>1, <2>2 DEF OwnersOK
<1>11. StackOK'
  <2>1. ASSUME NEW i \in 1 .. n + 1
        PROVE  /\ inputStack'[i].kind = "string" => i = 1
               /\ IsMacro(inputStack'[i]) =>
                    /\ inputStack'[i].in \in DOMAIN inputs'
                    /\ busy'[MacroOf(inputs', inputStack'[i])]
                    /\ ~OwnedByCall(calls', inputStack'[i].in)
                    /\ \A j \in 1 .. n + 1 :
                         IsMacro(inputStack'[j])
                           /\ MacroOf(inputs', inputStack'[j]) = MacroOf(inputs', inputStack'[i])
                         => j = i
    <3>1. CASE i = n + 1
      <4>2. \A j \in 1 .. n + 1 :
              IsMacro(inputStack'[j]) /\ MacroOf(inputs', inputStack'[j]) = m => j = i
        BY <1>3, <1>5, <1>6, <3>1
      <4> QED BY <1>3, <1>4, <1>5, <1>7, <1>8, <3>1, <4>2
    <3>2. CASE i \in 1 .. n
      <4> SUFFICES ASSUME IsMacro(inputStack[i])
                   PROVE  /\ inputStack[i].in \in DOMAIN inputs'
                          /\ busy'[MacroOf(inputs', inputStack[i])]
                          /\ ~OwnedByCall(calls', inputStack[i].in)
                          /\ \A j \in 1 .. n + 1 :
                               IsMacro(inputStack'[j])
                                 /\ MacroOf(inputs', inputStack'[j]) = MacroOf(inputs', inputStack[i])
                               => j = i
        BY <1>1, <1>5, <3>2 DEF StackOK
      <4>1. /\ inputStack[i].in \in DOMAIN inputs /\ MacroOf(inputs, inputStack[i]) # m
            /\ inputStack[i].in # id
            /\ MacroOf(inputs', inputStack[i]) = MacroOf(inputs, inputStack[i])
        BY <1>3, <1>5, <3>2
      <4>2. MacroOf(inputs, inputStack[i]) \in Names
        BY <1>1, <4>1 DEF TypeOK, Objects, MacroOf
      <4>3. /\ busy[MacroOf(inputs, inputStack[i])] /\ ~OwnedByCall(calls, inputStack[i].in)
            /\ \A j \in 1 .. n : IsMacro(inputStack[j])
                 /\ MacroOf(inputs, inputStack[j]) = MacroOf(inputs, inputStack[i]) => j = i
        BY <1>1, <1>5, <3>2 DEF StackOK
      <4>4. ASSUME NEW j \in 1 .. n + 1, IsMacro(inputStack'[j]),
                   MacroOf(inputs', inputStack'[j]) = MacroOf(inputs', inputStack[i])
            PROVE  j = i
        <5>1. j # n + 1
          BY <1>5, <1>7, <4>1, <4>4
        <5>2. j \in 1 .. n /\ inputStack'[j] = inputStack[j]
          BY <1>5, <1>6, <5>1
        <5> QED BY <1>3, <1>5, <4>1, <4>3, <4>4, <5>2
      <4> QED BY <1>3, <1>8, <4>1, <4>2, <4>3, <4>4
    <3> QED BY <1>6, <3>1, <3>2
  <2> QED BY <1>5, <2>1 DEF StackOK
<1>12. ArgumentsOK'
  <2>1. ASSUME NEW i \in DOMAIN inputStack, IsTokens(inputStack[i])
        PROVE  /\ inputStack[i].in \in DOMAIN inputs'
               /\ inputs'[inputStack[i].in] = inputs[inputStack[i].in]
               /\ OwnedByCall(calls, inputStack[i].in) => OwnedByCall(calls', inputStack[i].in)
    <3>1. inputStack[i].in \in DOMAIN inputs
      BY <1>1, <2>1 DEF ArgumentsOK
    <3> QED BY <2>1, <3>1
  <2> QED BY <1>1, <1>5, <1>6, <1>7, <2>1, ArgumentsBelow
<1>13. TokenOK'
  BY NothingRead
<1>14. MarkersOK'
  <2>1. PICK owner : MarkersOf(owner, inputStack, token, calls, inputs)
    BY <1>1 DEF MarkersOK
  <2>2. ASSUME NEW i \in DOMAIN inputStack', Live(inputStack', token', i)
        PROVE  /\ i \in DOMAIN inputStack /\ Live(inputStack, token, i)
               /\ owner[i] \in DOMAIN calls' /\ Prescanning(calls'[owner[i]])
    <3>1. IsMarker(inputStack'[i]) /\ ~inputStack'[i].done
      BY <2>2, NothingRead
    <3>2. i \in DOMAIN inputStack /\ inputStack'[i] = inputStack[i]
      BY <1>5, <1>6, <1>7, <3>1
    <3>3. Live(inputStack, token, i)
      BY <3>1, <3>2 DEF Live
    <3>4. owner[i] \in DOMAIN calls /\ Prescanning(calls[owner[i]])
      BY <2>1, <3>2, <3>3 DEF MarkersOf
    <3> QED BY <3>2, <3>3, <3>4
  <2>3. ASSUME NEW i \in DOMAIN inputStack', NEW k \in DOMAIN calls',
               PushedFor(inputs', inputStack'[i], calls'[k])
        PROVE  /\ Prescanning(calls'[k])
               /\ \/ /\ i \in DOMAIN inputStack /\ k \in DOMAIN calls
                     /\ PushedFor(inputs, inputStack[i], calls[k])
                  \/ \A j \in DOMAIN inputStack' : j > i => ~Live(inputStack', token', j)
    <3>1. k \in DOMAIN calls /\ calls'[k] = calls[k] /\ Prescanning(calls[k])
      OBVIOUS
    <3>2. CASE i = n + 1
      BY <1>5, <3>1, <3>2
    <3>3. CASE i \in 1 .. n
      <4>1. inputStack'[i] = inputStack[i] /\ i \in DOMAIN inputStack
        BY <1>5, <3>3
      <4> QED BY <1>3, <2>3, <3>1, <4>1 DEF PushedFor
    <3> QED BY <1>5, <1>6, <3>2, <3>3
  <2> QED BY <1>1, <2>1, <2>2, <2>3, MarkersStay, Zenon
<1> QED BY <1>10, <1>11, <1>12, <1>13, <1>14 DEF IInv

LEMMA ExpandObjectKeeps == IInv /\ ExpandObject => IInv'
<1> SUFFICES ASSUME IInv, ExpandObject PROVE IInv'
  OBVIOUS
<1> DEFINE m == token.text
<1>1. TypeOK' /\ TypeOK /\ CallsOK
  BY TypeKept DEF Next, MacroExpand, IInv
<1>2. /\ token' = NoToken /\ macroDefs' = macroDefs /\ calls' = calls /\ Expandable
      /\ inputs' = NewInput(m, 0) /\ ~macroDefs[m].functionLike
      /\ inputStack' = Append(inputStack, MacroInput(NewId)) /\ busy' = [busy EXCEPT ![m] = TRUE]
      /\ calls # <<>> => Call.phase = "prescan"
  BY DEF ExpandObject, StartExpansion, Handled, Expanding
<1>3. /\ NewId \in Nat /\ NewId \notin DOMAIN inputs
      /\ DOMAIN inputs' = DOMAIN inputs \cup {NewId} /\ inputs'[NewId].mac = m
      /\ \A id \in DOMAIN inputs : inputs'[id] = inputs[id]
      /\ m \in Names /\ ObjectsOK'
      /\ \A i \in DOMAIN inputStack : IsMacro(inputStack[i]) \/ IsTokens(inputStack[i]) =>
           inputStack[i].in \in DOMAIN inputs
      /\ \A i \in DOMAIN inputStack : IsMacro(inputStack[i]) => MacroOf(inputs, inputStack[i]) # m
      /\ \A k \in DOMAIN calls : calls[k].in \in DOMAIN inputs
  <2>1. 0 = Len(macroDefs[m].args) /\ 0 \in Nat
    BY <1>1, <1>2, ExpandableIs
  <2> QED BY <1>2, <2>1, BeginsWith
<1> HIDE DEF m
<1>4. CallsOK'
  <2>1. \A k \in DOMAIN calls : calls[k].in \in DOMAIN inputs' /\ inputs'[calls[k].in] = inputs[calls[k].in]
    BY <1>3
  <2> QED BY <1>1, <1>2, <2>1 DEF CallsOK
<1>5. \A k \in DOMAIN calls : Prescanning(calls[k])
  <2>1. DOMAIN calls = 1 .. Len(calls) /\ (calls # <<>> => Call = calls[Len(calls)])
    BY <1>1, CallIs, Domains
  <2> QED BY <1>1, <1>2, <2>1 DEF CallsOK, Prescanning
<1>6. ~OwnedByCall(calls', NewId)
  BY <1>2, <1>3 DEF OwnedByCall
<1> DEFINE id == NewId
<1>7. id \in Nat /\ DOMAIN inputs' = DOMAIN inputs \cup {id} /\ inputs'[id].mac = m
      /\ inputStack' = Append(inputStack, MacroInput(id)) /\ ~OwnedByCall(calls', id)
      /\ \A i \in DOMAIN inputStack : IsTokens(inputStack[i]) => inputStack[i].in # id
  BY <1>2, <1>3, <1>6
<1> HIDE DEF id
<1> QED BY <1>1, <1>2, <1>3, <1>4, <1>5, <1>7, ExpansionStarts

(***************************************************************************)
(* The innermost call ends, or prescans the next argument.                 *)
(***************************************************************************)
LEMMA NothingPushed ==
  ASSUME IInv, calls # <<>>, ~Prescanning(calls[Len(calls)])
  PROVE  /\ Len(calls) \in DOMAIN calls /\ Call = calls[Len(calls)]
         /\ \A i \in DOMAIN inputStack : ~PushedFor(inputs, inputStack[i], calls[Len(calls)])
<1>1. TypeOK /\ MarkersOK
  BY DEF IInv
<1>2. Len(calls) \in DOMAIN calls /\ Call = calls[Len(calls)]
  BY <1>1, CallIs
<1> QED BY <1>1, <1>2 DEF MarkersOK, MarkersOf

LEMMA WithoutInnermost ==
  ASSUME IInv, calls # <<>>, TypeOK', Alike(calls', Front(calls))
  PROVE  LET n == Len(calls) IN
         /\ n \in Nat \ {0} /\ DOMAIN calls = 1 .. n /\ DOMAIN calls' = 1 .. n - 1
         /\ Len(calls') = n - 1 /\ Call = calls[n] /\ Front(calls) \in Seq(Calls)
         /\ Len(Front(calls)) = n - 1 /\ \A k \in 1 .. n - 1 : Front(calls)[k] = calls[k]
         /\ \A k \in 1 .. n - 1 : calls'[k].in = calls[k].in /\ calls'[k].mac = calls[k].mac
         /\ \A k \in 1 .. n - 1 : calls[k].phase = "prescan" /\ calls[k].in # Call.in
         /\ \A k \in 1 .. n - 2 : calls'[k].phase = "prescan" /\ calls'[k].count = calls[k].count
         /\ ~OwnedByCall(calls', Call.in)
         /\ \A id : id # Call.in => (OwnedByCall(calls', id) <=> OwnedByCall(calls, id))
<1> DEFINE n == Len(calls)
<1>1. TypeOK /\ CallsOK
  BY DEF IInv
<1>2. /\ n \in Nat \ {0} /\ DOMAIN calls = 1 .. n /\ Call = calls[n]
  BY <1>1, CallIs
<1>3. /\ Front(calls) \in Seq(Calls) /\ Len(Front(calls)) = n - 1
      /\ \A k \in 1 .. n - 1 : Front(calls)[k] = calls[k]
  BY <1>1, OuterCalls
<1>4. DOMAIN calls' = 1 .. n - 1 /\ Len(calls') = n - 1
  BY <1>3, Domains2 DEF Alike
<1>5. \A k \in 1 .. n - 1 : calls'[k].in = calls[k].in /\ calls'[k].mac = calls[k].mac
  BY <1>3 DEF Alike
<1>6. \A k \in 1 .. n - 1 : calls[k].phase = "prescan" /\ calls[k].in # Call.in
  BY <1>1, <1>2 DEF CallsOK
<1>7. \A k \in 1 .. n - 2 : calls'[k].phase = "prescan" /\ calls'[k].count = calls[k].count
  <2> TAKE k \in 1 .. n - 2
  <2>1. k \in 1 .. n - 1 /\ k < n - 1 /\ k \in 1 .. Len(Front(calls))
    BY <1>2, <1>3
  <2>2. calls'[k].phase = Front(calls)[k].phase /\ calls'[k].count = Front(calls)[k].count
    BY <1>3, <2>1 DEF Alike
  <2> QED BY <1>3, <1>6, <2>1, <2>2
<1>8. ~OwnedByCall(calls', Call.in)
  BY <1>4, <1>5, <1>6 DEF OwnedByCall
<1>9. ASSUME NEW id, id # Call.in PROVE OwnedByCall(calls', id) <=> OwnedByCall(calls, id)
  <2>1. \A k \in 1 .. n : calls[k].in = id => k \in 1 .. n - 1
    BY <1>2, <1>9
  <2>2. 1 .. n - 1 \subseteq 1 .. n
    BY <1>2
  <2> QED BY <1>2, <1>4, <1>5, <2>1, <2>2 DEF OwnedByCall
<1> QED BY <1>2, <1>3, <1>4, <1>5, <1>6, <1>7, <1>8, <1>9

LEMMA ExpandCallKeeps == IInv /\ ExpandCall => IInv'
<1> SUFFICES ASSUME IInv, ExpandCall PROVE IInv'
  OBVIOUS
<1> DEFINE n == Len(calls)
<1>1. TypeOK' /\ TypeOK /\ CallsOK /\ ObjectsOK
  BY TypeKept DEF Next, MacroExpand, IInv
<1>2. /\ token' = NoToken /\ macroDefs' = macroDefs /\ inputs' = inputs /\ calls' = Front(calls)
      /\ inputStack' = Append(inputStack, MacroInput(Call.in))
      /\ busy' = [busy EXCEPT ![Call.mac] = TRUE]
      /\ calls # <<>> /\ Call.phase = "ready"
  BY DEF ExpandCall, StartExpansion, Ready
<1>3. Alike(calls', Front(calls))
  BY <1>1, <1>2, OuterCalls DEF SamePhases
<1>4. /\ n \in Nat \ {0} /\ DOMAIN calls = 1 .. n /\ DOMAIN calls' = 1 .. n - 1
      /\ Len(calls') = n - 1 /\ Call = calls[n]
      /\ \A k \in 1 .. n - 1 : Front(calls)[k] = calls[k]
      /\ \A k \in 1 .. n - 1 : calls[k].phase = "prescan" /\ calls[k].in # Call.in
      /\ ~OwnedByCall(calls', Call.in)
      /\ \A id : id # Call.in => (OwnedByCall(calls', id) <=> OwnedByCall(calls, id))
  BY <1>1, <1>2, <1>3, WithoutInnermost
<1>5. ~Prescanning(calls[n])
  BY <1>2, <1>4 DEF Prescanning
<1>6. \A i \in DOMAIN inputStack : ~PushedFor(inputs, inputStack[i], calls[n])
  BY <1>2, <1>5, NothingPushed
<1>7. Call.in \in DOMAIN inputs /\ Call.in \in Nat /\ inputs[Call.in].mac = Call.mac
  BY <1>1, <1>2, CallsObject
<1>8. Call.mac \in Names
  BY <1>1, <1>2, CallParts
<1>9. ObjectsOK'
  BY <1>1, <1>2 DEF ObjectsOK
<1>10. CallsOK'
  <2>1. \A k \in 1 .. n - 1 : calls'[k] = calls[k] /\ k \in 1 .. n /\ k < n
    <3>1. n \in Nat
      BY <1>4, Zenon
    <3>2. \A k \in 1 .. n - 1 : k \in 1 .. n /\ k < n
      BY <3>1
    <3> QED BY <1>2, <1>4, <3>2, Zenon
  <2>2. Len(calls) = n
    OBVIOUS
  <2> HIDE DEF n
  <2>3. ASSUME NEW k \in 1 .. n - 1
        PROVE  /\ calls'[k].in \in DOMAIN inputs' /\ inputs'[calls'[k].in].mac = calls'[k].mac
               /\ calls'[k].phase = "prescan"
               /\ calls'[k].phase \in {"ready", "prescan", "toss"} => calls'[k].count >= 1
               /\ Prescanning(calls'[k]) => calls'[k].count <= Len(inputs'[calls'[k].in].args)
               /\ \A l \in 1 .. n - 1 : calls'[l].in = calls'[k].in => l = k
    BY <1>1, <1>2, <1>4, <2>1, <2>2 DEF CallsOK
  <2> QED BY <1>4, <2>3, Zenon DEF CallsOK
<1>11. /\ \A i \in DOMAIN inputStack : IsMacro(inputStack[i]) =>
            MacroOf(inputs, inputStack[i]) # Call.mac
       /\ \A i \in DOMAIN inputStack : IsTokens(inputStack[i]) => inputStack[i].in # Call.in
  BY <1>4, <1>6 DEF PushedFor
<1>12. \A k \in DOMAIN calls' : k \in DOMAIN calls /\ calls'[k] = calls[k] /\ Prescanning(calls[k])
  BY <1>2, <1>4 DEF Prescanning
<1>13. \A k \in DOMAIN calls : Prescanning(calls[k]) => k \in DOMAIN calls'
  BY <1>4, <1>5
<1> DEFINE id == Call.in
           m == Call.mac
<1>14. /\ id \in Nat /\ m \in Names /\ ~OwnedByCall(calls', id)
       /\ DOMAIN inputs' = DOMAIN inputs \cup {id} /\ inputs'[id].mac = m
       /\ \A j \in DOMAIN inputs : inputs'[j] = inputs[j]
       /\ inputStack' = Append(inputStack, MacroInput(id)) /\ busy' = [busy EXCEPT ![m] = TRUE]
       /\ \A i \in DOMAIN inputStack : IsMacro(inputStack[i]) => MacroOf(inputs, inputStack[i]) # m
       /\ \A i \in DOMAIN inputStack : IsTokens(inputStack[i]) => inputStack[i].in # id
       /\ \A j : j # id => (OwnedByCall(calls', j) <=> OwnedByCall(calls, j))
  BY <1>2, <1>4, <1>7, <1>8, <1>11
<1> HIDE DEF id, m
<1> QED BY <1>1, <1>2, <1>9, <1>10, <1>12, <1>13, <1>14, ExpansionStarts

(* The call is given up: its object goes, and nothing was pushed for it.     *)
LEMMA CallDropped ==
  ASSUME IInv, TypeOK', calls # <<>>, ~Prescanning(calls[Len(calls)]),
         inputs' = Destroyed(Call.in), busy' = busy, macroDefs' = macroDefs,
         Alike(calls', Front(calls)),
         Front(calls) # <<>> =>
           \E phase \in {"prescan", "toss"} : LastPhase(calls', phase, Last(Front(calls)).count),
         Len(inputStack') >= Len(inputStack),
         \A i \in DOMAIN inputStack : inputStack'[i] = inputStack[i],
         \A i \in DOMAIN inputStack' : i \notin DOMAIN inputStack => inputStack'[i].kind = "ungot"
  PROVE  /\ ObjectsOK' /\ CallsOK' /\ OwnersOK' /\ StackOK' /\ ArgumentsOK'
         /\ \A k \in DOMAIN calls' : k \in DOMAIN calls /\ Prescanning(calls'[k])
         /\ \A k \in DOMAIN calls : Prescanning(calls[k]) => k \in DOMAIN calls'
         /\ \A i \in DOMAIN inputStack', k \in DOMAIN calls' :
              PushedFor(inputs', inputStack'[i], calls'[k]) =>
                i \in DOMAIN inputStack /\ PushedFor(inputs, inputStack[i], calls[k])
<1> DEFINE n == Len(calls)
           D == DOMAIN inputStack
           id == Call.in
<1>1. TypeOK /\ ObjectsOK /\ CallsOK /\ OwnersOK /\ StackOK /\ ArgumentsOK
  BY DEF IInv
<1>2. /\ n \in Nat \ {0} /\ DOMAIN calls = 1 .. n /\ DOMAIN calls' = 1 .. n - 1
      /\ Len(calls') = n - 1 /\ Call = calls[n] /\ Front(calls) \in Seq(Calls)
      /\ Len(Front(calls)) = n - 1 /\ \A k \in 1 .. n - 1 : Front(calls)[k] = calls[k]
      /\ \A k \in 1 .. n - 1 : calls'[k].in = calls[k].in /\ calls'[k].mac = calls[k].mac
      /\ \A k \in 1 .. n - 1 : calls[k].phase = "prescan" /\ calls[k].in # id
      /\ \A k \in 1 .. n - 2 : calls'[k].phase = "prescan" /\ calls'[k].count = calls[k].count
      /\ ~OwnedByCall(calls', id)
      /\ \A j : j # id => (OwnedByCall(calls', j) <=> OwnedByCall(calls, j))
  BY WithoutInnermost
<1>3. /\ DOMAIN inputs' = DOMAIN inputs \ {id}
      /\ \A j \in DOMAIN inputs' : inputs'[j] = inputs[j]
  BY <1>1, DestroyedIs
<1>4. \A i \in D : ~PushedFor(inputs, inputStack[i], calls[n])
  BY NothingPushed
<1>5. \A i \in D : IsMacro(inputStack[i]) \/ IsTokens(inputStack[i]) =>
        inputStack[i].in \in DOMAIN inputs /\ inputStack[i].in # id
  <2>1. OwnedByCall(calls, id)
    BY <1>2 DEF OwnedByCall
  <2>2. \A i \in D : IsMacro(inputStack[i]) =>
          inputStack[i].in \in DOMAIN inputs /\ inputStack[i].in # id
    BY <1>1, <2>1 DEF StackOK
  <2>3. \A i \in D : IsTokens(inputStack[i]) =>
          inputStack[i].in \in DOMAIN inputs /\ inputStack[i].in # id
    BY <1>1, <1>2, <1>4 DEF ArgumentsOK, PushedFor
  <2> QED BY <2>2, <2>3
<1>6. \A i \in D : IsMacro(inputStack[i]) =>
        MacroOf(inputs', inputStack[i]) = MacroOf(inputs, inputStack[i])
  BY <1>3, <1>5 DEF MacroOf
<1>7. /\ D = 1 .. Len(inputStack) /\ DOMAIN inputStack' = 1 .. Len(inputStack')
      /\ Len(inputStack) \in Nat /\ Len(inputStack') \in Nat
  BY <1>1, Domains, Domains2
<1>8. D \subseteq DOMAIN inputStack'
  BY <1>7
<1>9. \A i \in DOMAIN inputStack' : i \notin D =>
        /\ ~IsMacro(inputStack'[i]) /\ ~IsTokens(inputStack'[i])
        /\ inputStack'[i].kind # "string"
  BY DEF IsMacro, IsTokens
<1>10. \A j : \A i \in D : ExpandedBelow(inputStack', j, i) <=> ExpandedBelow(inputStack, j, i)
  BY <1>8, <1>9 DEF ExpandedBelow
<1>11. ObjectsOK'
  BY <1>1, <1>3, ObjectsFewer
<1>12. \A k \in 1 .. n - 1 :
         /\ calls[k].in \in DOMAIN inputs' /\ inputs'[calls[k].in] = inputs[calls[k].in]
         /\ inputs'[calls[k].in].mac = calls[k].mac
         /\ calls[k].count >= 1 /\ calls[k].count <= Len(inputs'[calls[k].in].args)
  <2> TAKE k \in 1 .. n - 1
  <2>1. k \in DOMAIN calls /\ calls[k].phase = "prescan" /\ calls[k].in # id
    BY <1>2
  <2>2. /\ calls[k].in \in DOMAIN inputs /\ inputs[calls[k].in].mac = calls[k].mac
        /\ calls[k].count >= 1 /\ calls[k].count <= Len(inputs[calls[k].in].args)
    BY <1>1, <2>1 DEF CallsOK, Prescanning
  <2>3. calls[k].in \in DOMAIN inputs' /\ inputs'[calls[k].in] = inputs[calls[k].in]
    BY <1>3, <2>1, <2>2
  <2> QED BY <2>2, <2>3
<1>13. \A k \in 1 .. n - 1 : Prescanning(calls'[k])
  <2> TAKE k \in 1 .. n - 1
  <2>1. CASE k \in 1 .. n - 2
    BY <1>2, <2>1 DEF Prescanning
  <2>2. CASE k = n - 1
    <3>1. Front(calls) # <<>>
      <4>1. Len(Front(calls)) # 0
        BY <1>2
      <4> QED BY <4>1
    <3> QED BY <1>2, <2>2, <3>1 DEF Prescanning, LastPhase
  <2>3. k \in 1 .. n - 2 \/ k = n - 1
    <3>1. n \in Nat
      BY <1>2, Zenon
    <3> QED BY <3>1
  <2> QED BY <2>1, <2>2, <2>3
<1>14. CallsOK'
  <2>1. LastOK(calls', inputs')
    <3> SUFFICES ASSUME calls' # <<>> PROVE LastOK(calls', inputs')
      BY DEF LastOK
    <3>1. Front(calls) # <<>> /\ n - 1 \in 1 .. n - 1
      <4>1. Len(calls') # 0
        BY DEF TypeOK
      <4>2. Len(Front(calls)) # 0 /\ n - 1 \in 1 .. n - 1
        BY <1>2, <4>1
      <4> QED BY <4>2
    <3>2. calls'[n - 1].count = calls[n - 1].count
      <4>1. Last(Front(calls)) = calls[n - 1]
        BY <1>2, <3>1 DEF Last
      <4> QED BY <1>2, <3>1, <4>1 DEF LastPhase
    <3> QED BY <1>2, <1>12, <3>1, <3>2 DEF LastOK
  <2>2. ASSUME NEW k \in 1 .. Len(Front(calls))
        PROVE  LET c == Front(calls) IN
               /\ c[k].in \in DOMAIN inputs' /\ inputs'[c[k].in].mac = c[k].mac
               /\ k < Len(c) =>
                    /\ c[k].phase = "prescan" /\ c[k].count >= 1
                    /\ c[k].count <= Len(inputs'[c[k].in].args)
               /\ \A l \in 1 .. Len(c) : c[l].in = c[k].in => l = k
    <3>1. k \in 1 .. n - 1 /\ Len(Front(calls)) = n - 1 /\ k \in DOMAIN calls
      BY <1>2
    <3>2. \A l \in 1 .. n - 1 : calls[l].in = calls[k].in => l = k
      BY <1>1, <1>2, <3>1 DEF CallsOK
    <3> QED BY <1>2, <1>12, <3>1, <3>2
  <2> QED BY <1>2, <2>1, <2>2, CallsFrom
<1>15. OwnersOK'
  <2>1. ASSUME NEW j \in DOMAIN inputs'
        PROVE  OwnedByCall(calls', j) \/ ExpandedBelow(inputStack', j, Len(inputStack') + 1)
    <3>1. j \in DOMAIN inputs /\ j # id
      BY <1>3
    <3>2. OwnedByCall(calls, j) \/ ExpandedBelow(inputStack, j, Len(inputStack) + 1)
      BY <1>1, <3>1 DEF OwnersOK
    <3>3. ExpandedBelow(inputStack, j, Len(inputStack) + 1) =>
            ExpandedBelow(inputStack', j, Len(inputStack') + 1)
      BY <1>7, <1>8 DEF ExpandedBelow
    <3> QED BY <1>2, <3>1, <3>2, <3>3
  <2>2. ASSUME NEW m \in Names, busy'[m]
        PROVE  \E i \in DOMAIN inputStack' :
                 IsMacro(inputStack'[i]) /\ MacroOf(inputs', inputStack'[i]) = m
    BY <1>1, <1>6, <1>8, <2>2 DEF OwnersOK
  <2> QED BY <2>1, <2>2 DEF OwnersOK
<1>16. StackOK'
  <2>1. ASSUME NEW i \in DOMAIN inputStack'
        PROVE  /\ inputStack'[i].kind = "string" => i = 1
               /\ IsMacro(inputStack'[i]) =>
                    /\ inputStack'[i].in \in DOMAIN inputs'
                    /\ busy'[MacroOf(inputs', inputStack'[i])]
                    /\ ~OwnedByCall(calls', inputStack'[i].in)
                    /\ \A j \in DOMAIN inputStack' :
                         IsMacro(inputStack'[j])
                           /\ MacroOf(inputs', inputStack'[j]) = MacroOf(inputs', inputStack'[i])
                         => j = i
    <3>1. CASE i \notin D
      BY <1>9, <3>1
    <3>2. CASE i \in D
      BY <1>1, <1>2, <1>3, <1>5, <1>6, <1>9, <3>2 DEF StackOK
    <3> QED BY <3>1, <3>2
  <2> QED BY <2>1 DEF StackOK
<1>17. ArgumentsOK'
  BY <1>1, <1>2, <1>3, <1>5, <1>8, <1>9, <1>10, ArgumentsBelow
<1>18. /\ \A k \in DOMAIN calls' : k \in DOMAIN calls /\ Prescanning(calls'[k])
       /\ \A k \in DOMAIN calls : Prescanning(calls[k]) => k \in DOMAIN calls'
  BY <1>2, <1>13
<1>19. ASSUME NEW i \in DOMAIN inputStack', NEW k \in DOMAIN calls',
              PushedFor(inputs', inputStack'[i], calls'[k])
       PROVE  i \in D /\ PushedFor(inputs, inputStack[i], calls[k])
  <2>1. i \in D
    BY <1>9, <1>19 DEF PushedFor
  <2> QED BY <1>2, <1>6, <1>19, <2>1 DEF PushedFor
<1> QED BY <1>11, <1>14, <1>15, <1>16, <1>17, <1>18, <1>19

LEMMA AbandonCallKeeps == IInv /\ AbandonCall => IInv'
<1> SUFFICES ASSUME IInv, AbandonCall PROVE IInv'
  OBVIOUS
<1>1. TypeOK' /\ TypeOK /\ MarkersOK
  BY TypeKept DEF Next, MacroExpand, IInv
<1>2. /\ token' = NoToken /\ inputs' = Destroyed(Call.in) /\ calls # <<>>
      /\ UNCHANGED <<inputStack, busy, macroDefs>> /\ Call.phase \in {"args", "recover"}
  BY DEF AbandonCall, Handled, definitions, Looking
<1>3. ~Prescanning(calls[Len(calls)])
  BY <1>1, <1>2, CallIs DEF Prescanning
<1>4. /\ Alike(calls', Front(calls))
      /\ Front(calls) # <<>> => LastPhase(calls', "toss", Last(Front(calls)).count)
  BY <1>1, AbandonStep
<1>5. Len(inputStack') >= Len(inputStack)
  BY <1>1, <1>2, Domains
<1>6. /\ ObjectsOK' /\ CallsOK' /\ OwnersOK' /\ StackOK' /\ ArgumentsOK'
      /\ \A k \in DOMAIN calls' : k \in DOMAIN calls /\ Prescanning(calls'[k])
      /\ \A k \in DOMAIN calls : Prescanning(calls[k]) => k \in DOMAIN calls'
      /\ \A i \in DOMAIN inputStack', k \in DOMAIN calls' :
           PushedFor(inputs', inputStack'[i], calls'[k]) =>
             i \in DOMAIN inputStack /\ PushedFor(inputs, inputStack[i], calls[k])
  BY <1>1, <1>2, <1>3, <1>4, <1>5, CallDropped
<1>7. TokenOK'
  BY <1>2, NothingRead
<1>8. MarkersOK'
  <2>1. PICK owner : MarkersOf(owner, inputStack, token, calls, inputs)
    BY <1>1 DEF MarkersOK
  <2>2. ASSUME NEW i \in DOMAIN inputStack', Live(inputStack', token', i)
        PROVE  /\ i \in DOMAIN inputStack /\ Live(inputStack, token, i)
               /\ owner[i] \in DOMAIN calls' /\ Prescanning(calls'[owner[i]])
    <3>1. i \in DOMAIN inputStack /\ Live(inputStack, token, i)
      BY <1>2, <2>2, NothingRead DEF Live
    <3>2. owner[i] \in DOMAIN calls /\ Prescanning(calls[owner[i]])
      BY <2>1, <3>1 DEF MarkersOf
    <3> QED BY <1>6, <3>1, <3>2
  <2> QED BY <1>1, <1>6, <2>1, <2>2, MarkersStay, Zenon
<1> QED BY <1>1, <1>6, <1>7, <1>8 DEF IInv

\* What was read in vain and is put back may be a marker: it stays with its owner.
LEMMA NotACallKeeps == IInv /\ NotACall => IInv'
<1> SUFFICES ASSUME IInv, NotACall PROVE IInv'
  OBVIOUS
<1> DEFINE n == Len(inputStack)
           x == UngotInput(token)
<1>1. TypeOK' /\ TypeOK /\ MarkersOK /\ TokenOK
  BY TypeKept DEF Next, MacroExpand, IInv
<1>2. /\ token' = NoToken /\ inputs' = Destroyed(Call.in) /\ calls # <<>> /\ token \in Pending
      /\ inputStack' = Append(inputStack, x)
      /\ UNCHANGED <<busy, macroDefs>> /\ Call.phase = "name"
  BY <1>1 DEF NotACall, Handled, definitions, Looking, TypeOK
<1>3. ~Prescanning(calls[Len(calls)])
  BY <1>1, <1>2, CallIs DEF Prescanning
<1>4. x \in Inputs /\ x.kind = "ungot" /\ x.token = token /\ x.done = FALSE
  BY <1>2 DEF UngotInput, Inputs
<1> HIDE DEF x
<1>5. /\ n \in Nat /\ DOMAIN inputStack = 1 .. n /\ DOMAIN inputStack' = 1 .. n + 1
      /\ Len(inputStack') = n + 1 /\ inputStack'[n + 1] = x
      /\ \A i \in 1 .. n : inputStack'[i] = inputStack[i]
  BY <1>1, <1>2, <1>4, BelowPush
<1>6. \A i \in 1 .. n + 1 : i \in 1 .. n \/ i = n + 1
  BY <1>5
<1>7. /\ Alike(calls', Front(calls))
      /\ Front(calls) # <<>> => LastPhase(calls', "prescan", Last(Front(calls)).count)
  <2>1. SamePhases(calls', Front(calls))
    BY <1>1, NotACallStep
  <2>2. Alike(calls', Front(calls))
    BY <2>1 DEF SamePhases
  <2>3. ASSUME Front(calls) # <<>>
        PROVE  LastPhase(calls', "prescan", Last(Front(calls)).count)
    <3>1. LET c == Front(calls) IN
          Last(c) = c[Len(c)] /\ Len(c) \in 1 .. Len(calls) - 1 /\ c[Len(c)].phase = "prescan"
      <4>1. /\ Front(calls) \in Seq(Calls) /\ Len(Front(calls)) = Len(calls) - 1
            /\ \A k \in 1 .. Len(calls) - 1 : Front(calls)[k] = calls[k]
            /\ \A k \in 1 .. Len(calls) - 1 : calls[k].phase = "prescan"
        BY <1>1, <1>2, <2>2, WithoutInnermost
      <4>2. Last(Front(calls)) = Front(calls)[Len(Front(calls))]
              /\ Len(Front(calls)) \in 1 .. Len(Front(calls))
        BY <2>3, <4>1, LastIs
      <4> QED BY <4>1, <4>2
    <3> QED BY <2>1, <2>3, <3>1 DEF SamePhases
  <2> QED BY <2>2, <2>3
<1>8. /\ ObjectsOK' /\ CallsOK' /\ OwnersOK' /\ StackOK' /\ ArgumentsOK'
      /\ \A k \in DOMAIN calls' : k \in DOMAIN calls /\ Prescanning(calls'[k])
      /\ \A k \in DOMAIN calls : Prescanning(calls[k]) => k \in DOMAIN calls'
      /\ \A i \in DOMAIN inputStack', k \in DOMAIN calls' :
           PushedFor(inputs', inputStack'[i], calls'[k]) =>
             i \in DOMAIN inputStack /\ PushedFor(inputs, inputStack[i], calls[k])
  <2>1. Len(inputStack') >= Len(inputStack)
    BY <1>5
  <2>2. \A i \in DOMAIN inputStack : inputStack'[i] = inputStack[i]
    BY <1>5
  <2>3. \A i \in DOMAIN inputStack' : i \notin DOMAIN inputStack => inputStack'[i].kind = "ungot"
    BY <1>4, <1>5, <1>6
  <2> QED BY <1>1, <1>2, <1>3, <1>7, <2>1, <2>2, <2>3, CallDropped
<1>9. TokenOK'
  BY <1>2, NothingRead
<1>10. PICK owner : MarkersOf(owner, inputStack, token, calls, inputs)
  BY <1>1 DEF MarkersOK
<1>11. ASSUME NEW i \in 1 .. n, Live(inputStack', token', i)
       PROVE  /\ i \in DOMAIN inputStack /\ Live(inputStack, token, i) /\ ~inputStack[i].done
              /\ owner[i] \in DOMAIN calls' /\ Prescanning(calls'[owner[i]])
  <2>1. IsMarker(inputStack[i]) /\ ~inputStack[i].done /\ i \in DOMAIN inputStack
    BY <1>2, <1>5, <1>11, NothingRead
  <2>2. Live(inputStack, token, i)
    BY <2>1 DEF Live
  <2>3. owner[i] \in DOMAIN calls /\ Prescanning(calls[owner[i]])
    BY <1>10, <2>1, <2>2 DEF MarkersOf
  <2> QED BY <1>8, <2>1, <2>2, <2>3
<1>12. CASE token.text # Marker
  <2>1. ~IsMarker(x)
    BY <1>4, <1>12 DEF IsMarker
  <2>2. ASSUME NEW i \in DOMAIN inputStack', Live(inputStack', token', i)
        PROVE  /\ i \in DOMAIN inputStack /\ Live(inputStack, token, i)
               /\ owner[i] \in DOMAIN calls' /\ Prescanning(calls'[owner[i]])
    <3>1. i # n + 1
      BY <1>5, <2>1, <2>2 DEF Live
    <3> QED BY <1>5, <1>6, <1>11, <2>2, <3>1
  <2>3. MarkersOK'
    BY <1>1, <1>8, <1>10, <2>2, MarkersStay, Zenon
  <2> QED BY <1>1, <1>8, <1>9, <2>3 DEF IInv
<1>13. CASE token.text = Marker
  <2> DEFINE o == [i \in 1 .. n + 1 |-> IF i = n + 1 THEN owner[n] ELSE owner[i]]
             L(i) == Live(inputStack', token', i)
  <2>1. /\ n \in DOMAIN inputStack /\ IsMarker(inputStack[n]) /\ inputStack[n].done
    <3>1. n # 0
      BY <1>1, <1>13 DEF TokenOK, TypeOK
    <3> QED BY <1>1, <1>5, <1>13, <3>1 DEF TokenOK
  <2>2. Live(inputStack, token, n)
    BY <1>13, <2>1 DEF Live
  <2>3. owner[n] \in DOMAIN calls' /\ Prescanning(calls'[owner[n]])
    <3>1. owner[n] \in DOMAIN calls /\ Prescanning(calls[owner[n]])
      BY <1>10, <2>1, <2>2 DEF MarkersOf
    <3> QED BY <1>8, <3>1
  <2>4. o[n + 1] = owner[n] /\ \A i \in 1 .. n : o[i] = owner[i] /\ i \in 1 .. n + 1 /\ i # n + 1
    BY <1>5
  <2>5. \A i \in 1 .. n + 1 : L(i) =>
          \/ i = n + 1
          \/ i \in 1 .. n /\ i < n /\ Live(inputStack, token, i)
    BY <1>5, <1>6, <1>11, <2>1
  <2> HIDE DEF o, L
  <2>6. \A i \in DOMAIN inputStack' : L(i) => o[i] \in DOMAIN calls' /\ Prescanning(calls'[o[i]])
    BY <1>5, <1>6, <1>11, <2>3, <2>4 DEF L
  <2>7. ASSUME NEW i \in DOMAIN inputStack', NEW j \in DOMAIN inputStack', L(i), L(j), i < j
        PROVE  o[i] < o[j]
    <3>1. i \in 1 .. n /\ i < n /\ Live(inputStack, token, i)
      BY <1>5, <2>5, <2>7
    <3>2. CASE j = n + 1
      BY <1>5, <1>10, <2>1, <2>2, <2>4, <3>1, <3>2 DEF MarkersOf
    <3>3. CASE j \in 1 .. n /\ Live(inputStack, token, j)
      BY <1>5, <1>10, <2>4, <2>7, <3>1, <3>3 DEF MarkersOf
    <3> QED BY <1>5, <2>5, <2>7, <3>2, <3>3
  <2>8. ASSUME NEW i \in DOMAIN inputStack', NEW k \in DOMAIN calls',
               PushedFor(inputs', inputStack'[i], calls'[k])
        PROVE  /\ Prescanning(calls'[k])
               /\ \A j \in DOMAIN inputStack' : L(j) /\ j > i => o[j] > k
    <3>1. i \in 1 .. n /\ PushedFor(inputs, inputStack[i], calls[k]) /\ k \in DOMAIN calls
      BY <1>5, <1>8, <2>8
    <3>2. i # n
      BY <2>1, <3>1, PushedKinds
    <3>3. Above(inputStack, token, owner, i, k)
      BY <1>5, <1>10, <3>1 DEF MarkersOf
    <3>4. ASSUME NEW j \in DOMAIN inputStack', L(j), j > i PROVE o[j] > k
      <4>1. CASE j = n + 1
        <5>1. n > i
          BY <1>5, <3>1, <3>2
        <5> QED BY <2>1, <2>2, <2>4, <3>3, <4>1, <5>1 DEF Above
      <4>2. CASE j \in 1 .. n /\ Live(inputStack, token, j)
        BY <1>5, <2>4, <3>3, <3>4, <4>2 DEF Above
      <4> QED BY <1>5, <2>5, <3>4, <4>1, <4>2
    <3> QED BY <1>8, <3>4
  <2>9. MarkersOf(o, inputStack', token', calls', inputs')
    BY <2>6, <2>7, <2>8 DEF MarkersOf, Above, L
  <2>10. MarkersOK'
    BY <1>1, <2>9, MarkersMade
  <2> QED BY <1>1, <1>8, <1>9, <2>10 DEF IInv
<1> QED BY <1>12, <1>13

LEMMA BeginCallKeeps == IInv /\ BeginCall => IInv'
<1> SUFFICES ASSUME IInv, BeginCall PROVE IInv'
  OBVIOUS
<1> DEFINE n == Len(calls)
           m == token.text
<1>1. /\ TypeOK' /\ TypeOK /\ CallsOK /\ OwnersOK /\ StackOK /\ ArgumentsOK /\ MarkersOK
  BY TypeKept DEF Next, MacroExpand, IInv
<1>2. /\ token' = NoToken /\ UNCHANGED <<inputStack, busy, macroDefs>> /\ Expandable
      /\ inputs' = NewInput(m, Len(macroDefs[m].args))
      /\ calls # <<>> => Call.phase = "prescan"
  BY DEF BeginCall, Handled, Expanding, definitions
<1>3. /\ NewId \notin DOMAIN inputs
      /\ DOMAIN inputs' = DOMAIN inputs \cup {NewId} /\ inputs'[NewId].mac = m
      /\ \A id \in DOMAIN inputs : inputs'[id] = inputs[id]
      /\ ObjectsOK'
      /\ \A i \in DOMAIN inputStack : IsMacro(inputStack[i]) \/ IsTokens(inputStack[i]) =>
           inputStack[i].in \in DOMAIN inputs
      /\ \A i \in DOMAIN inputStack : IsMacro(inputStack[i]) =>
           /\ MacroOf(inputs', inputStack[i]) = MacroOf(inputs, inputStack[i])
           /\ MacroOf(inputs, inputStack[i]) # m
      /\ \A k \in DOMAIN calls : calls[k].in \in DOMAIN inputs
  <2>1. Len(macroDefs[m].args) \in Nat
    BY <1>1, <1>2, ExpandableIs
  <2> DEFINE l == Len(macroDefs[m].args)
  <2>2. l \in Nat /\ l = Len(macroDefs[m].args) /\ inputs' = NewInput(m, l)
    BY <1>2, <2>1
  <2> HIDE DEF l
  <2> QED BY <1>2, <2>2, BeginsWith
<1>4. /\ n \in Nat /\ Len(calls') = n + 1
      /\ \A k \in 1 .. n : calls'[k] = calls[k]
      /\ calls'[n + 1].in = NewId /\ calls'[n + 1].mac = m /\ calls'[n + 1].phase = "name"
      /\ DOMAIN calls = 1 .. n /\ DOMAIN calls' = 1 .. n + 1
  BY <1>1, BeginCallStep
<1> HIDE DEF m
<1>5. \A k \in 1 .. n + 1 : k \in 1 .. n \/ k = n + 1
  BY <1>4
<1>6. \A k \in 1 .. n : calls[k].phase = "prescan" /\ Prescanning(calls[k])
  BY <1>1, <1>2, <1>4, CallIs DEF CallsOK, Prescanning
<1>7. \A id : OwnedByCall(calls', id) <=> id = NewId \/ OwnedByCall(calls, id)
  BY <1>4, <1>5 DEF OwnedByCall
<1>8. CallsOK'
  <2>1. ASSUME NEW k \in 1 .. n + 1
        PROVE  /\ calls'[k].in \in DOMAIN inputs' /\ inputs'[calls'[k].in].mac = calls'[k].mac
               /\ k < n + 1 => calls'[k].phase = "prescan"
               /\ calls'[k].phase \in {"ready", "prescan", "toss"} => calls'[k].count >= 1
               /\ calls'[k].phase \in {"prescan", "toss"} =>
                    calls'[k].count <= Len(inputs'[calls'[k].in].args)
               /\ \A l \in 1 .. n + 1 : calls'[l].in = calls'[k].in => l = k
    <3>1. CASE k = n + 1
      <4>1. \A l \in 1 .. n + 1 : calls'[l].in = NewId => l = n + 1
        BY <1>3, <1>4, <1>5
      <4> QED BY <1>3, <1>4, <3>1, <4>1
    <3>2. CASE k \in 1 .. n
      <4>1. /\ calls[k].in \in DOMAIN inputs /\ inputs[calls[k].in].mac = calls[k].mac
            /\ calls[k].count >= 1 /\ calls[k].count <= Len(inputs[calls[k].in].args)
            /\ \A l \in 1 .. n : calls[l].in = calls[k].in => l = k
        BY <1>1, <1>4, <1>6, <3>2 DEF CallsOK
      <4> QED BY <1>3, <1>4, <1>5, <1>6, <3>2, <4>1
    <3> QED BY <1>5, <3>1, <3>2
  <2> QED BY <1>4, <2>1 DEF CallsOK, Prescanning
<1>9. OwnersOK'
  <2>1. ASSUME NEW id \in DOMAIN inputs'
        PROVE  OwnedByCall(calls', id) \/ ExpandedBelow(inputStack, id, Len(inputStack) + 1)
    BY <1>1, <1>3, <1>7 DEF OwnersOK
  <2>2. ASSUME NEW d \in Names, busy[d]
        PROVE  \E i \in DOMAIN inputStack : IsMacro(inputStack[i]) /\ MacroOf(inputs', inputStack[i]) = d
    BY <1>1, <1>3, <2>2 DEF OwnersOK
  <2> QED BY <1>2, <2>1, <2>2 DEF OwnersOK
<1>10. StackOK'
  <2>1. ASSUME NEW i \in DOMAIN inputStack, IsMacro(inputStack[i])
        PROVE  /\ inputStack[i].in \in DOMAIN inputs'
               /\ busy[MacroOf(inputs', inputStack[i])]
               /\ ~OwnedByCall(calls', inputStack[i].in)
               /\ \A j \in DOMAIN inputStack :
                    IsMacro(inputStack[j])
                      /\ MacroOf(inputs', inputStack[j]) = MacroOf(inputs', inputStack[i])
                    => j = i
    BY <1>1, <1>3, <1>7, <2>1 DEF StackOK
  <2> QED BY <1>1, <1>2, <2>1 DEF StackOK
<1>11. ArgumentsOK'
  <2>1. \A i \in DOMAIN inputStack : IsTokens(inputStack[i]) =>
          /\ inputStack[i].in \in DOMAIN inputs'
          /\ inputs'[inputStack[i].in] = inputs[inputStack[i].in]
          /\ OwnedByCall(calls, inputStack[i].in) => OwnedByCall(calls', inputStack[i].in)
    BY <1>3, <1>7
  <2> QED BY <1>1, <1>2, <2>1, ArgumentsBelow
<1>12. TokenOK'
  BY <1>2, NothingRead
<1>13. MarkersOK'
  <2>1. PICK owner : MarkersOf(owner, inputStack, token, calls, inputs)
    BY <1>1 DEF MarkersOK
  <2>2. ASSUME NEW i \in DOMAIN inputStack', Live(inputStack', token', i)
        PROVE  /\ i \in DOMAIN inputStack /\ Live(inputStack, token, i)
               /\ owner[i] \in DOMAIN calls' /\ Prescanning(calls'[owner[i]])
    <3>1. i \in DOMAIN inputStack /\ Live(inputStack, token, i)
      BY <1>2, <2>2, NothingRead DEF Live
    <3>2. owner[i] \in 1 .. n
      BY <1>4, <2>1, <3>1 DEF MarkersOf
    <3> QED BY <1>4, <1>6, <3>1, <3>2
  <2>3. ASSUME NEW i \in DOMAIN inputStack', NEW k \in DOMAIN calls',
               PushedFor(inputs', inputStack'[i], calls'[k])
        PROVE  /\ Prescanning(calls'[k])
               /\ i \in DOMAIN inputStack /\ k \in DOMAIN calls
               /\ PushedFor(inputs, inputStack[i], calls[k])
    <3>1. k # n + 1
      BY <1>2, <1>3, <1>4, <2>3 DEF PushedFor
    <3>2. k \in 1 .. n
      BY <1>4, <1>5, <3>1
    <3>3. PushedFor(inputs, inputStack[i], calls[k])
      BY <1>2, <1>3, <1>4, <2>3, <3>2 DEF PushedFor
    <3> QED BY <1>2, <1>4, <1>6, <3>2, <3>3
  <2> QED BY <1>1, <2>1, <2>2, <2>3, MarkersStay, Zenon
<1> QED BY <1>1, <1>3, <1>8, <1>9, <1>10, <1>11, <1>12, <1>13 DEF IInv

\* The markers of the prescans are in the order of the calls.
LEMMA PrescanArgumentKeeps == IInv /\ PrescanArgument => IInv'
<1> SUFFICES ASSUME IInv, PrescanArgument PROVE IInv'
  OBVIOUS
<1> DEFINE n == Len(inputStack)
           c == Len(calls)
           y == TokenInput(Call.in, Call.count, FALSE)
<1>1. /\ TypeOK' /\ TypeOK /\ ObjectsOK /\ CallsOK /\ OwnersOK /\ StackOK /\ ArgumentsOK
      /\ MarkersOK
  BY TypeKept DEF Next, MacroExpand, IInv
<1>2. /\ token = NoToken /\ token' = token /\ UNCHANGED <<busy, macroDefs>>
      /\ calls # <<>> /\ Call.phase = "ready"
  BY DEF PrescanArgument, Ready, definitions
<1>3. /\ Kept(inputs', inputs) /\ StillExpanded(inputs', inputs)
      /\ Call.count \in DOMAIN inputs[Call.in].args /\ Call.count <= Len(inputs[Call.in].args)
  BY <1>1, PrescanObjects
<1>4. /\ Len(inputStack') = n + 2 /\ n \in Nat
      /\ DOMAIN inputStack' = 1 .. n + 2 /\ DOMAIN inputStack = 1 .. n
      /\ \A i \in 1 .. n : inputStack'[i] = inputStack[i]
      /\ inputStack'[n + 1] = MarkerInput /\ inputStack'[n + 2] = y
  BY <1>1, PrescanPush
<1>5. y.kind = "tokens" /\ y.in = Call.in /\ y.arg = Call.count /\ y.preExpanded = FALSE
  BY DEF TokenInput
<1> HIDE DEF y
<1>6. \A i \in 1 .. n + 2 : i \in 1 .. n \/ i = n + 1 \/ i = n + 2
  BY <1>4
<1>7. /\ MarkerInput.kind = "marker" /\ MarkerInput.done = FALSE
      /\ IsMarker(MarkerInput) /\ ~IsMacro(MarkerInput) /\ ~IsTokens(MarkerInput)
      /\ ~IsMarker(y) /\ ~IsMacro(y) /\ IsTokens(y)
  BY <1>5 DEF MarkerInput, IsMarker, IsMacro, IsTokens
<1>8. Alike(calls', calls) /\ LastPhase(calls', "prescan", Call.count)
  BY <1>1, PrescanStep
<1>9. /\ c \in Nat \ {0} /\ DOMAIN calls = 1 .. c /\ Call = calls[c] /\ Len(calls') = c
      /\ DOMAIN calls' = DOMAIN calls
      /\ \A k \in DOMAIN calls : calls'[k].in = calls[k].in /\ calls'[k].mac = calls[k].mac
      /\ \A id : OwnedByCall(calls', id) <=> OwnedByCall(calls, id)
  BY <1>1, <1>2, <1>8, CallIs, SameOwners DEF Alike
<1>10. ~Prescanning(calls[c])
  BY <1>2, <1>9 DEF Prescanning
<1>11. \A i \in 1 .. n : ~PushedFor(inputs, inputStack[i], calls[c])
  BY <1>2, <1>4, <1>10, NothingPushed
<1>12. \A i \in 1 .. n : IsTokens(inputStack[i]) => inputStack[i].in # Call.in
  BY <1>9, <1>11 DEF PushedFor
<1>13. /\ Call.in \in DOMAIN inputs /\ inputs[Call.in].mac = Call.mac /\ Call.count \in Nat \ {0}
       /\ OwnedByCall(calls, Call.in)
  BY <1>1, <1>2, <1>9, CallsObject DEF OwnedByCall
<1>14. DOMAIN inputs' = DOMAIN inputs
  BY <1>3 DEF Kept
<1>15. \A i \in 1 .. n : IsMacro(inputStack[i]) =>
         /\ inputStack[i].in \in DOMAIN inputs
         /\ MacroOf(inputs', inputStack[i]) = MacroOf(inputs, inputStack[i])
  BY <1>1, <1>3, <1>4 DEF StackOK, MacroOf, Kept
<1>16. \A id : \A i \in 1 .. n + 1 :
         ExpandedBelow(inputStack', id, i) <=> ExpandedBelow(inputStack, id, i)
  <2>1. \A i \in 1 .. n + 1 : \A j \in 1 .. n + 2 : j < i => j \in 1 .. n
    BY <1>4
  <2>2. 1 .. n \subseteq 1 .. n + 2
    BY <1>4
  <2> QED BY <1>4, <2>1, <2>2 DEF ExpandedBelow
<1>17. ObjectsOK' /\ CallsOK'
  <2>1. Len(inputs'[Call.in].args) = Len(inputs[Call.in].args)
    BY <1>3, <1>13 DEF Kept
  <2>2. LastOK(calls', inputs')
    BY <1>1, <1>2, <1>3, <1>8, <1>13, <2>1, LastIsOK
  <2> QED BY <1>1, <1>2, <1>3, <1>8, <2>2, ObjectsKept, CallsKept
<1>18. OwnersOK'
  <2>1. ASSUME NEW id \in DOMAIN inputs'
        PROVE  OwnedByCall(calls', id) \/ ExpandedBelow(inputStack', id, Len(inputStack') + 1)
    <3>1. OwnedByCall(calls, id) \/ ExpandedBelow(inputStack, id, n + 1)
      BY <1>1, <1>14, <2>1 DEF OwnersOK
    <3>2. ExpandedBelow(inputStack, id, n + 1) => ExpandedBelow(inputStack', id, n + 2 + 1)
      BY <1>4 DEF ExpandedBelow
    <3> QED BY <1>4, <1>9, <3>1, <3>2
  <2>2. ASSUME NEW m \in Names, busy'[m]
        PROVE  \E i \in DOMAIN inputStack' :
                 IsMacro(inputStack'[i]) /\ MacroOf(inputs', inputStack'[i]) = m
    <3>1. PICK i \in 1 .. n : IsMacro(inputStack[i]) /\ MacroOf(inputs, inputStack[i]) = m
      BY <1>1, <1>2, <1>4, <2>2 DEF OwnersOK
    <3>2. i \in 1 .. n + 2
      BY <1>4
    <3> QED BY <1>4, <1>15, <3>1, <3>2
  <2> QED BY <2>1, <2>2 DEF OwnersOK
<1>19. StackOK'
  <2>1. ASSUME NEW i \in 1 .. n + 2
        PROVE  /\ inputStack'[i].kind = "string" => i = 1
               /\ IsMacro(inputStack'[i]) =>
                    /\ inputStack'[i].in \in DOMAIN inputs'
                    /\ busy'[MacroOf(inputs', inputStack'[i])]
                    /\ ~OwnedByCall(calls', inputStack'[i].in)
                    /\ \A j \in 1 .. n + 2 :
                         IsMacro(inputStack'[j])
                           /\ MacroOf(inputs', inputStack'[j]) = MacroOf(inputs', inputStack'[i])
                         => j = i
    <3>1. CASE i \in {n + 1, n + 2}
      BY <1>4, <1>5, <1>7, <3>1
    <3>2. CASE i \in 1 .. n
      <4>1. inputStack'[i] = inputStack[i] /\ i \in DOMAIN inputStack
        BY <1>4, <3>2, Zenon
      <4>2. /\ inputStack[i].kind = "string" => i = 1
            /\ IsMacro(inputStack[i]) =>
                 /\ inputStack[i].in \in DOMAIN inputs /\ busy[MacroOf(inputs, inputStack[i])]
                 /\ ~OwnedByCall(calls, inputStack[i].in)
                 /\ \A j \in 1 .. n :
                      IsMacro(inputStack[j])
                        /\ MacroOf(inputs, inputStack[j]) = MacroOf(inputs, inputStack[i])
                      => j = i
        BY <1>1, <1>4, <4>1, Zenon DEF StackOK
      <4>3. ASSUME NEW j \in 1 .. n + 2, IsMacro(inputStack'[j])
            PROVE  j \in 1 .. n /\ inputStack'[j] = inputStack[j]
        BY <1>4, <1>6, <1>7, <4>3, Zenon
      <4> QED BY <1>2, <1>9, <1>14, <1>15, <3>2, <4>1, <4>2, <4>3, Zenon
    <3> QED BY <1>6, <3>1, <3>2
  <2> QED BY <1>4, <2>1 DEF StackOK
<1>20. ArgumentsOK'
  <2>0. \A id \in DOMAIN inputs : DOMAIN inputs'[id].args = DOMAIN inputs[id].args
    <3> TAKE id \in DOMAIN inputs
    <3>1. /\ inputs[id].args \in Seq(Streams) /\ inputs'[id].args \in Seq(Streams)
          /\ Len(inputs'[id].args) = Len(inputs[id].args)
      BY <1>1, <1>3 DEF TypeOK, Objects, Kept
    <3> QED BY <3>1, LenProperties
  <2>1. ASSUME NEW i \in 1 .. n + 2, IsTokens(inputStack'[i])
        PROVE  /\ inputStack'[i].in \in DOMAIN inputs'
               /\ inputStack'[i].arg \in DOMAIN inputs'[inputStack'[i].in].args
               /\ inputStack'[i].preExpanded =>
                    inputs'[inputStack'[i].in].expandedArgs[inputStack'[i].arg] # NoStream
               /\ \/ OwnedByCall(calls', inputStack'[i].in) /\ ~inputStack'[i].preExpanded
                  \/ ExpandedBelow(inputStack', inputStack'[i].in, i)
               /\ \A j \in 1 .. n + 2 :
                    IsTokens(inputStack'[j]) /\ inputStack'[j].in = inputStack'[i].in => j = i
    <3>1. CASE i = n + 2
      <4>1. \A j \in 1 .. n + 2 : IsTokens(inputStack'[j]) /\ inputStack'[j].in = Call.in => j = i
        BY <1>4, <1>6, <1>7, <1>12, <3>1
      <4> QED BY <1>3, <1>4, <1>5, <1>9, <1>13, <1>14, <2>0, <3>1, <4>1
    <3>2. CASE i \in 1 .. n
      <4> DEFINE z == inputStack[i]
      <4>1. inputStack'[i] = z /\ IsTokens(z) /\ z.in # Call.in /\ i \in 1 .. n + 1
        BY <1>4, <1>12, <2>1, <3>2
      <4>2. /\ z.in \in DOMAIN inputs /\ z.arg \in DOMAIN inputs[z.in].args
            /\ z.preExpanded => inputs[z.in].expandedArgs[z.arg] # NoStream
            /\ (OwnedByCall(calls, z.in) /\ ~z.preExpanded) \/ ExpandedBelow(inputStack, z.in, i)
            /\ \A j \in 1 .. n : IsTokens(inputStack[j]) /\ inputStack[j].in = z.in => j = i
        BY <1>1, <1>4, <3>2, <4>1 DEF ArgumentsOK
      <4>3. z.arg \in DOMAIN inputs[z.in].expandedArgs
        <5>1. /\ inputs[z.in].args \in Seq(Streams)
              /\ inputs[z.in].expandedArgs \in Seq(Streams \cup {NoStream})
              /\ Len(inputs[z.in].expandedArgs) = Len(inputs[z.in].args)
          BY <1>1, <4>2 DEF TypeOK, Objects, ObjectsOK
        <5> QED BY <4>2, <5>1, LenProperties
      <4>4. z.preExpanded => inputs'[z.in].expandedArgs[z.arg] # NoStream
        BY <1>3, <4>2, <4>3 DEF StillExpanded
      <4>5. ExpandedBelow(inputStack', z.in, i) <=> ExpandedBelow(inputStack, z.in, i)
        BY <1>16, <4>1
      <4>6. \A j \in 1 .. n + 2 : IsTokens(inputStack'[j]) /\ inputStack'[j].in = z.in => j = i
        BY <1>4, <1>5, <1>6, <1>7, <4>1, <4>2
      <4> HIDE DEF z
      <4> QED BY <1>9, <1>14, <2>0, <4>1, <4>2, <4>4, <4>5, <4>6
    <3> QED BY <1>4, <1>6, <1>7, <2>1, <3>1, <3>2
  <2> QED BY <1>4, <2>1 DEF ArgumentsOK
<1>21. TokenOK'
  BY <1>2, NothingRead
<1>22. PICK owner : MarkersOf(owner, inputStack, token, calls, inputs)
  BY <1>1 DEF MarkersOK
<1>23. MarkersOK'
  <2> DEFINE o == [i \in 1 .. n + 2 |-> IF i = n + 1 THEN c ELSE owner[i]]
             L(i) == Live(inputStack', token', i)
  <2>1. o[n + 1] = c /\ \A i \in 1 .. n : o[i] = owner[i] /\ i \in 1 .. n + 2 /\ i # n + 1
    BY <1>4
  <2>2. \A k \in DOMAIN calls : k # c /\ Prescanning(calls[k]) => Prescanning(calls'[k])
    BY <1>8, <1>9 DEF Alike, Prescanning
  <2>3. Prescanning(calls'[c])
    BY <1>8, <1>9 DEF LastPhase, Prescanning
  <2>4. ASSUME NEW i \in 1 .. n + 2, L(i)
        PROVE  \/ i = n + 1
               \/ /\ i \in 1 .. n /\ Live(inputStack, token, i)
                  /\ owner[i] \in DOMAIN calls /\ owner[i] < c /\ Prescanning(calls[owner[i]])
    <3>1. IsMarker(inputStack'[i]) /\ ~inputStack'[i].done
      BY <1>2, <2>4, NothingRead
    <3>2. CASE i \in 1 .. n
      <4>1. Live(inputStack, token, i)
        BY <1>4, <3>1, <3>2 DEF Live
      <4>2. owner[i] \in DOMAIN calls /\ Prescanning(calls[owner[i]])
        BY <1>4, <1>22, <3>2, <4>1 DEF MarkersOf
      <4>3. owner[i] < c
        BY <1>9, <1>10, <4>2
      <4> QED BY <3>2, <4>1, <4>2, <4>3
    <3> QED BY <1>4, <1>6, <1>7, <3>1, <3>2
  <2> HIDE DEF o, L
  <2>5. \A i \in DOMAIN inputStack' : L(i) => o[i] \in DOMAIN calls' /\ Prescanning(calls'[o[i]])
    BY <1>4, <1>9, <2>1, <2>2, <2>3, <2>4
  <2>6. ASSUME NEW i \in DOMAIN inputStack', NEW j \in DOMAIN inputStack', L(i), L(j), i < j
        PROVE  o[i] < o[j]
    <3>1. j = n + 1 \/ j \in 1 .. n
      BY <1>4, <2>4, <2>6
    <3>2. i \in 1 .. n
      BY <1>4, <2>4, <2>6, <3>1
    <3>3. Live(inputStack, token, i) /\ owner[i] < c
      BY <1>4, <2>4, <2>6, <3>2
    <3>4. CASE j = n + 1
      BY <2>1, <3>2, <3>3, <3>4
    <3>5. CASE j \in 1 .. n
      <4>1. Live(inputStack, token, j)
        BY <1>4, <2>4, <2>6, <3>5
      <4> QED BY <1>4, <1>22, <2>1, <2>6, <3>2, <3>3, <3>5, <4>1 DEF MarkersOf
    <3> QED BY <3>1, <3>4, <3>5
  <2>7. ASSUME NEW i \in DOMAIN inputStack', NEW k \in DOMAIN calls',
               PushedFor(inputs', inputStack'[i], calls'[k])
        PROVE  /\ Prescanning(calls'[k])
               /\ \A j \in DOMAIN inputStack' : L(j) /\ j > i => o[j] > k
    <3>1. CASE i \in 1 .. n
      <4>1. PushedFor(inputs, inputStack[i], calls[k]) /\ k \in DOMAIN calls
        BY <1>4, <1>9, <1>15, <2>7, <3>1 DEF PushedFor
      <4>2. k # c /\ k < c
        BY <1>9, <1>11, <3>1, <4>1
      <4>3. Prescanning(calls[k]) /\ Above(inputStack, token, owner, i, k)
        BY <1>4, <1>22, <3>1, <4>1 DEF MarkersOf
      <4>4. ASSUME NEW j \in DOMAIN inputStack', L(j), j > i PROVE o[j] > k
        <5>1. CASE j = n + 1
          BY <1>9, <2>1, <4>2, <5>1
        <5>2. CASE j \in 1 .. n /\ Live(inputStack, token, j)
          BY <1>4, <2>1, <4>3, <4>4, <5>2 DEF Above
        <5> QED BY <1>4, <2>4, <4>4, <5>1, <5>2
      <4> QED BY <2>2, <4>1, <4>2, <4>3, <4>4
    <3>2. CASE i = n + 2
      <4>1. calls[k].in = Call.in /\ k \in DOMAIN calls
        BY <1>4, <1>5, <1>7, <1>9, <2>7, <3>2 DEF PushedFor
      <4>2. k = c
        BY <1>1, <1>9, <4>1 DEF CallsOK
      <4>3. \A j \in DOMAIN inputStack' : ~(j > i)
        BY <1>4, <3>2
      <4> QED BY <2>3, <4>2, <4>3
    <3>3. i # n + 1
      BY <1>4, <1>7, <2>7 DEF PushedFor
    <3> QED BY <1>4, <1>6, <3>1, <3>2, <3>3
  <2>8. MarkersOf(o, inputStack', token', calls', inputs')
    BY <2>5, <2>6, <2>7 DEF MarkersOf, Above, L
  <2> QED BY <1>1, <2>8, MarkersMade
<1> QED BY <1>1, <1>17, <1>18, <1>19, <1>20, <1>21, <1>23 DEF IInv


(***************************************************************************)
(* A directive is handled where nothing is expanded: the source is the only *)
(* input, so no object exists and no macro is busy.                        *)
(***************************************************************************)
LEMMA AtTheSource ==
  ASSUME IInv, Define
  PROVE  /\ calls = <<>> /\ DOMAIN inputStack = {1} /\ inputStack[1].kind = "string"
         /\ DOMAIN inputs = {} /\ \A m \in Names : ~busy[m]
<1>1. TypeOK /\ OwnersOK /\ StackOK /\ TokenOK
  BY DEF IInv
<1>2. calls = <<>> /\ token # NoToken /\ token.text \in Directives /\ Top.kind = "string"
  BY DEF Define, AtBase
<1>3. inputStack # <<>>
  BY <1>1, <1>2, TokensAssumption DEF TokenOK
<1> DEFINE n == Len(inputStack)
<1>4. Top = inputStack[n] /\ n \in Nat \ {0} /\ DOMAIN inputStack = 1 .. n
  BY <1>1, <1>3, TopIs
<1>5. n = 1
  BY <1>1, <1>2, <1>4 DEF StackOK
<1>6. DOMAIN inputStack = {1} /\ inputStack[1].kind = "string"
  BY <1>2, <1>4, <1>5
<1>7. ~IsMacro(inputStack[1])
  BY <1>6 DEF IsMacro
<1>8. \A id : ~ExpandedBelow(inputStack, id, n + 1) /\ ~OwnedByCall(calls, id)
  BY <1>2, <1>6, <1>7 DEF ExpandedBelow, OwnedByCall
<1>9. DOMAIN inputs = {}
  BY <1>1, <1>8 DEF OwnersOK
<1>10. \A m \in Names : ~busy[m]
  BY <1>1, <1>6, <1>7 DEF OwnersOK
<1> QED BY <1>2, <1>6, <1>9, <1>10

LEMMA DefineKeeps == IInv /\ Define => IInv'
<1> SUFFICES ASSUME IInv, Define PROVE IInv'
  OBVIOUS
<1>1. TypeOK' /\ TypeOK
  BY TypeKept DEF Next, IInv
<1>2. /\ calls = <<>> /\ DOMAIN inputStack = {1} /\ inputStack[1].kind = "string"
      /\ DOMAIN inputs = {} /\ \A m \in Names : ~busy[m]
  BY AtTheSource
<1>3. Handled /\ UNCHANGED <<inputStack, inputs, calls>>
  BY DEF Define
<1>4. \A m \in Names : ~busy'[m]
  <2>1. PICK x : busy' = busy \/ busy' = [busy EXCEPT ![x] = FALSE]
    BY DEF Define
  <2> QED BY <1>1, <1>2, <2>1 DEF TypeOK
<1>5. /\ inputStack'[1].kind = "string" /\ DOMAIN inputStack' = {1} /\ DOMAIN calls' = {}
      /\ DOMAIN inputs' = {} /\ calls' = <<>>
  BY <1>2, <1>3
<1>6. ~IsMacro(inputStack'[1]) /\ ~IsTokens(inputStack'[1]) /\ ~IsMarker(inputStack'[1])
  BY <1>5 DEF IsMacro, IsTokens, IsMarker
<1>7. ObjectsOK' /\ CallsOK'
  BY <1>5 DEF ObjectsOK, CallsOK
<1>8. OwnersOK' /\ StackOK' /\ ArgumentsOK'
  BY <1>4, <1>5, <1>6 DEF OwnersOK, StackOK, ArgumentsOK
<1>9. TokenOK'
  BY <1>3, NothingRead DEF Handled
<1>10. MarkersOK'
  <2> DEFINE owner == [i \in {1} |-> 0]
  <2>1. \A i \in DOMAIN inputStack' : ~Live(inputStack', token', i)
    BY <1>5, <1>6 DEF Live
  <2> HIDE DEF owner
  <2>2. MarkersOf(owner, inputStack', token', calls', inputs')
    BY <1>5, <2>1 DEF MarkersOf
  <2> QED BY <1>1, <2>2, MarkersMade
<1> QED BY <1>1, <1>7, <1>8, <1>9, <1>10 DEF IInv

(***************************************************************************)
(* The theorem.                                                            *)
(***************************************************************************)
LEMMA InvInit == Init => IInv
<1> SUFFICES ASSUME Init PROVE IInv
  OBVIOUS
<1>1. TypeOK
  BY TypeInit
<1>2. /\ DOMAIN inputStack = {1} /\ inputStack[1].kind = "string" /\ DOMAIN inputs = {}
      /\ calls = <<>> /\ DOMAIN calls = {} /\ Len(calls) = 0
      /\ token = NoToken /\ \A m \in Names : ~busy[m]
  BY DEF Init, StringInput
<1>3. ~IsMacro(inputStack[1]) /\ ~IsTokens(inputStack[1]) /\ ~IsMarker(inputStack[1])
  BY <1>2 DEF IsMacro, IsTokens, IsMarker
<1>4. ObjectsOK /\ CallsOK
  BY <1>2 DEF ObjectsOK, CallsOK
<1>5. OwnersOK /\ StackOK /\ ArgumentsOK
  BY <1>2, <1>3 DEF OwnersOK, StackOK, ArgumentsOK
<1>6. TokenOK
  BY <1>2 DEF TokenOK, NoToken, Marker, EndOfInput
<1>7. MarkersOK
  <2> DEFINE owner == [i \in {1} |-> 0]
  <2>1. \A i \in DOMAIN inputStack : ~Live(inputStack, token, i)
    BY <1>2, <1>3 DEF Live
  <2>2. owner \in [DOMAIN inputStack -> 0 .. Len(calls)]
    BY <1>2
  <2> HIDE DEF owner
  <2>3. MarkersOf(owner, inputStack, token, calls, inputs)
    BY <1>2, <2>1 DEF MarkersOf
  <2> QED BY <2>2, <2>3 DEF MarkersOK
<1> QED BY <1>1, <1>4, <1>5, <1>6, <1>7 DEF IInv

LEMMA InvStutter == IInv /\ UNCHANGED vars => IInv'
BY DEF IInv, vars, definitions, history, TypeOK, ObjectsOK, CallsOK, OwnersOK, StackOK, ArgumentsOK,
       TokenOK, MarkersOK

LEMMA InvNext == IInv /\ Next => IInv'
<1> SUFFICES ASSUME IInv, Next PROVE IInv'
  OBVIOUS
<1>1. CASE Scan
  BY <1>1, PopKeeps, PushArgumentKeeps, TakeKeeps, NoInputKeeps DEF Scan
<1>2. CASE Emit
  BY <1>2, EmitKeeps
<1>3. CASE Define
  BY <1>3, DefineKeeps
<1>4. CASE Stop
  BY <1>4, UnchangedCallsKeep
<1>5. CASE MacroExpand
  BY <1>5, ExpandObjectKeeps, BeginCallKeeps, NotACallKeeps, ReadingArgumentsKeeps, AbandonCallKeeps,
     PrescanArgumentKeeps, UnchangedCallsKeep, EndPrescanKeeps, ExpandCallKeeps DEF MacroExpand
<1> QED BY <1>1, <1>2, <1>3, <1>4, <1>5 DEF Next

(* The inductive invariant holds for all macros and texts: objects are owned *)
(* by one call or one expansion, the bits and the inputs agree, and there is *)
(* an assignment of the markers still to be met to the calls that prescan,   *)
(* in their order, whatever errors were made in calls within calls.          *)
THEOREM ExpansionInvariance == Spec => []IInv
<1>1. IInv /\ [Next]_vars => IInv'
  BY InvNext, InvStutter
<1> QED BY <1>1, InvInit, PTL DEF Spec


(***************************************************************************)
(* What follows for the objects.                                           *)
(***************************************************************************)
LEMMA OwnersAre ==
  ASSUME NEW i, NEW id
  PROVE  id \in OwnersBelow(i) <=>
           \/ OwnedByCall(calls, id)
           \/ \E j \in 1 .. i : inputStack[j].kind = "macro" /\ inputStack[j].in = id
<1>1. (\E c \in ToSet(calls) : c.in = id) <=> OwnedByCall(calls, id)
  BY DEF ToSet, OwnedByCall
<1> QED BY <1>1 DEF OwnersBelow

LEMMA OneExpansion ==
  IInv => \A m \in Names : Cardinality(Expansions(m)) = IF busy[m] THEN 1 ELSE 0
<1> SUFFICES ASSUME IInv, NEW m \in Names
             PROVE  Cardinality(Expansions(m)) = IF busy[m] THEN 1 ELSE 0
  OBVIOUS
<1>1. OwnersOK /\ StackOK
  BY DEF IInv
<1>2. \A i \in DOMAIN inputStack :
        i \in Expansions(m) <=> IsMacro(inputStack[i]) /\ MacroOf(inputs, inputStack[i]) = m
  BY DEF Expansions, IsMacro, MacroOf
<1>3. Expansions(m) \subseteq DOMAIN inputStack
  BY DEF Expansions
<1>4. CASE busy[m]
  <2>1. PICK i \in DOMAIN inputStack : IsMacro(inputStack[i]) /\ MacroOf(inputs, inputStack[i]) = m
    BY <1>1, <1>4 DEF OwnersOK
  <2>2. \A j \in Expansions(m) : j = i
    BY <1>1, <1>2, <1>3, <2>1 DEF StackOK
  <2>3. Expansions(m) = {i}
    BY <1>2, <1>3, <2>1, <2>2
  <2> QED BY <1>4, <2>3, FS_Singleton
<1>5. CASE ~busy[m]
  <2>1. Expansions(m) = {}
    BY <1>1, <1>2, <1>3, <1>5 DEF StackOK
  <2> QED BY <1>5, <2>1, FS_EmptySet
<1> QED BY <1>4, <1>5

LEMMA ObjectsAreOwned == IInv => DOMAIN inputs = OwnersBelow(Len(inputStack))
<1> SUFFICES ASSUME IInv, NEW id
             PROVE  id \in DOMAIN inputs <=> id \in OwnersBelow(Len(inputStack))
  OBVIOUS
<1> DEFINE n == Len(inputStack)
<1>1. TypeOK /\ CallsOK /\ OwnersOK /\ StackOK
  BY DEF IInv
<1>2. DOMAIN inputStack = 1 .. n /\ n \in Nat
  BY <1>1, Domains
<1>3. ExpandedBelow(inputStack, id, n + 1) <=>
        \E j \in 1 .. n : inputStack[j].kind = "macro" /\ inputStack[j].in = id
  BY <1>2 DEF ExpandedBelow, IsMacro
<1>4. id \in OwnersBelow(n) <=> OwnedByCall(calls, id) \/ ExpandedBelow(inputStack, id, n + 1)
  BY <1>3, OwnersAre
<1>5. id \in DOMAIN inputs => OwnedByCall(calls, id) \/ ExpandedBelow(inputStack, id, n + 1)
  BY <1>1 DEF OwnersOK
<1>6. OwnedByCall(calls, id) => id \in DOMAIN inputs
  BY <1>1 DEF CallsOK, OwnedByCall
<1>7. ExpandedBelow(inputStack, id, n + 1) => id \in DOMAIN inputs
  BY <1>1 DEF StackOK, ExpandedBelow
<1> QED BY <1>4, <1>5, <1>6, <1>7

LEMMA ArgumentsAreOwned ==
  IInv => \A i \in DOMAIN inputStack : inputStack[i].kind = "tokens" =>
            /\ inputStack[i].in \in OwnersBelow(i)
            /\ \A j \in DOMAIN inputStack : inputStack[j] = inputStack[i] => j = i
<1> SUFFICES ASSUME IInv, NEW i \in DOMAIN inputStack, inputStack[i].kind = "tokens"
             PROVE  /\ inputStack[i].in \in OwnersBelow(i)
                    /\ \A j \in DOMAIN inputStack : inputStack[j] = inputStack[i] => j = i
  OBVIOUS
<1>1. TypeOK /\ ArgumentsOK /\ IsTokens(inputStack[i])
  BY DEF IInv, IsTokens
<1>2. DOMAIN inputStack = 1 .. Len(inputStack) /\ Len(inputStack) \in Nat
  BY <1>1, Domains
<1>3. /\ \/ OwnedByCall(calls, inputStack[i].in)
         \/ ExpandedBelow(inputStack, inputStack[i].in, i)
      /\ \A j \in DOMAIN inputStack :
           IsTokens(inputStack[j]) /\ inputStack[j].in = inputStack[i].in => j = i
  BY <1>1 DEF ArgumentsOK
<1>4. ExpandedBelow(inputStack, inputStack[i].in, i) =>
        \E j \in 1 .. i : inputStack[j].kind = "macro" /\ inputStack[j].in = inputStack[i].in
  BY <1>2 DEF ExpandedBelow, IsMacro
<1> QED BY <1>1, <1>3, <1>4, OwnersAre

(* For all macros, texts and depths of calls: a macro is busy if and only if *)
(* there is one expansion of it among the inputs, an object exists as long   *)
(* as a call being made or an expansion needs it, and arguments are read from *)
(* objects that exist, by one input at a time (Pp.cpp, MacroExpand and       *)
(* PrescanMacroArg; PpContext.h, tMacroInput).                               *)
THEOREM ObjectsInUse == Spec => []InUse
<1>1. IInv => InUse
  BY OneExpansion, ObjectsAreOwned, ArgumentsAreOwned DEF InUse
<1> QED BY <1>1, ExpansionInvariance, PTL
===============================================================================
