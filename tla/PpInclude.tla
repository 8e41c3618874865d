------------------------------- MODULE PpInclude -------------------------------
(***************************************************************************)
(* #include (preprocessor/Pp.cpp, CPPinclude; PpContext.h, scanToken,      *)
(* TokenizableIncludeFile): the results an includer hands out, the stack   *)
(* of inputs that are scanned, and the three places that follow it: the    *)
(* stack of includes, the name of the current file and the scanner of the  *)
(* parse context.  The includer belongs to the caller and serves one parse *)
(* after the other; any includer that keeps to TShader::Includer will do.  *)
(***************************************************************************)
EXTENDS Naturals, Sequences, SequencesExt, FiniteSetsExt

CONSTANTS
  Sources,     \* files that are compiled (names of string 0)
  Headers,     \* files that can be included
  NoFile       \* the empty header name of a failed inclusion

ASSUME IncludeAssumption == NoFile \notin Sources \cup Headers

VARIABLES
  stage,              \* "idle", "parsing", or "stopped": EndOfInput was returned
  rootFileName,
  inputStack,         \* what lies on the source string: [result, prevScanner]
  includeStack,       \* results
  currentSourceFile,
  scanner,            \* what parseContext.getScanner() returns
  held                \* results handed out and not released

ppVars ==
  <<stage, rootFileName, inputStack, includeStack, currentSourceFile, scanner, held>>

\* The scanner of the source string; an include's scanner goes by its result.
SourceScanner == [id |-> 0, file |-> NoFile, text |-> FALSE]

\* A result is an object of its own, even if the same file is included again.
NewResult(h, f, text) ==
  [id |-> Max({r.id : r \in h} \cup {0}) + 1, file |-> f, text |-> text]

\* What an includer may answer; a failure is a null pointer or a result with
\* an empty name.
Answers == [null : BOOLEAN, file : Headers \cup {NoFile}, text : BOOLEAN]
Null == [null |-> TRUE, file |-> NoFile, text |-> FALSE]
Failed(a) == a.null \/ a.file = NoFile

-------------------------------------------------------------------------------
PpInit ==
  /\ stage = "idle"
  /\ rootFileName \in Sources
  /\ currentSourceFile = rootFileName
  /\ inputStack = <<>> /\ includeStack = <<>>
  /\ scanner = SourceScanner
  /\ held = {}

\* A new TPpContext and its setInput().
StartParse(s) ==
  /\ stage = "idle"
  /\ stage' = "parsing"
  /\ rootFileName' = s /\ currentSourceFile' = s
  /\ scanner' = SourceScanner
  /\ UNCHANGED <<inputStack, includeStack, held>>

\* pushInput(), notifyActivated() and push_include().
PushInclude(r) ==
  /\ inputStack' = Append(inputStack, [result |-> r, prevScanner |-> scanner])
  /\ scanner' = r
  /\ currentSourceFile' = r.file
  /\ includeStack' = Append(includeStack, r)

Enters(a) == ~Failed(a) /\ a.text

\* The results that are held once the includer has answered a, and once the
\* preprocessor, with h held, has released what cannot be entered.
Given(h, a) == IF a.null THEN h ELSE h \cup {NewResult(h, a.file, a.text)}
AfterFailure(h, before, a) == IF Failed(a) THEN before ELSE h
KeepEmpty(h, before, a) == IF Failed(a) THEN before ELSE h
AfterUse(h, before, a) == IF Enters(a) THEN h ELSE before

\* includeLocal() answers first, and if that is a failure, or the header is in
\* angle brackets, includeSystem() answers second.
Asked(local, first) == IF local THEN first ELSE Null
Answer(local, first, second) ==
  IF Failed(Asked(local, first)) THEN second ELSE first

CPPinclude(local, first, second) ==
  LET asked == Asked(local, first)
      given == Given(held, asked)
      kept == AfterFailure(given, held, asked)
      a == Answer(local, first, second)
      all == IF Failed(asked) THEN Given(kept, second) ELSE kept
      r == NewResult(IF Failed(asked) THEN kept ELSE held, a.file, a.text) IN
  /\ stage = "parsing"
  /\ held' = AfterUse(all, all \ {r}, a)
  /\ IF Enters(a) THEN PushInclude(r)
     ELSE UNCHANGED <<inputStack, scanner, currentSourceFile, includeStack>>
  /\ UNCHANGED <<stage, rootFileName>>

\* The name to go back to once the last of includes has been popped.
RootBelow(includes) == rootFileName
SourceBelow(includes) ==
  IF Len(includes) = 1 THEN rootFileName ELSE includes[Len(includes) - 1].file

\* popInput(), notifyDeleted() and pop_include(), which releases what is on
\* top of includeStack.
PopInput ==
  /\ inputStack # <<>>
  /\ scanner' = Last(inputStack).prevScanner
  /\ held' = held \ {Last(includeStack)}
  /\ includeStack' = Front(includeStack)
  /\ currentSourceFile' = SourceBelow(includeStack)
  /\ inputStack' = Front(inputStack)

\* scanToken() reaches the end of an included file.
EndOfFile == stage = "parsing" /\ PopInput /\ UNCHANGED <<stage, rootFileName>>

\* The source is at its end, or an error ends the parse within an include.
EndOfSource ==
  /\ stage = "parsing"
  /\ stage' = "stopped"
  /\ UNCHANGED <<rootFileName, inputStack, includeStack, currentSourceFile, scanner, held>>

\* The destructor of TPpContext pops what is left.
Unwound == inputStack = <<>>
Unwind == stage = "stopped" /\ PopInput /\ UNCHANGED <<stage, rootFileName>>
Destroy ==
  /\ stage = "stopped" /\ Unwound
  /\ stage' = "idle"
  /\ UNCHANGED <<rootFileName, inputStack, includeStack, currentSourceFile, scanner, held>>

PpNext ==
  \/ \E s \in Sources : StartParse(s)
  \/ \E local \in BOOLEAN, a, b \in Answers : CPPinclude(local, a, b)
  \/ EndOfFile \/ EndOfSource \/ Unwind \/ Destroy

PpSpec == PpInit /\ [][PpNext]_ppVars

-------------------------------------------------------------------------------
(* Whatever is included, ended and abandoned: the include stack, the current *)
(* file and the scanner are those of the innermost input, and every scanner  *)
(* below it is the one to go back to.                                        *)
FollowsInput ==
  LET n == Len(inputStack)
      Scanner(i) == IF i = 0 THEN SourceScanner ELSE inputStack[i].result IN
  /\ includeStack = [i \in 1 .. n |-> inputStack[i].result]
  /\ stage # "idle" =>
       /\ scanner = Scanner(n)
       /\ \A i \in 1 .. n : inputStack[i].prevScanner = Scanner(i - 1)
       /\ currentSourceFile = IF n = 0 THEN rootFileName ELSE includeStack[n].file

(* A result is held as long as its text may be scanned and no longer: every  *)
(* one is released, failed ones, empty ones and those of an abandoned parse  *)
(* included, and none while it is still an input.                            *)
HeldWhileScanned == held = {inputStack[i].result : i \in DOMAIN inputStack}

(* Inputs are in order: what follows them stays with them, and their results *)
(* live as long as they do.                                                  *)
InputsInOrder == FollowsInput /\ HeldWhileScanned

\* What InputsInOrder rests on: only a file with text in it is entered, a parse
\* starts with nothing on the stack, and results on it are older further down.
Entered == [id : Nat \ {0}, file : Headers, text : {TRUE}]
InputsTyped ==
  /\ stage \in {"idle", "parsing", "stopped"}
  /\ stage = "idle" => inputStack = <<>>
  /\ rootFileName \in Sources
  /\ inputStack \in Seq([result : Entered, prevScanner : Entered \cup {SourceScanner}])
YoungestOnTop ==
  \A j \in DOMAIN inputStack : \A i \in 1 .. j - 1 :
    inputStack[i].result.id < inputStack[j].result.id
PpIInv == InputsTyped /\ YoungestOnTop /\ InputsInOrder
===============================================================================
