----------------------------- MODULE SymbolTable -----------------------------
(***************************************************************************)
(* TSymbolTable during one compile (MachineIndependent/SymbolTable.h) and  *)
(* the parser's dealings with it.  The table is a stack of levels: 0 and 1 *)
(* are adopted from the process-wide cache and shared with every other     *)
(* compile, 2 holds the built-ins of this compile, 3 the shader's globals, *)
(* and deeper ones the scopes of its functions.  A symbol has a unique id, *)
(* a counter under the level that issued it; a built-in that the shader    *)
(* changes is copied up to level 3, and the copy is changed.               *)
(*                                                                         *)
(* Signatures are left out: a function is its name.  The names of built-in *)
(* variables are reserved, so a shader that declares one as its own is     *)
(* already refused; the names of built-in functions are not.               *)
(***************************************************************************)
EXTENDS Integers, Sequences, FiniteSets

CONSTANTS UserNames,         \* names the shader declares
          UserBlocks,        \* anonymous blocks it declares: sequences of names
          BuiltIns,          \* built-in variables: level, name, number, block
          BuiltInFunctions,  \* names of the functions at level 0 and at level 1
          Unsized,           \* built-in variables with an unsized array inside
          NamedBlocks,       \* those that are blocks, like gl_in
          InvariantOutputs,  \* outputs in the list of #pragma STDGL invariant(all)
          Issued,            \* ids given out before the shader's globals
          Precisions,
          MaxLevelInUniqueID,
          NoBuiltInRedeclarations, SeparateNameSpaces

ASSUME SymbolTableAssumption ==
  /\ Issued \in Nat /\ MaxLevelInUniqueID \in Nat /\ MaxLevelInUniqueID > 2
  /\ NoBuiltInRedeclarations \in BOOLEAN /\ SeparateNameSpaces \in BOOLEAN
  /\ \A b \in BuiltIns : b.level \in 0..2 /\ b.number \in 1..Issued
  /\ UserNames \cap {b.name : b \in BuiltIns} = {}
  /\ \A b \in UserBlocks :
       /\ b \in Seq({b[i] : i \in DOMAIN b}) /\ b # <<>>
       /\ {b[i] : i \in DOMAIN b} \cap {c.name : c \in BuiltIns} = {}
  /\ "none" \notin Precisions

\* What the declarations of the built-ins (Initialize.cpp) amount to: a name is
\* declared once; ids are issued one by one, and the members of an anonymous
\* block, declared together, share one.
ASSUME BuiltInsAssumption ==
  /\ \A b, c \in BuiltIns : b.name = c.name => b = c
  /\ \A b, c \in BuiltIns :
       b.number = c.number => b = c \/ (b.block = c.block /\ b.block # <<>>)
  /\ \A b \in BuiltIns : b.block # <<>> =>
       /\ b.block \in Seq({c.name : c \in BuiltIns})
       /\ \E i \in DOMAIN b.block : b.block[i] = b.name
       /\ \A i \in DOMAIN b.block : \E c \in BuiltIns :
            /\ c.name = b.block[i]
            /\ c.level = b.level /\ c.number = b.number /\ c.block = b.block

VARIABLES
  table,             \* the levels, level 0 first
  uniqueId,          \* the last id issued, with the current level in it
  defaultPrecision,  \* the parser's current default
  issued, count,     \* history: ids issued to the shader, and how many times
  entered,           \* history: the default when each open scope was entered
  made,              \* history: the changes made to built-in variables
  uses               \* history: the ids the tree refers to built-ins by

vars == <<table, uniqueId, defaultPrecision, issued, count, entered, made, uses>>
history == <<issued, count>>

-------------------------------------------------------------------------------
globalLevel == 3
IsSharedLevel(l) == l <= 1
IsBuiltInLevel(l) == l <= 2
NoPrecision == "none"

CurrentLevel == Len(table) - 1
Vars(l) == table[l + 1].vars
Functions(l) == table[l + 1].functions
AtGlobalLevel == CurrentLevel <= globalLevel

\* The level a name is found at, from the innermost out.
Levels(n) == {l \in 0..CurrentLevel : n \in DOMAIN Vars(l)}
LevelOf(n) == CHOOSE l \in Levels(n) : \A k \in Levels(n) : k <= l
Find(n) == Vars(LevelOf(n))[n]

BuiltInNames == {b.name : b \in BuiltIns}
Declared(n) == CHOOSE b \in BuiltIns : b.name = n
Members(n) ==     \* of the container of n, or n itself
  IF Declared(n).block = <<>> THEN <<n>> ELSE Declared(n).block
MemberSet(n) == {Members(n)[i] : i \in DOMAIN Members(n)}

\* The level in an id has few bits: it is clamped.
Wrap(l) == l % (MaxLevelInUniqueID + 1)
Clamp(l) == IF l > MaxLevelInUniqueID THEN MaxLevelInUniqueID ELSE l

WithLevel(id, l) == <<Clamp(l), id[2]>>

\* amendSymbolIdLevel, of a symbol; it leaves the container of a member alone.
AmendAll(s, l) == [s EXCEPT !.id = <<Clamp(l), 0>>]
Amend(s, l) == IF s.block = <<>> THEN [s EXCEPT !.id = WithLevel(@, l)] ELSE s

FreshId == <<uniqueId[1], uniqueId[2] + 1>>
Issue ==
  /\ uniqueId' = FreshId
  /\ issued' = issued \cup {FreshId}
  /\ count' = count + 1

Symbol(id, b) == [id |-> id, block |-> b, writable |-> TRUE, edits |-> {}]
EmptyLevel == [vars |-> <<>>, functions |-> {}, saved |-> NoPrecision]
BuiltInLevel(l) ==
  LET here == {b \in BuiltIns : b.level = l}
      Get(n) == CHOOSE b \in here : b.name = n
  IN  [vars |-> [n \in {b.name : b \in here} |->
                   [Symbol(<<l, Get(n).number>>, Get(n).block)
                      EXCEPT !.writable = ~IsSharedLevel(l)]],
       functions |-> IF IsSharedLevel(l) THEN BuiltInFunctions[l + 1] ELSE {},
       saved |-> NoPrecision]

-------------------------------------------------------------------------------
(* Inserting names at a level.                                               *)

\* insert() refuses a variable with the name of a function of the level, and,
\* where the version forbids it, any global with the name of a built-in one.
NoFunctionCheck(n) == FALSE
ClashesWithFunction(n) == ~SeparateNameSpaces /\ n \in Functions(CurrentLevel)
ClashesWithVariable(n) == ~SeparateNameSpaces /\ n \in DOMAIN Vars(CurrentLevel)
OverloadsBuiltIn(n) ==
  NoBuiltInRedeclarations /\ AtGlobalLevel /\ \E l \in 0..1 : n \in Functions(l)

\* insertAnonymousMembers stops at the first member whose name is taken.
Inserted(l, names) ==
  {names[i] : i \in {i \in DOMAIN names : \A j \in 1..i : names[j] \notin DOMAIN Vars(l)}}
AddNames(l, names, symbols) ==
  [table EXCEPT ![l + 1].vars =
     [n \in DOMAIN @ \cup Inserted(l, names) |->
        IF n \in DOMAIN @ THEN @[n] ELSE symbols[n]]]
\* Of a sequence of names for one new symbol.
AddSymbol(names, s) ==
  AddNames(CurrentLevel, names, [n \in {names[i] : i \in DOMAIN names} |-> s])

InsertVariable(n) ==
  /\ Issue
  /\ table' = IF ClashesWithFunction(n) \/ OverloadsBuiltIn(n) THEN table
              ELSE AddSymbol(<<n>>, Symbol(FreshId, <<>>))
  /\ UNCHANGED <<defaultPrecision, entered, made, uses>>

InsertFunction(n) ==
  /\ Issue
  /\ table' = IF ClashesWithVariable(n) \/ OverloadsBuiltIn(n) THEN table
              ELSE [table EXCEPT ![CurrentLevel + 1].functions = @ \cup {n}]
  /\ UNCHANGED <<defaultPrecision, entered, made, uses>>

\* The container has no name of its own, so only its members can clash.
InsertBlock(b) ==
  /\ AtGlobalLevel
  /\ Issue
  /\ table' = AddSymbol(b, Symbol(FreshId, b))
  /\ UNCHANGED <<defaultPrecision, entered, made, uses>>

\* A temporary gets an id and is not entered.
MakeInternal ==
  /\ Issue
  /\ UNCHANGED <<table, defaultPrecision, entered, made, uses>>

-------------------------------------------------------------------------------
(* Built-in variables: copied up to be changed.                              *)

Edit(s, kind) == [s EXCEPT !.edits = @ \cup {kind}]
EditInPlace(n, kind) == [table EXCEPT ![LevelOf(n) + 1].vars[n] = Edit(@, kind)]

\* The copy has the ids of what it copies.  A member comes with its container.
Copies(n) ==
  [m \in MemberSet(n) |-> [Vars(LevelOf(n))[m] EXCEPT !.writable = TRUE]]
CopyUp(n) == AddNames(globalLevel, Members(n), Copies(n))
\* The caller gets the copy of a variable even if it could not be entered, and
\* for a member whatever level 3 now has under the name.
CopyEntered(n) == n \notin DOMAIN Vars(globalLevel) \/ Find(n).block # <<>>
CopyOf(n) == CopyUp(n)[globalLevel + 1].vars[n]
EditCopy(n, edited) ==
  IF CopyEntered(n) THEN [CopyUp(n) EXCEPT ![globalLevel + 1].vars[n] = edited]
  ELSE CopyUp(n)

\* A built-in that is still at its own level is copied up by a redeclaration.
CopyAlways(n) == TRUE
NeedsCopy(n) == IsBuiltInLevel(LevelOf(n))
\* More qualifiers for a read-only symbol go to a copy.
CopyNever(n) == FALSE
IsReadOnly(n) == ~Find(n).writable
\* The first use copies up what has an array that uses may size.
SizedByUse(n) == IsReadOnly(n) /\ MemberSet(n) \cap Unsized # {}

\* One variable, by name; a block with an instance name is none of these.
Redeclare(n) ==
  /\ AtGlobalLevel
  /\ n \notin NamedBlocks
  /\ table' = IF NeedsCopy(n)
              THEN EditCopy(n, Edit(Amend(CopyOf(n), CurrentLevel), "redeclared"))
              ELSE EditInPlace(n, "redeclared")
  /\ made' = made \cup {<<n, "redeclared">>}
  /\ UNCHANGED <<uniqueId, history, defaultPrecision, entered, uses>>

\* A block without an instance name is found through the member that the
\* redeclaration names first.
RedeclareBlock(n) ==
  /\ AtGlobalLevel
  /\ Find(n).block # <<>> \/ n \in NamedBlocks
  /\ NeedsCopy(n)
  /\ Issue
  /\ table' = AddNames(CurrentLevel, Members(n),
                       [m \in MemberSet(n) |->
                          [Edit(Copies(n)[m], "redeclared") EXCEPT !.id = FreshId]])
  /\ made' = made \cup {<<m, "redeclared">> : m \in MemberSet(n)}
  /\ UNCHANGED <<defaultPrecision, entered, uses>>

Qualify(n) ==
  /\ table' = IF IsReadOnly(n) THEN EditCopy(n, Edit(CopyOf(n), "qualified"))
              ELSE EditInPlace(n, "qualified")
  /\ made' = made \cup {<<n, "qualified">>}
  /\ UNCHANGED <<uniqueId, history, defaultPrecision, entered, uses>>

\* #pragma STDGL invariant(all) has a list of names, of which it takes those that
\* are outputs of the stage, and always edits a copy; one name at a time here.
PragmaInvariant(n) ==
  /\ n \in InvariantOutputs
  /\ table' = EditCopy(n, Edit(CopyOf(n), "invariant"))
  /\ made' = made \cup {<<n, "invariant">>}
  /\ UNCHANGED <<uniqueId, history, defaultPrecision, entered, uses>>

Use(n) ==
  /\ table' = IF SizedByUse(n) THEN CopyUp(n) ELSE table
  /\ uses' = uses \cup {<<n, Find(n).id>>}
  /\ UNCHANGED <<uniqueId, history, defaultPrecision, entered, made>>

-------------------------------------------------------------------------------
(* Scopes.                                                                   *)
Push ==
  /\ table' = Append(table, EmptyLevel)
  /\ uniqueId' = WithLevel(uniqueId, CurrentLevel + 1)
  /\ entered' = Append(entered, defaultPrecision)
  /\ UNCHANGED <<history, defaultPrecision, made, uses>>

\* A level remembers what to restore at the first precision statement in it.
SaveLatest(l) == defaultPrecision
Latched(l) == IF table[l + 1].saved = NoPrecision THEN defaultPrecision ELSE table[l + 1].saved

PrecisionStatement(p) ==
  /\ table' = [table EXCEPT ![CurrentLevel + 1].saved = Latched(CurrentLevel)]
  /\ defaultPrecision' = p
  /\ UNCHANGED <<uniqueId, history, entered, made, uses>>

Pop ==
  /\ CurrentLevel > globalLevel
  /\ LET saved == table[CurrentLevel + 1].saved
     IN  defaultPrecision' = IF saved = NoPrecision THEN defaultPrecision ELSE saved
  /\ table' = SubSeq(table, 1, CurrentLevel)
  /\ uniqueId' = WithLevel(uniqueId, CurrentLevel - 1)
  /\ entered' = SubSeq(entered, 1, Len(entered) - 1)
  /\ UNCHANGED <<history, made, uses>>

\* Adopted levels 0 and 1, level 2 of this compile, and the shader's globals.
Init ==
  /\ table = <<BuiltInLevel(0), BuiltInLevel(1), BuiltInLevel(2), EmptyLevel>>
  /\ uniqueId = <<globalLevel, Issued>>
  /\ defaultPrecision \in Precisions
  /\ issued = {} /\ count = 0
  /\ entered = <<>>
  /\ made = {} /\ uses = {}

Declare ==
  \/ \E n \in UserNames : InsertVariable(n) \/ InsertFunction(n)
  \/ \E b \in UserBlocks : InsertBlock(b)
  \/ MakeInternal

ChangeBuiltIn ==
  \E n \in BuiltInNames :
    Redeclare(n) \/ RedeclareBlock(n) \/ Qualify(n) \/ PragmaInvariant(n) \/ Use(n)

Next ==
  \/ Declare
  \/ ChangeBuiltIn
  \/ Push
  \/ Pop
  \/ \E p \in Precisions : PrecisionStatement(p)

Spec == Init /\ [][Next]_vars

-------------------------------------------------------------------------------

\* An id is issued once, whatever scopes were entered and left in between, and
\* two symbols seen at the same time have different ids unless one is the copy
\* of the other or both are members of one anonymous block ("for unique
\* identification in code generation").
DistinctIds ==
  /\ Cardinality(issued) = count
  /\ \A l, k \in 0..CurrentLevel : \A n \in DOMAIN Vars(l), m \in DOMAIN Vars(k) :
       Vars(l)[n].id = Vars(k)[m].id =>
         \/ n = m /\ (l = k \/ n \in BuiltInNames)
         \/ Vars(l)[n].block = Vars(k)[m].block /\ Vars(l)[n].block # <<>>

\* isBuiltInSymbol, which only looks at the level in the id, never takes a
\* variable of the shader for a built-in one: the clamp must not wrap around.
UserIdsTell ==
  \A l \in globalLevel..CurrentLevel : \A n \in DOMAIN Vars(l) :
    n \notin BuiltInNames => ~IsBuiltInLevel(Vars(l)[n].id[1])

\* Ids are right: distinct, and telling what is built-in.
IdsRight == DistinctIds /\ UserIdsTell

\* At no level do a variable and a function declared by name share it,
\* whichever came first.
NoNameClash ==
  \A l \in globalLevel..CurrentLevel : \A n \in Functions(l) \cap DOMAIN Vars(l) :
    SeparateNameSpaces \/ Vars(l)[n].block # <<>>

\* The levels that every compile shares are never changed by one of them.
SharedUntouched == [][\A l \in 0..1 : table'[l + 1] = table[l + 1]]_vars

\* Leaving a scope brings back the default precision of when it was entered,
\* however many precision statements it and the scopes inside it had.
PrecisionsRestored ==
  [][Len(table') < Len(table) => defaultPrecision' = entered[Len(entered)]]_vars

\* A redeclaration or a qualifier the shader gave a built-in variable is on
\* what its name is found to be from then on, however they were mixed.
EditsKept ==
  \A e \in made : e[2] # "invariant" => e[2] \in Find(e[1]).edits

\* "Set all builtin out variables invariant if declared" (ParseHelper.cpp:414):
\* so is the qualifier of #pragma STDGL invariant(all).
InvariantKept ==
  \A e \in made : e[2] = "invariant" => "invariant" \in Find(e[1]).edits

\* "All shared things containing an unsized array must be copied up on first
\* use, so that all future references will share its array structure": all uses
\* of one, or of the members of its block, are by one id.
SharedUnsized(n) == IsSharedLevel(Declared(n).level) /\ MemberSet(n) \cap Unsized # {}
UsesAgree ==
  \A u, v \in uses : u[1] \in MemberSet(v[1]) /\ SharedUnsized(v[1]) => u[2] = v[2]

(* The inductive invariant behind these properties.                          *)

Blocks == UserBlocks \cup {b.block : b \in BuiltIns} \cup {<<>>}
Names == UserNames \cup BuiltInNames \cup UNION {{b[i] : i \in DOMAIN b} : b \in UserBlocks}
Symbols == [id : Nat \X Nat, block : Blocks, writable : BOOLEAN,
            edits : SUBSET {"redeclared", "qualified", "invariant"}]
FunctionNames == UserNames \cup BuiltInFunctions[1] \cup BuiltInFunctions[2]
LevelType == [vars : UNION {[D -> Symbols] : D \in SUBSET Names},
              functions : SUBSET FunctionNames, saved : Precisions \cup {NoPrecision}]

TypeOK ==
  /\ table \in Seq(LevelType) /\ Len(table) >= 4
  /\ uniqueId \in Nat \X Nat
  /\ defaultPrecision \in Precisions
  /\ issued \subseteq Nat \X Nat /\ count \in Nat
  /\ entered \in Seq(Precisions) /\ Len(entered) = CurrentLevel - globalLevel
  /\ made \subseteq BuiltInNames \X {"redeclared", "qualified", "invariant"}
  /\ uses \subseteq BuiltInNames \X (Nat \X Nat)

\* The id holds the current level, and every number issued is behind it.
CounterBeyond ==
  /\ uniqueId[1] = Clamp(CurrentLevel)
  /\ IsFiniteSet(issued) /\ Cardinality(issued) = count
  /\ \A id \in issued : id[2] <= uniqueId[2]
NumbersBehind ==
  \A l \in 0..CurrentLevel : \A n \in DOMAIN Vars(l) : Vars(l)[n].id[2] <= uniqueId[2]

\* What DistinctIds says, of the numbers alone: levels are amended later.
NumbersApart ==
  \A l, k \in 0..CurrentLevel : \A n \in DOMAIN Vars(l), m \in DOMAIN Vars(k) :
    Vars(l)[n].id[2] = Vars(k)[m].id[2] =>
      \/ n = m /\ (l = k \/ n \in BuiltInNames)
      \/ Vars(l)[n].block = Vars(k)[m].block /\ Vars(l)[n].block # <<>>

\* A built-in is at the level that declares it and perhaps, with all members of
\* its block, at that of the shader's globals.
BuiltInsInPlace ==
  \A n \in BuiltInNames :
    /\ n \in DOMAIN Vars(Declared(n).level)
    /\ n \in DOMAIN Vars(globalLevel) => MemberSet(n) \subseteq DOMAIN Vars(globalLevel)
    /\ \A l \in 0..CurrentLevel : n \in DOMAIN Vars(l) =>
         /\ l \in {Declared(n).level, globalLevel}
         /\ Vars(l)[n].block = Declared(n).block
         /\ \A m \in MemberSet(n) \cap DOMAIN Vars(l) : Vars(l)[m].id = Vars(l)[n].id

SharedReadOnly ==
  \A l \in 0..CurrentLevel : \A n \in DOMAIN Vars(l) :
    Vars(l)[n].writable = ~IsSharedLevel(l)

OwnFunctions == \A l \in globalLevel..CurrentLevel : Functions(l) \subseteq UserNames

\* What each open scope restores: nothing while the default is what it was.
Default(i) == IF i = Len(entered) THEN defaultPrecision ELSE entered[i + 1]
DefaultsSaved ==
  \A i \in 1..Len(entered) :
    entered[i] = IF table[i + 4].saved = NoPrecision THEN Default(i) ELSE table[i + 4].saved

\* Where a built-in is found.
Home(n) == IF n \in DOMAIN Vars(globalLevel) THEN globalLevel ELSE Declared(n).level
AtHome(n) == Vars(Home(n))[n]
EditsAtHome ==
  \A e \in made : e[2] # "invariant" => e[2] \in AtHome(e[1]).edits
UsesSettled ==
  \A u \in uses : SharedUnsized(u[1]) =>
    u[1] \in DOMAIN Vars(globalLevel) /\ u[2] = Vars(globalLevel)[u[1]].id

SymbolIInv ==
  /\ TypeOK /\ CounterBeyond /\ NumbersBehind /\ NumbersApart /\ BuiltInsInPlace
  /\ SharedReadOnly /\ OwnFunctions /\ NoNameClash /\ UserIdsTell /\ DefaultsSaved
  /\ EditsAtHome /\ UsesSettled
===============================================================================
