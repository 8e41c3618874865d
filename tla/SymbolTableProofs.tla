-------------------------- MODULE SymbolTableProofs --------------------------
(***************************************************************************)
(* SymbolIInv is an invariant of SymbolTable, and what follows from it for *)
(* every set of built-ins and names and every depth of scopes.             *)
(*                                                                         *)
(* Most steps edit symbols of one level and add others to it.  Grows says  *)
(* what is common to them; each action is shown to be such a step, or one  *)
(* that keeps the variables of every level, and the parts of the invariant *)
(* are shown to survive these two kinds of steps once and for all.         *)
(***************************************************************************)
EXTENDS SymbolTable, SequenceTheorems, FiniteSetTheorems, TLAPS

-------------------------------------------------------------------------------
(* The built-ins and the shape of the table.                                 *)

LEMMA DeclaredIs ==
  \A b \in BuiltIns : Declared(b.name) = b
BY BuiltInsAssumption, Zenon DEF Declared

LEMMA BuiltInFacts ==
  ASSUME NEW n \in BuiltInNames
  PROVE  /\ Declared(n) \in BuiltIns /\ Declared(n).name = n
         /\ Declared(n).level \in 0 .. 2
         /\ Members(n) \in Seq(BuiltInNames)
         /\ n \in MemberSet(n) /\ MemberSet(n) \subseteq BuiltInNames
         /\ Declared(n).block = <<>> => MemberSet(n) = {n}
<1>1. PICK b \in BuiltIns : b.name = n
  BY DEF BuiltInNames
<1>2. Declared(n) = b
  BY <1>1, DeclaredIs, Zenon
<1>3. Members(n) = IF b.block = <<>> THEN <<n>> ELSE b.block
  BY <1>2 DEF Members
<1>4. CASE b.block = <<>>
  <2>1. Members(n) = <<n>> /\ DOMAIN <<n>> = {1} /\ <<n>>[1] = n
    BY <1>3, <1>4
  <2>2. MemberSet(n) = {n}
    BY <2>1 DEF MemberSet
  <2> QED BY <1>1, <1>2, <2>1, <2>2, SymbolTableAssumption
<1>5. CASE b.block # <<>>
  <2>1. Members(n) = b.block
    BY <1>3, <1>5
  <2>2. b.block \in Seq(BuiltInNames)
    BY <1>5, BuiltInsAssumption DEF BuiltInNames
  <2>3. \E i \in DOMAIN b.block : b.block[i] = n
    BY <1>1, <1>5, BuiltInsAssumption
  <2>4. MemberSet(n) \subseteq BuiltInNames
    BY <2>1, <2>2 DEF MemberSet
  <2>5. n \in MemberSet(n)
    BY <2>1, <2>3 DEF MemberSet
  <2> QED BY SymbolTableAssumption, <1>1, <1>2, <1>5, <2>1, <2>2, <2>4, <2>5
<1> QED BY <1>4, <1>5

\* The members of a block are declared together.
LEMMA MemberFacts ==
  ASSUME NEW n \in BuiltInNames, NEW m \in MemberSet(n)
  PROVE  /\ Declared(m).level = Declared(n).level
         /\ Declared(m).number = Declared(n).number
         /\ Declared(m).block = Declared(n).block
         /\ MemberSet(m) = MemberSet(n)
         /\ Declared(n).block = <<>> => m = n
<1> DEFINE b == Declared(n)
<1>1. b \in BuiltIns /\ b.name = n
  BY BuiltInFacts
<1>2. CASE b.block = <<>>
  BY <1>2, BuiltInFacts
<1>3. CASE b.block # <<>>
  <2>1. Members(n) = b.block
    BY <1>3 DEF Members
  <2>2. PICK i \in DOMAIN b.block : m = b.block[i]
    BY <2>1 DEF MemberSet
  <2>3. PICK c \in BuiltIns : /\ c.name = m /\ c.level = b.level
                              /\ c.number = b.number /\ c.block = b.block
    BY <1>1, <1>3, <2>2, BuiltInsAssumption
  <2>4. Declared(m) = c
    BY <2>3, DeclaredIs, Zenon
  <2>5. Members(m) = b.block
    BY <1>3, <2>3, <2>4 DEF Members
  <2>6. MemberSet(m) = MemberSet(n)
    BY <2>1, <2>5 DEF MemberSet
  <2> QED BY <1>3, <2>3, <2>4, <2>6
<1> QED BY <1>2, <1>3

LEMMA Shape ==
  ASSUME TypeOK
  PROVE  /\ CurrentLevel \in Nat /\ CurrentLevel >= globalLevel /\ globalLevel = 3
         /\ Len(table) = CurrentLevel + 1
         /\ \A l \in 0 .. CurrentLevel :
              /\ l + 1 \in 1 .. Len(table) /\ table[l + 1] \in LevelType
              /\ Vars(l) \in [DOMAIN Vars(l) -> Symbols] /\ DOMAIN Vars(l) \subseteq Names
              /\ \A n \in DOMAIN Vars(l) : Vars(l)[n] \in Symbols
<1>1. /\ CurrentLevel \in Nat /\ CurrentLevel >= globalLevel /\ globalLevel = 3
      /\ Len(table) = CurrentLevel + 1
  BY DEF TypeOK, CurrentLevel, globalLevel
<1>2. ASSUME NEW l \in 0 .. CurrentLevel
      PROVE  /\ l + 1 \in 1 .. Len(table) /\ table[l + 1] \in LevelType
             /\ Vars(l) \in [DOMAIN Vars(l) -> Symbols] /\ DOMAIN Vars(l) \subseteq Names
  <2>1. l + 1 \in 1 .. Len(table) /\ table[l + 1] \in LevelType
    <3> HIDE DEF LevelType
    <3> QED BY <1>1 DEF TypeOK
  <2>2. Vars(l) \in UNION {[D -> Symbols] : D \in SUBSET Names}
    BY <2>1 DEF LevelType, Vars
  <2> QED BY <2>1, <2>2
<1>3. \A l \in 0 .. CurrentLevel : \A n \in DOMAIN Vars(l) : Vars(l)[n] \in Symbols
  BY <1>2
<1> QED BY <1>1, <1>2, <1>3

\* What changes of a symbol when it is edited in its place.
Kept(s, t) ==
  /\ t \in Symbols
  /\ t.id = s.id /\ t.block = s.block /\ t.writable = s.writable
  /\ s.edits \subseteq t.edits

\* t is the table after symbols of level l were edited and those of S added.
Writes(t, l, S) ==
  /\ t \in Seq(LevelType) /\ Len(t) = Len(table)
  /\ \A k \in 0 .. CurrentLevel : k # l => t[k + 1] = table[k + 1]
  /\ t[l + 1].functions = Functions(l) /\ t[l + 1].saved = table[l + 1].saved
  /\ S \cap DOMAIN Vars(l) = {} /\ DOMAIN t[l + 1].vars = DOMAIN Vars(l) \cup S
  /\ \A n \in DOMAIN Vars(l) : Kept(Vars(l)[n], t[l + 1].vars[n])

\* A level whose variables are replaced.
WithVars(t, i, f) == [t EXCEPT ![i].vars = f]
VarsPut(t, i, f, u) ==
  /\ u \in Seq(LevelType) /\ Len(u) = Len(t)
  /\ \A k \in 1 .. Len(t) : k # i => u[k] = t[k]
  /\ u[i].functions = t[i].functions /\ u[i].saved = t[i].saved
  /\ u[i].vars = f

LEMMA PutVars ==
  ASSUME NEW t \in Seq(LevelType), NEW i \in 1 .. Len(t), NEW D \in SUBSET Names,
         NEW f \in [D -> Symbols], NEW u, u = WithVars(t, i, f)
  PROVE  VarsPut(t, i, f, u)
<1> DEFINE r == [t[i] EXCEPT !.vars = f]
<1>1. u = [t EXCEPT ![i] = r]
  BY DEF WithVars
<1>2. t[i] \in LevelType
  <2> HIDE DEF LevelType
  <2> QED OBVIOUS
<1>3. /\ r \in LevelType /\ r.functions = t[i].functions
      /\ r.saved = t[i].saved /\ r.vars = f
  <2>1. f \in UNION {[A -> Symbols] : A \in SUBSET Names}
    OBVIOUS
  <2> QED BY <1>2, <2>1 DEF LevelType
<1> HIDE DEF r, LevelType
<1>4. /\ u \in Seq(LevelType) /\ Len(u) = Len(t) /\ u[i] = r
      /\ \A k \in 1 .. Len(t) : k # i => u[k] = t[k]
  BY <1>1, <1>3
<1> QED BY <1>3, <1>4 DEF VarsPut

\* S was added to level l, as symbols has them.
Added(t, l, S, symbols) ==
  Writes(t, l, S) /\ \A n \in S : t[l + 1].vars[n] = symbols[n]

\* The symbols that a sequence of names adds to a level.
LEMMA AddNamesWrites ==
  ASSUME TypeOK, NEW l \in 0 .. CurrentLevel, NEW names, NEW symbols,
         DOMAIN names \subseteq Nat \ {0},
         \A n \in Inserted(l, names) : n \in Names /\ symbols[n] \in Symbols
  PROVE  Added(AddNames(l, names, symbols), l, Inserted(l, names), symbols)
<1> DEFINE S == Inserted(l, names)
           D == DOMAIN Vars(l) \cup S
           f == [n \in D |-> IF n \in DOMAIN Vars(l) THEN Vars(l)[n] ELSE symbols[n]]
           t == [table EXCEPT ![l + 1].vars = f]
<1>1. /\ l + 1 \in 1 .. Len(table) /\ DOMAIN Vars(l) \subseteq Names
      /\ \A n \in DOMAIN Vars(l) : Vars(l)[n] \in Symbols
      /\ Len(table) = CurrentLevel + 1 /\ CurrentLevel \in Nat
  BY Shape
<1>2. t = AddNames(l, names, symbols) /\ t = WithVars(table, l + 1, f)
  BY DEF AddNames, Vars, WithVars
<1>3. S \cap DOMAIN Vars(l) = {}
  <2> SUFFICES ASSUME NEW i \in DOMAIN names, \A j \in 1 .. i : names[j] \notin DOMAIN Vars(l)
               PROVE  names[i] \notin DOMAIN Vars(l)
    BY DEF Inserted
  <2>1. i \in 1 .. i
    OBVIOUS
  <2> QED BY <2>1
<1> HIDE DEF S
<1>4. D \in SUBSET Names /\ f \in [D -> Symbols]
  BY <1>1 DEF S
<1>5. /\ DOMAIN f = D /\ \A n \in DOMAIN Vars(l) : f[n] = Vars(l)[n]
      /\ \A n \in S : f[n] = symbols[n]
  BY <1>3
<1> HIDE DEF D, f
<1>6. table \in Seq(LevelType)
  BY DEF TypeOK
<1>7. /\ t \in Seq(LevelType) /\ Len(t) = Len(table)
      /\ \A k \in 1 .. Len(table) : k # l + 1 => t[k] = table[k]
      /\ t[l + 1].functions = table[l + 1].functions
      /\ t[l + 1].saved = table[l + 1].saved /\ t[l + 1].vars = f
  <2> HIDE DEF t, LevelType, Symbols
  <2>1. l + 1 \in 1 .. Len(table)
    BY <1>1
  <2>2. VarsPut(table, l + 1, f, t)
    BY <1>2, <1>4, <1>6, <2>1, PutVars
  <2> QED BY <2>2 DEF VarsPut
<1> HIDE DEF t, LevelType, Symbols
<1>8. \A n \in DOMAIN Vars(l) : Kept(Vars(l)[n], t[l + 1].vars[n])
  BY <1>1, <1>5, <1>7 DEF Kept
<1>9. \A k \in 0 .. CurrentLevel : k # l => t[k + 1] = table[k + 1]
  BY <1>1, <1>7
<1>10. Writes(t, l, S)
  BY <1>3, <1>5, <1>7, <1>8, <1>9 DEF Writes, Functions, D
<1> QED BY <1>2, <1>5, <1>7, <1>10 DEF S, Added

WithSymbol(t, i, n, s) == [t EXCEPT ![i].vars[n] = s]
SymbolPut(t, i, n, s, u) ==
  /\ u \in Seq(LevelType) /\ Len(u) = Len(t)
  /\ \A k \in 1 .. Len(t) : k # i => u[k] = t[k]
  /\ u[i].functions = t[i].functions /\ u[i].saved = t[i].saved
  /\ DOMAIN u[i].vars = DOMAIN t[i].vars /\ u[i].vars[n] = s
  /\ \A m \in DOMAIN t[i].vars : m # n => u[i].vars[m] = t[i].vars[m]

\* A symbol of a level that is replaced.
LEMMA PutSymbol ==
  ASSUME NEW t \in Seq(LevelType), NEW i \in 1 .. Len(t), NEW n \in DOMAIN t[i].vars,
         NEW s \in Symbols, NEW u, u = WithSymbol(t, i, n, s)
  PROVE  SymbolPut(t, i, n, s, u)
<1> DEFINE f == [t[i].vars EXCEPT ![n] = s]
<1>1. u = WithVars(t, i, f)
  BY DEF WithVars, WithSymbol
<1>2. t[i] \in LevelType
  <2> HIDE DEF LevelType
  <2> QED OBVIOUS
<1>3. t[i].vars \in UNION {[A -> Symbols] : A \in SUBSET Names}
  BY <1>2 DEF LevelType
<1>4. PICK D \in SUBSET Names : t[i].vars \in [D -> Symbols]
  BY <1>3
<1>5. /\ f \in [D -> Symbols] /\ DOMAIN f = DOMAIN t[i].vars /\ f[n] = s
      /\ \A m \in DOMAIN t[i].vars : m # n => f[m] = t[i].vars[m]
  BY <1>4
<1> HIDE DEF f, LevelType, Symbols
<1>6. /\ u \in Seq(LevelType) /\ Len(u) = Len(t)
      /\ \A k \in 1 .. Len(t) : k # i => u[k] = t[k]
      /\ u[i].functions = t[i].functions /\ u[i].saved = t[i].saved /\ u[i].vars = f
  <2>1. VarsPut(t, i, f, u)
    BY <1>1, <1>5, PutVars
  <2> QED BY <2>1 DEF VarsPut
<1> QED BY <1>5, <1>6 DEF SymbolPut

\* The largest of a set of levels.
LEMMA Largest ==
  ASSUME NEW S, NEW m \in S, S \subseteq Nat, \A k \in S : k <= m
  PROVE  (CHOOSE l \in S : \A k \in S : k <= l) = m
<1>1. \A l \in S : (\A k \in S : k <= l) => l = m
  <2> TAKE l \in S
  <2> HAVE \A k \in S : k <= l
  <2>1. l <= m /\ m <= l /\ l \in Nat /\ m \in Nat
    OBVIOUS
  <2> QED BY <2>1
<1>2. \E l \in S : \A k \in S : k <= l
  OBVIOUS
<1> QED BY <1>1, <1>2, Zenon

\* A built-in is found at home.
LEMMA FoundAtHome ==
  ASSUME TypeOK, BuiltInsInPlace, NEW n \in BuiltInNames
  PROVE  /\ LevelOf(n) = Home(n) /\ Home(n) \in 0 .. CurrentLevel /\ Home(n) <= globalLevel
         /\ n \in DOMAIN Vars(Home(n)) /\ Find(n) = Vars(Home(n))[n]
         /\ Find(n) \in Symbols /\ Find(n).block = Declared(n).block
         /\ n \notin DOMAIN Vars(globalLevel) => Home(n) = Declared(n).level
<1>1. /\ CurrentLevel \in Nat /\ CurrentLevel >= globalLevel /\ globalLevel = 3
      /\ Declared(n).level \in 0 .. 2
  BY Shape, BuiltInFacts
<1>2. Home(n) \in 0 .. CurrentLevel /\ n \in DOMAIN Vars(Home(n)) /\ Home(n) <= globalLevel
  BY <1>1 DEF Home, BuiltInsInPlace
<1>3. Home(n) \in Levels(n) /\ Levels(n) \subseteq Nat
  BY <1>1, <1>2 DEF Levels
<1>4. \A k \in Levels(n) : k <= Home(n)
  BY <1>1 DEF Levels, Home, BuiltInsInPlace
<1>5. LevelOf(n) = Home(n)
  BY <1>3, <1>4, Largest DEF LevelOf
<1>6. Find(n) = Vars(Home(n))[n]
  BY <1>5 DEF Find
<1>7. Find(n) \in Symbols
  BY <1>2, <1>6, Shape
<1>8. Find(n).block = Declared(n).block
  BY <1>2, <1>6 DEF BuiltInsInPlace
<1>9. n \notin DOMAIN Vars(globalLevel) => Home(n) = Declared(n).level
  BY DEF Home
<1> QED BY <1>2, <1>5, <1>6, <1>7, <1>8, <1>9

\* The members of a block are at the levels each of them is at.
LEMMA TogetherAtGlobal ==
  ASSUME TypeOK, BuiltInsInPlace, NEW n \in BuiltInNames, NEW m \in MemberSet(n)
  PROVE  /\ m \in DOMAIN Vars(globalLevel) <=> n \in DOMAIN Vars(globalLevel)
         /\ m \in BuiltInNames /\ Home(m) = Home(n)
         /\ Find(m) = Vars(LevelOf(n))[m]
<1>1. m \in BuiltInNames /\ n \in MemberSet(m)
  BY BuiltInFacts, MemberFacts
<1>2. m \in DOMAIN Vars(globalLevel) <=> n \in DOMAIN Vars(globalLevel)
  BY <1>1 DEF BuiltInsInPlace
<1>3. Declared(m).level = Declared(n).level
  BY MemberFacts
<1>4. Home(m) = Home(n)
  BY <1>2, <1>3 DEF Home
<1>5. Find(m) = Vars(LevelOf(n))[m]
  BY <1>1, <1>4, FoundAtHome
<1> QED BY <1>1, <1>2, <1>4, <1>5

\* What a copy up enters at the level of the globals.
CopiedNames(n) == IF n \in DOMAIN Vars(globalLevel) THEN {} ELSE MemberSet(n)

LEMMA InsertedCopies ==
  ASSUME TypeOK, BuiltInsInPlace, NEW n \in BuiltInNames
  PROVE  Inserted(globalLevel, Members(n)) = CopiedNames(n)
<1> DEFINE names == Members(n)
           D == DOMAIN Vars(globalLevel)
<1>1. names \in Seq(BuiltInNames) /\ \A i \in DOMAIN names : names[i] \in MemberSet(n)
  BY BuiltInFacts DEF MemberSet
<1>2. \A i \in DOMAIN names : names[i] \in D <=> n \in D
  BY <1>1, TogetherAtGlobal
<1>3. DOMAIN names = 1 .. Len(names) /\ Len(names) \in Nat
  BY <1>1
<1>4. CASE n \in D
  <2>1. \A i \in DOMAIN names : i \in 1 .. i /\ names[i] \in D
    BY <1>2, <1>3, <1>4
  <2>2. Inserted(globalLevel, names) = {}
    BY <2>1 DEF Inserted
  <2> QED BY <1>4, <2>2 DEF CopiedNames
<1>5. CASE n \notin D
  <2>1. \A i \in DOMAIN names : \A j \in 1 .. i : names[j] \notin D
    BY <1>2, <1>3, <1>5
  <2>2. Inserted(globalLevel, names) = {names[i] : i \in DOMAIN names}
    BY <2>1 DEF Inserted
  <2> QED BY <1>5, <2>2 DEF CopiedNames, MemberSet
<1> QED BY <1>4, <1>5

LEMMA CopyUpAdds ==
  ASSUME TypeOK, BuiltInsInPlace, NEW n \in BuiltInNames
  PROVE  /\ Added(CopyUp(n), globalLevel, CopiedNames(n), Copies(n))
         /\ \A m \in MemberSet(n) :
              Copies(n)[m] \in Symbols /\ Copies(n)[m] = [Find(m) EXCEPT !.writable = TRUE]
<1>1. \A m \in MemberSet(n) : Find(m) = Vars(LevelOf(n))[m] /\ Find(m) \in Symbols
  BY TogetherAtGlobal, FoundAtHome
<1>2. \A m \in MemberSet(n) : Copies(n)[m] = [Find(m) EXCEPT !.writable = TRUE]
  BY <1>1 DEF Copies
<1>3. \A m \in MemberSet(n) : Copies(n)[m] \in Symbols
  <2> TAKE m \in MemberSet(n)
  <2>1. [Find(m) EXCEPT !.writable = TRUE] \in Symbols
    BY <1>1 DEF Symbols
  <2> QED BY <1>2, <2>1
<1>4. globalLevel \in 0 .. CurrentLevel
  BY Shape
<1>5. DOMAIN Members(n) \subseteq Nat \ {0}
  BY BuiltInFacts
<1>6. \A m \in Inserted(globalLevel, Members(n)) : m \in Names /\ Copies(n)[m] \in Symbols
  <2>1. \A m \in Inserted(globalLevel, Members(n)) : m \in MemberSet(n)
    BY DEF Inserted, MemberSet
  <2>2. MemberSet(n) \subseteq Names
    BY BuiltInFacts DEF Names
  <2> QED BY <1>3, <2>1, <2>2
<1>7. Added(CopyUp(n), globalLevel, Inserted(globalLevel, Members(n)), Copies(n))
  BY <1>4, <1>5, <1>6, AddNamesWrites DEF CopyUp
<1> QED BY <1>2, <1>3, <1>7, InsertedCopies

Kinds == {"redeclared", "qualified", "invariant"}

LEMMA EditKeeps ==
  ASSUME NEW s \in Symbols, NEW kind \in Kinds
  PROVE  /\ Edit(s, kind) \in Symbols /\ Kept(s, Edit(s, kind))
         /\ kind \in Edit(s, kind).edits
BY DEF Edit, Symbols, Kinds, Kept

LEMMA AmendKeeps ==
  ASSUME NEW s \in Symbols, NEW l \in Nat
  PROVE  /\ Amend(s, l) \in Symbols
         /\ Amend(s, l).block = s.block /\ Amend(s, l).writable = s.writable
         /\ Amend(s, l).edits = s.edits /\ Amend(s, l).id[2] = s.id[2]
         /\ s.block # <<>> => Amend(s, l).id = s.id
<1>1. Clamp(l) \in Nat
  BY SymbolTableAssumption DEF Clamp
<1>2. WithLevel(s.id, l) \in Nat \X Nat /\ WithLevel(s.id, l)[2] = s.id[2]
  BY <1>1 DEF Symbols, WithLevel
<1> QED BY <1>2 DEF Amend, Symbols

\* A symbol that was there, or came with the copy, is put in place of itself.
LEMMA PutOver ==
  ASSUME TypeOK, NEW l \in 0 .. CurrentLevel, NEW t, NEW S, NEW symbols,
         Added(t, l, S, symbols), NEW n \in DOMAIN Vars(l) \cup S, NEW s \in Symbols,
         n \in DOMAIN Vars(l) => Kept(Vars(l)[n], s),
         NEW u, u = WithSymbol(t, l + 1, n, s)
  PROVE  /\ Writes(u, l, S) /\ u[l + 1].vars[n] = s
         /\ \A m \in S : m # n => u[l + 1].vars[m] = symbols[m]
<1>1. /\ Writes(t, l, S) /\ \A m \in S : t[l + 1].vars[m] = symbols[m]
  BY DEF Added
<1>2. /\ t \in Seq(LevelType) /\ Len(t) = Len(table) /\ l + 1 \in 1 .. Len(t)
      /\ CurrentLevel \in Nat /\ Len(table) = CurrentLevel + 1
      /\ DOMAIN t[l + 1].vars = DOMAIN Vars(l) \cup S
  BY <1>1, Shape DEF Writes
<1>3. SymbolPut(t, l + 1, n, s, u)
  BY <1>2, PutSymbol
<1>4. /\ u \in Seq(LevelType) /\ Len(u) = Len(table)
      /\ DOMAIN u[l + 1].vars = DOMAIN Vars(l) \cup S /\ u[l + 1].vars[n] = s
      /\ \A m \in DOMAIN Vars(l) \cup S : m # n => u[l + 1].vars[m] = t[l + 1].vars[m]
  BY <1>2, <1>3 DEF SymbolPut
<1>5. \A k \in 0 .. CurrentLevel : k # l => u[k + 1] = table[k + 1]
  <2> TAKE k \in 0 .. CurrentLevel
  <2> HAVE k # l
  <2>1. k + 1 \in 1 .. Len(t) /\ k + 1 # l + 1
    BY <1>2
  <2>2. u[k + 1] = t[k + 1]
    BY <1>3, <2>1 DEF SymbolPut
  <2>3. t[k + 1] = table[k + 1]
    BY <1>1 DEF Writes
  <2> QED BY <2>2, <2>3
<1>6. u[l + 1].functions = Functions(l) /\ u[l + 1].saved = table[l + 1].saved
  BY <1>1, <1>3 DEF SymbolPut, Writes
<1>7. \A m \in DOMAIN Vars(l) : Kept(Vars(l)[m], u[l + 1].vars[m])
  <2> TAKE m \in DOMAIN Vars(l)
  <2>1. Kept(Vars(l)[m], t[l + 1].vars[m])
    BY <1>1 DEF Writes
  <2> QED BY <1>4, <2>1
<1>8. S \cap DOMAIN Vars(l) = {}
  BY <1>1 DEF Writes
<1>9. Writes(u, l, S)
  BY <1>4, <1>5, <1>6, <1>7, <1>8 DEF Writes
<1> QED BY <1>1, <1>4, <1>9

\* Nothing is added where nothing is written.
LEMMA NothingAdded ==
  ASSUME TypeOK, NEW l \in 0 .. CurrentLevel, NEW symbols
  PROVE  Added(table, l, {}, symbols)
<1>1. \A n \in DOMAIN Vars(l) : Vars(l)[n] \in Symbols
  BY Shape
<1>2. \A n \in DOMAIN Vars(l) : Kept(Vars(l)[n], Vars(l)[n])
  BY <1>1 DEF Kept
<1> QED BY <1>2 DEF Added, Writes, TypeOK, Vars, Functions

LEMMA EditInPlaceWrites ==
  ASSUME TypeOK, BuiltInsInPlace, NEW n \in BuiltInNames, NEW kind \in Kinds
  PROVE  /\ Writes(EditInPlace(n, kind), LevelOf(n), {})
         /\ kind \in EditInPlace(n, kind)[LevelOf(n) + 1].vars[n].edits
<1> DEFINE l == LevelOf(n)
           s == Edit(Vars(l)[n], kind)
           t == EditInPlace(n, kind)
<1>1. /\ l \in 0 .. CurrentLevel /\ n \in DOMAIN Vars(l) /\ Vars(l)[n] \in Symbols
  BY FoundAtHome DEF Find
<1>2. s \in Symbols /\ Kept(Vars(l)[n], s) /\ kind \in s.edits
  BY <1>1, EditKeeps
<1>3. t = WithSymbol(table, l + 1, n, s)
  BY DEF EditInPlace, WithSymbol, Vars
<1>4. Added(table, l, {}, <<>>)
  BY <1>1, NothingAdded
<1> HIDE DEF l, s, t
<1>5. Writes(t, l, {}) /\ t[l + 1].vars[n] = s
  BY <1>1, <1>2, <1>3, <1>4, PutOver
<1> QED BY <1>2, <1>5 DEF l, t

-------------------------------------------------------------------------------
(* A step that edits symbols of one level and adds others to it.             *)

Sym(t, l, n) == t[l + 1].vars[n]

\* What the invariants need of the symbols added: numbers up to last, ...
NewBound(t, l, S, last) ==
  \A n \in S : Sym(t, l, n).id[2] <= last /\ Sym(t, l, n).writable
\* ... shared only by a copy or within a block, ...
NewApart(t, l, S) ==
  \A n \in S :
    /\ \A k \in 0 .. CurrentLevel : \A m \in DOMAIN Vars(k) :
         Sym(t, l, n).id[2] = Vars(k)[m].id[2] =>
           \/ n = m /\ n \in BuiltInNames
           \/ Sym(t, l, n).block = Vars(k)[m].block /\ Sym(t, l, n).block # <<>>
    /\ \A m \in S : Sym(t, l, n).id[2] = Sym(t, l, m).id[2] =>
         n = m \/ (Sym(t, l, n).block = Sym(t, l, m).block /\ Sym(t, l, n).block # <<>>)
\* ... built-ins with all members and all edits, ...
NewBuiltIns(t, l, S) ==
  \A n \in S : n \in BuiltInNames =>
    /\ l = globalLevel /\ S = MemberSet(n)
    /\ Sym(t, l, n).block = Declared(n).block /\ Find(n).edits \subseteq Sym(t, l, n).edits
    /\ \A m \in S : Sym(t, l, m).id = Sym(t, l, n).id
\* ... and others that tell and do not clash.
NewOwn(t, l, S) ==
  \A n \in S :
    /\ n \notin BuiltInNames => l >= globalLevel /\ Sym(t, l, n).id[1] > 2
    /\ n \in Functions(l) => SeparateNameSpaces \/ Sym(t, l, n).block # <<>>

Grows(l, S) ==
  /\ l \in 2 .. CurrentLevel
  /\ Writes(table', l, S)
  /\ uniqueId'[2] \in Nat /\ uniqueId[2] <= uniqueId'[2]
  /\ NewBound(table', l, S, uniqueId'[2]) /\ NewApart(table', l, S)
  /\ NewBuiltIns(table', l, S) /\ NewOwn(table', l, S)

\* The symbols after the step: those there were, edited or not, and the new.
LEMMA GrowsShape ==
  ASSUME SymbolIInv, NEW l, NEW S, Grows(l, S)
  PROVE  /\ CurrentLevel' = CurrentLevel /\ l \in 0 .. CurrentLevel /\ CurrentLevel \in Nat
         /\ CurrentLevel >= 3 /\ globalLevel = 3 /\ IsSharedLevel(l) = FALSE
         /\ \A k \in 0 .. CurrentLevel :
              /\ k # l => Vars(k)' = Vars(k)
              /\ Functions(k)' = Functions(k) /\ table'[k + 1].saved = table[k + 1].saved
         /\ DOMAIN Vars(l)' = DOMAIN Vars(l) \cup S /\ S \cap DOMAIN Vars(l) = {}
         /\ \A n \in S : Vars(l)'[n] = Sym(table', l, n)
         /\ \A n \in DOMAIN Vars(l) : Kept(Vars(l)[n], Vars(l)'[n])
<1>1. Writes(table', l, S) /\ l \in 2 .. CurrentLevel
  BY DEF Grows
<1>2. TypeOK
  BY DEF SymbolIInv
<1>3. CurrentLevel' = CurrentLevel
  BY <1>1 DEF Writes, CurrentLevel
<1>4. CurrentLevel \in Nat /\ CurrentLevel >= 3 /\ globalLevel = 3 /\ l \in 0 .. CurrentLevel
  BY <1>1, <1>2, Shape
<1>5. IsSharedLevel(l) = FALSE
  BY <1>1, <1>4 DEF IsSharedLevel
<1>6. ASSUME NEW k \in 0 .. CurrentLevel
      PROVE  /\ k # l => Vars(k)' = Vars(k)
             /\ Functions(k)' = Functions(k) /\ table'[k + 1].saved = table[k + 1].saved
  BY <1>1 DEF Writes, Vars, Functions
<1>7. /\ DOMAIN Vars(l)' = DOMAIN Vars(l) \cup S /\ S \cap DOMAIN Vars(l) = {}
      /\ \A n \in DOMAIN Vars(l) : Kept(Vars(l)[n], Vars(l)'[n])
      /\ \A n \in S : Vars(l)'[n] = Sym(table', l, n)
  BY <1>1 DEF Writes, Vars, Sym
<1> QED BY <1>3, <1>4, <1>5, <1>6, <1>7

\* A symbol after the step is new, or has the number, block and flag of an old
\* one, and its edits.
LEMMA GrowsOldOrNew ==
  ASSUME SymbolIInv, NEW l, NEW S, Grows(l, S),
         NEW k \in 0 .. CurrentLevel, NEW n \in DOMAIN Vars(k)'
  PROVE  \/ k = l /\ n \in S /\ n \notin DOMAIN Vars(k) /\ Vars(k)'[n] = Sym(table', l, n)
         \/ n \in DOMAIN Vars(k) /\ (k = l => n \notin S) /\ Vars(k)'[n].id = Vars(k)[n].id
              /\ Vars(k)'[n].block = Vars(k)[n].block
              /\ Vars(k)'[n].writable = Vars(k)[n].writable
              /\ Vars(k)[n].edits \subseteq Vars(k)'[n].edits
<1>1. CASE k # l
  <2>1. Vars(k)' = Vars(k)
    BY <1>1, GrowsShape
  <2> QED BY <1>1, <2>1
<1>2. CASE k = l /\ n \in S
  BY <1>2, GrowsShape
<1>3. CASE k = l /\ n \notin S
  <2>1. n \in DOMAIN Vars(l)
    <3>1. DOMAIN Vars(l)' = DOMAIN Vars(l) \cup S
      BY GrowsShape
    <3> QED BY <1>3, <3>1 DEF Vars
  <2>2. Kept(Vars(l)[n], Vars(l)'[n])
    BY <2>1, GrowsShape
  <2> QED BY <1>3, <2>1, <2>2 DEF Kept
<1> QED BY <1>1, <1>2, <1>3

LEMMA GrowsNumbersBehind ==
  ASSUME SymbolIInv, NEW l, NEW S, Grows(l, S)
  PROVE  NumbersBehind'
<1> SUFFICES ASSUME NEW k \in 0 .. CurrentLevel', NEW n \in DOMAIN Vars(k)'
             PROVE  Vars(k)'[n].id[2] <= uniqueId'[2]
  BY DEF NumbersBehind
<1>1. k \in 0 .. CurrentLevel
  BY GrowsShape
<1>2. CASE k = l /\ n \in S /\ Vars(k)'[n] = Sym(table', l, n)
  BY <1>2 DEF Grows, NewBound
<1>3. CASE n \in DOMAIN Vars(k) /\ Vars(k)'[n].id = Vars(k)[n].id
  <2>1. Vars(k)[n].id[2] \in Nat /\ uniqueId[2] \in Nat
    BY <1>1, <1>3, Shape DEF SymbolIInv, Symbols, TypeOK
  <2>2. Vars(k)[n].id[2] <= uniqueId[2]
    BY <1>1, <1>3 DEF SymbolIInv, NumbersBehind
  <2> QED BY <1>3, <2>1, <2>2 DEF Grows
<1> QED BY <1>1, <1>2, <1>3, GrowsOldOrNew

LEMMA GrowsNumbersApart ==
  ASSUME SymbolIInv, NEW l, NEW S, Grows(l, S)
  PROVE  NumbersApart'
<1> SUFFICES ASSUME NEW k \in 0 .. CurrentLevel', NEW j \in 0 .. CurrentLevel',
                    NEW n \in DOMAIN Vars(k)', NEW m \in DOMAIN Vars(j)',
                    Vars(k)'[n].id[2] = Vars(j)'[m].id[2]
             PROVE  \/ n = m /\ (k = j \/ n \in BuiltInNames)
                    \/ Vars(k)'[n].block = Vars(j)'[m].block /\ Vars(k)'[n].block # <<>>
  BY DEF NumbersApart, BuiltInNames
<1>0. k \in 0 .. CurrentLevel /\ j \in 0 .. CurrentLevel
  BY GrowsShape
<1> DEFINE New(i, x) == i = l /\ x \in S /\ Vars(i)'[x] = Sym(table', l, x)
           Old(i, x) == /\ x \in DOMAIN Vars(i) /\ Vars(i)'[x].id = Vars(i)[x].id
                        /\ Vars(i)'[x].block = Vars(i)[x].block
<1>1. New(k, n) \/ Old(k, n)
  BY <1>0, GrowsOldOrNew
<1>2. New(j, m) \/ Old(j, m)
  BY <1>0, GrowsOldOrNew
<1>3. CASE Old(k, n) /\ Old(j, m)
  BY <1>0, <1>3 DEF SymbolIInv, NumbersApart
<1>4. CASE New(k, n) /\ Old(j, m)
  BY <1>0, <1>4 DEF Grows, NewApart
<1>5. CASE Old(k, n) /\ New(j, m)
  BY <1>0, <1>5 DEF Grows, NewApart
<1>6. CASE New(k, n) /\ New(j, m)
  BY <1>0, <1>6 DEF Grows, NewApart
<1> QED BY <1>1, <1>2, <1>3, <1>4, <1>5, <1>6

LEMMA GrowsBuiltInsInPlace ==
  ASSUME SymbolIInv, NEW l, NEW S, Grows(l, S)
  PROVE  BuiltInsInPlace'
<1> SUFFICES ASSUME NEW n \in BuiltInNames
             PROVE  /\ n \in DOMAIN Vars(Declared(n).level)'
                    /\ n \in DOMAIN Vars(globalLevel)' =>
                         MemberSet(n) \subseteq DOMAIN Vars(globalLevel)'
                    /\ \A k \in 0 .. CurrentLevel' : n \in DOMAIN Vars(k)' =>
                         /\ k \in {Declared(n).level, globalLevel}
                         /\ Vars(k)'[n].block = Declared(n).block
                         /\ \A m \in MemberSet(n) \cap DOMAIN Vars(k)' :
                              Vars(k)'[m].id = Vars(k)'[n].id
  BY DEF BuiltInsInPlace, BuiltInNames, MemberSet, Members, Declared, globalLevel
<1> DEFINE New(i, x) == i = l /\ x \in S /\ Vars(i)'[x] = Sym(table', l, x)
           Old(i, x) == /\ x \in DOMAIN Vars(i) /\ Vars(i)'[x].id = Vars(i)[x].id
                        /\ Vars(i)'[x].block = Vars(i)[x].block /\ (i = l => x \notin S)
<1>0. /\ CurrentLevel' = CurrentLevel /\ globalLevel \in 0 .. CurrentLevel
      /\ Declared(n).level \in 0 .. CurrentLevel /\ globalLevel = 3
      /\ TypeOK /\ BuiltInsInPlace /\ Declared(n).level < 3
  <2>1. Declared(n).level \in 0 .. 2
    BY BuiltInFacts
  <2>2. /\ CurrentLevel' = CurrentLevel /\ CurrentLevel \in Nat /\ CurrentLevel >= 3
        /\ globalLevel = 3
    BY GrowsShape
  <2> QED BY <2>1, <2>2 DEF SymbolIInv
<1>1. \A k \in 0 .. CurrentLevel : DOMAIN Vars(k) \subseteq DOMAIN Vars(k)'
  <2> TAKE k \in 0 .. CurrentLevel
  <2>1. CASE k # l
    BY <2>1, GrowsShape
  <2>2. CASE k = l
    <3>1. DOMAIN Vars(l) \subseteq DOMAIN Vars(l)'
      BY GrowsShape
    <3> QED BY <2>2, <3>1 DEF Vars
  <2> QED BY <2>1, <2>2
<1>2. n \in DOMAIN Vars(Declared(n).level)'
  BY <1>0, <1>1 DEF BuiltInsInPlace
<1>3. \A k \in 0 .. CurrentLevel : \A x \in DOMAIN Vars(k)' : New(k, x) \/ Old(k, x)
  BY GrowsOldOrNew
<1>4. S \subseteq DOMAIN Vars(l)'
  <2>1. DOMAIN Vars(l)' = DOMAIN Vars(l) \cup S
    BY GrowsShape
  <2> QED BY <2>1
<1>5. n \in S => l = globalLevel /\ S = MemberSet(n) /\ Sym(table', l, n).block = Declared(n).block
               /\ \A m \in S : Sym(table', l, m).id = Sym(table', l, n).id
  BY DEF Grows, NewBuiltIns
<1>6. ASSUME n \in DOMAIN Vars(globalLevel)'
      PROVE  MemberSet(n) \subseteq DOMAIN Vars(globalLevel)'
  <2>1. CASE New(globalLevel, n)
    BY <1>4, <1>5, <2>1 DEF Vars
  <2>2. CASE Old(globalLevel, n)
    <3>1. MemberSet(n) \subseteq DOMAIN Vars(globalLevel)
      BY <1>0, <2>2 DEF BuiltInsInPlace
    <3> QED BY <1>0, <1>1, <3>1
  <2> QED BY <1>0, <1>3, <1>6, <2>1, <2>2
<1>7. ASSUME NEW k \in 0 .. CurrentLevel, n \in DOMAIN Vars(k)'
      PROVE  /\ k \in {Declared(n).level, globalLevel}
             /\ Vars(k)'[n].block = Declared(n).block
             /\ \A m \in MemberSet(n) \cap DOMAIN Vars(k)' : Vars(k)'[m].id = Vars(k)'[n].id
  <2>1. CASE New(k, n)
    <3>1. k = l /\ k = globalLevel /\ S = MemberSet(n) /\ Vars(k)'[n].block = Declared(n).block
      BY <1>5, <2>1
    <3>2. \A m \in S \cap DOMAIN Vars(k)' : New(k, m)
      BY <1>3, <3>1
    <3>3. \A m \in S \cap DOMAIN Vars(k)' : Vars(k)'[m].id = Vars(k)'[n].id
      BY <1>5, <2>1, <3>2
    <3> QED BY <3>1, <3>3
  <2>2. CASE Old(k, n)
    <3>1. /\ k \in {Declared(n).level, globalLevel} /\ Vars(k)[n].block = Declared(n).block
          /\ \A m \in MemberSet(n) \cap DOMAIN Vars(k) : Vars(k)[m].id = Vars(k)[n].id
      BY <1>0, <2>2 DEF BuiltInsInPlace
    <3>2. ASSUME NEW m \in MemberSet(n) \cap DOMAIN Vars(k)', New(k, m)
          PROVE  FALSE
      <4>1. m \in BuiltInNames /\ n \in MemberSet(m)
        BY BuiltInFacts, MemberFacts
      <4>2. S = MemberSet(m)
        BY <3>2, <4>1 DEF Grows, NewBuiltIns
      <4> QED BY <2>2, <3>2, <4>1, <4>2
    <3>3. \A m \in MemberSet(n) \cap DOMAIN Vars(k)' : Old(k, m)
      BY <1>3, <3>2
    <3>4. \A m \in MemberSet(n) \cap DOMAIN Vars(k)' : Vars(k)'[m].id = Vars(k)'[n].id
      BY <2>2, <3>1, <3>3
    <3> QED BY <2>2, <3>1, <3>4
  <2> QED BY <1>3, <1>7, <2>1, <2>2
<1> QED BY <1>0, <1>2, <1>6, <1>7

\* Of the rest: flags, functions, clashes, ids that tell, and defaults.
LEMMA GrowsRest ==
  ASSUME SymbolIInv, NEW l, NEW S, Grows(l, S)
  PROVE  /\ SharedReadOnly' /\ OwnFunctions' /\ NoNameClash' /\ UserIdsTell'
         /\ UNCHANGED <<defaultPrecision, entered>> => DefaultsSaved'
<1>0. /\ CurrentLevel' = CurrentLevel /\ CurrentLevel \in Nat /\ globalLevel = 3
      /\ \A k \in 0 .. CurrentLevel :
           Functions(k)' = Functions(k) /\ table'[k + 1].saved = table[k + 1].saved
  BY GrowsShape
<1>1. SharedReadOnly'
  <2> SUFFICES ASSUME NEW k \in 0 .. CurrentLevel', NEW n \in DOMAIN Vars(k)'
               PROVE  Vars(k)'[n].writable = ~IsSharedLevel(k)
    BY DEF SharedReadOnly, IsSharedLevel
  <2>0. k \in 0 .. CurrentLevel
    BY <1>0
  <2>1. CASE k = l /\ n \in S /\ Vars(k)'[n] = Sym(table', l, n)
    <3>1. Sym(table', l, n).writable /\ Vars(l)'[n] = Sym(table', l, n)
      BY <2>1, GrowsShape DEF Grows, NewBound
    <3>2. table' \in Seq(LevelType) /\ l + 1 \in 1 .. Len(table') /\ n \in DOMAIN table'[l + 1].vars
      BY <2>0, <2>1, <1>0 DEF Grows, Writes, Vars, CurrentLevel
    <3>3. Sym(table', l, n) \in Symbols
      <4>1. table'[l + 1] \in LevelType
        <5> HIDE DEF LevelType
        <5> QED BY <3>2
      <4>2. table'[l + 1].vars \in UNION {[D -> Symbols] : D \in SUBSET Names}
        BY <4>1 DEF LevelType
      <4> QED BY <3>2, <4>2 DEF Sym
    <3>4. Sym(table', l, n).writable \in BOOLEAN
      BY <3>3 DEF Symbols
    <3>5. IsSharedLevel(k) = FALSE
      BY <2>1, GrowsShape
    <3> QED BY <2>1, <3>1, <3>4, <3>5
  <2>2. CASE n \in DOMAIN Vars(k) /\ Vars(k)'[n].writable = Vars(k)[n].writable
    BY <2>0, <2>2 DEF SymbolIInv, SharedReadOnly
  <2> QED BY <2>0, <2>1, <2>2, GrowsOldOrNew
<1>2. OwnFunctions'
  <2> SUFFICES ASSUME NEW k \in globalLevel .. CurrentLevel'
               PROVE  Functions(k)' \subseteq UserNames
    BY DEF OwnFunctions, globalLevel
  <2>1. k \in 0 .. CurrentLevel /\ k \in globalLevel .. CurrentLevel
    BY <1>0
  <2> QED BY <1>0, <2>1 DEF SymbolIInv, OwnFunctions
<1>3. NoNameClash'
  <2> SUFFICES ASSUME NEW k \in globalLevel .. CurrentLevel',
                      NEW n \in Functions(k)' \cap DOMAIN Vars(k)'
               PROVE  SeparateNameSpaces \/ Vars(k)'[n].block # <<>>
    BY DEF NoNameClash, globalLevel
  <2>1. /\ k \in 0 .. CurrentLevel /\ k \in globalLevel .. CurrentLevel
        /\ n \in Functions(k)
    BY <1>0
  <2>2. CASE k = l /\ n \in S /\ Vars(k)'[n] = Sym(table', l, n)
    BY <2>1, <2>2 DEF Grows, NewOwn
  <2>3. CASE n \in DOMAIN Vars(k) /\ Vars(k)'[n].block = Vars(k)[n].block
    BY <2>1, <2>3 DEF SymbolIInv, NoNameClash
  <2> QED BY <2>1, <2>2, <2>3, GrowsOldOrNew
<1>4. UserIdsTell'
  <2> SUFFICES ASSUME NEW k \in globalLevel .. CurrentLevel', NEW n \in DOMAIN Vars(k)',
                      n \notin BuiltInNames
               PROVE  ~IsBuiltInLevel(Vars(k)'[n].id[1])
    BY DEF UserIdsTell, globalLevel, BuiltInNames, IsBuiltInLevel
  <2>1. k \in 0 .. CurrentLevel /\ k \in globalLevel .. CurrentLevel
    BY <1>0
  <2>2. CASE k = l /\ n \in S /\ Vars(k)'[n] = Sym(table', l, n)
    <3>1. Sym(table', l, n).id[1] > 2 /\ Sym(table', l, n).id[1] \in Nat
      <4>1. l + 1 \in 1 .. Len(table') /\ table' \in Seq(LevelType) /\ n \in DOMAIN table'[l + 1].vars
        BY <1>0, <2>1, <2>2 DEF Grows, Writes, Vars, CurrentLevel
      <4>2. table'[l + 1] \in LevelType
        <5> HIDE DEF LevelType
        <5> QED BY <4>1
      <4>3. table'[l + 1].vars \in UNION {[D -> Symbols] : D \in SUBSET Names}
        BY <4>2 DEF LevelType
      <4>4. Sym(table', l, n) \in Symbols
        BY <4>1, <4>3 DEF Sym
      <4> QED BY <2>2, <4>4 DEF Grows, NewOwn, Symbols
    <3> QED BY <2>2, <3>1 DEF IsBuiltInLevel
  <2>3. CASE n \in DOMAIN Vars(k) /\ Vars(k)'[n].id = Vars(k)[n].id
    BY <2>1, <2>3 DEF SymbolIInv, UserIdsTell
  <2> QED BY <2>1, <2>2, <2>3, GrowsOldOrNew
<1>5. ASSUME UNCHANGED <<defaultPrecision, entered>>
      PROVE  DefaultsSaved'
  <2>1. \A i \in 1 .. Len(entered) : i + 3 \in 0 .. CurrentLevel /\ (i + 3) + 1 = i + 4
    BY <1>0 DEF SymbolIInv, TypeOK
  <2>2. \A i \in 1 .. Len(entered) : table'[i + 4].saved = table[i + 4].saved
    BY <1>0, <2>1
  <2> QED BY <1>5, <2>2 DEF SymbolIInv, DefaultsSaved, Default
<1> QED BY <1>1, <1>2, <1>3, <1>4, <1>5

\* A built-in keeps its edits, wherever it is found.
LEMMA GrowsEdits ==
  ASSUME SymbolIInv, NEW l, NEW S, Grows(l, S), NEW n \in BuiltInNames
  PROVE  Find(n).edits \subseteq AtHome(n)'.edits
<1>1. TypeOK /\ BuiltInsInPlace
  BY DEF SymbolIInv
<1>2. /\ Home(n) \in 0 .. CurrentLevel /\ n \in DOMAIN Vars(Home(n))
      /\ Find(n) = Vars(Home(n))[n] /\ Declared(n).level \in 0 .. 2
  BY <1>1, FoundAtHome, BuiltInFacts
<1>3. /\ CurrentLevel' = CurrentLevel /\ CurrentLevel \in Nat /\ CurrentLevel >= 3
      /\ globalLevel = 3 /\ l \in 0 .. CurrentLevel
  BY GrowsShape
<1>4. AtHome(n)' = IF n \in DOMAIN Vars(3)' THEN Vars(3)'[n] ELSE Vars(Declared(n).level)'[n]
  BY <1>3 DEF AtHome, Home, Vars, globalLevel, Declared
<1>5. CASE n \in S
  <2>1. l = 3 /\ Find(n).edits \subseteq Sym(table', l, n).edits
    BY <1>3, <1>5 DEF Grows, NewBuiltIns
  <2>2. DOMAIN Vars(l)' = DOMAIN Vars(l) \cup S /\ Vars(l)'[n] = Sym(table', l, n)
    BY <1>5, GrowsShape
  <2>3. n \in DOMAIN Vars(3)' /\ Vars(3)'[n] = Sym(table', l, n)
    BY <1>5, <2>1, <2>2 DEF Vars
  <2> QED BY <1>4, <2>1, <2>3
<1>6. CASE n \notin S
  <2>1. \A k \in 0 .. CurrentLevel : n \in DOMAIN Vars(k)' <=> n \in DOMAIN Vars(k)
    <3> TAKE k \in 0 .. CurrentLevel
    <3>1. CASE k # l
      BY <3>1, GrowsShape
    <3>2. CASE k = l
      <4>1. DOMAIN Vars(l)' = DOMAIN Vars(l) \cup S
        BY GrowsShape
      <4> QED BY <1>6, <3>2, <4>1 DEF Vars
    <3> QED BY <3>1, <3>2
  <2>2. \A k \in 0 .. CurrentLevel : n \in DOMAIN Vars(k) =>
          Vars(k)[n].edits \subseteq Vars(k)'[n].edits
    BY <1>6, <2>1, GrowsOldOrNew
  <2>3. AtHome(n)' = IF Home(n) = 3 THEN Vars(3)'[n] ELSE Vars(Declared(n).level)'[n]
    BY <1>2, <1>3, <1>4, <2>1 DEF Home
  <2>4. Home(n) \in {3, Declared(n).level}
    BY <1>3 DEF Home
  <2> QED BY <1>2, <1>3, <2>2, <2>3, <2>4
<1> QED BY <1>5, <1>6

LEMMA GrowsMade ==
  ASSUME SymbolIInv, NEW l, NEW S, Grows(l, S)
  PROVE  \A e \in made : e[2] # "invariant" => e[2] \in AtHome(e[1])'.edits
<1> TAKE e \in made
<1> HAVE e[2] # "invariant"
<1>1. e[1] \in BuiltInNames
  BY DEF SymbolIInv, TypeOK
<1>2. e[2] \in Find(e[1]).edits
  BY <1>1, FoundAtHome DEF SymbolIInv, EditsAtHome, AtHome
<1> QED BY <1>1, <1>2, GrowsEdits

LEMMA GrowsUses ==
  ASSUME SymbolIInv, NEW l, NEW S, Grows(l, S)
  PROVE  \A u \in uses : SharedUnsized(u[1]) =>
           u[1] \in DOMAIN Vars(globalLevel)' /\ u[2] = Vars(globalLevel)'[u[1]].id
<1> TAKE u \in uses
<1> HAVE SharedUnsized(u[1])
<1>1. u[1] \in DOMAIN Vars(globalLevel) /\ u[2] = Vars(globalLevel)[u[1]].id
  BY DEF SymbolIInv, UsesSettled
<1>2. globalLevel \in 0 .. CurrentLevel
  BY Shape DEF SymbolIInv
<1>3. CASE l # globalLevel
  <2>1. Vars(globalLevel)' = Vars(globalLevel)
    BY <1>2, <1>3, GrowsShape
  <2> QED BY <1>1, <2>1
<1>4. CASE l = globalLevel
  <2>1. u[1] \in DOMAIN Vars(l)' /\ Kept(Vars(l)[u[1]], Vars(l)'[u[1]])
    <3>1. DOMAIN Vars(l)' = DOMAIN Vars(l) \cup S
      BY GrowsShape
    <3>2. u[1] \in DOMAIN Vars(l)
      BY <1>1, <1>4
    <3>3. Kept(Vars(l)[u[1]], Vars(l)'[u[1]])
      BY <3>2, GrowsShape
    <3> QED BY <3>1, <3>2, <3>3
  <2>2. Vars(l)'[u[1]].id = Vars(l)[u[1]].id
    BY <2>1 DEF Kept
  <2> QED BY <1>1, <1>4, <2>1, <2>2 DEF Vars
<1> QED BY <1>3, <1>4

-------------------------------------------------------------------------------
(* Every action that writes symbols is such a step.                          *)

\* Of the last number, and of the levels.
LEMMA Counters ==
  ASSUME SymbolIInv
  PROVE  /\ uniqueId[1] \in Nat /\ uniqueId[2] \in Nat /\ uniqueId[1] > 2
         /\ FreshId \in Nat \X Nat /\ FreshId[1] > 2 /\ FreshId[2] = uniqueId[2] + 1
         /\ \A k \in 0 .. CurrentLevel : \A m \in DOMAIN Vars(k) :
              Vars(k)[m].id[2] \in Nat /\ Vars(k)[m].id[2] <= uniqueId[2]
<1>1. uniqueId \in Nat \X Nat /\ TypeOK
  BY DEF SymbolIInv, TypeOK
<1>2. uniqueId[1] > 2
  <2>1. uniqueId[1] = Clamp(CurrentLevel) /\ CurrentLevel \in Nat /\ CurrentLevel >= 3
    BY <1>1, Shape DEF SymbolIInv, CounterBeyond
  <2> QED BY <2>1, SymbolTableAssumption DEF Clamp
<1>3. FreshId \in Nat \X Nat /\ FreshId[1] > 2 /\ FreshId[2] = uniqueId[2] + 1
  BY <1>1, <1>2 DEF FreshId
<1>4. \A k \in 0 .. CurrentLevel : \A m \in DOMAIN Vars(k) :
        Vars(k)[m].id[2] \in Nat /\ Vars(k)[m].id[2] <= uniqueId[2]
  BY <1>1, Shape DEF SymbolIInv, NumbersBehind, Symbols
<1> QED BY <1>1, <1>2, <1>3, <1>4

LEMMA InsertGrows ==
  ASSUME SymbolIInv, NEW b \in Blocks, NEW names, names \in Seq(Names \ BuiltInNames),
         table' = AddSymbol(names, Symbol(FreshId, b)), uniqueId' = FreshId,
         b = <<>> => \E n \in Names : names = <<n>> /\ ~ClashesWithFunction(n)
  PROVE  Grows(CurrentLevel, Inserted(CurrentLevel, names))
<1> DEFINE l == CurrentLevel
           S == Inserted(l, names)
           R == {names[i] : i \in DOMAIN names}
           s == Symbol(FreshId, b)
           f == [n \in R |-> s]
<1>1. /\ l \in 0 .. CurrentLevel /\ l \in 2 .. CurrentLevel /\ l >= globalLevel /\ TypeOK
  BY Shape DEF SymbolIInv
<1>2. S \subseteq R /\ R \subseteq Names \ BuiltInNames
  BY DEF Inserted
<1>3. s \in Symbols /\ s.id = FreshId /\ s.block = b /\ s.writable
  BY Counters DEF Symbol, Symbols
<1> HIDE DEF s
<1>4. \A n \in S : n \in Names /\ f[n] \in Symbols /\ f[n] = s
  BY <1>2, <1>3
<1>5. Added(table', l, S, f)
  <2>1. table' = AddNames(l, names, f)
    BY DEF AddSymbol, s
  <2>2. DOMAIN names \subseteq Nat \ {0}
    OBVIOUS
  <2> HIDE DEF f, l
  <2> QED BY <1>1, <1>4, <2>1, <2>2, AddNamesWrites
<1>6. \A n \in S : Sym(table', l, n) = s
  <2> HIDE DEF f, S
  <2> QED BY <1>4, <1>5 DEF Added, Sym
<1>7. Writes(table', l, S)
  BY <1>5 DEF Added
<1> HIDE DEF l, f
<1>8. NewBound(table', l, S, uniqueId'[2])
  BY <1>3, <1>6, Counters DEF NewBound
<1>9. b = <<>> => \A n, m \in S : n = m
  BY <1>2
<1> HIDE DEF S, R
<1>10. NewApart(table', l, S)
  <2>1. ASSUME NEW n \in S, NEW k \in 0 .. CurrentLevel, NEW m \in DOMAIN Vars(k)
        PROVE  Sym(table', l, n).id[2] # Vars(k)[m].id[2]
    BY <1>3, <1>6, Counters
  <2>2. ASSUME NEW n \in S, NEW m \in S
        PROVE  n = m \/ (Sym(table', l, n).block = Sym(table', l, m).block
                           /\ Sym(table', l, n).block # <<>>)
    BY <1>3, <1>6, <1>9
  <2> QED BY <2>1, <2>2 DEF NewApart
<1>11. NewBuiltIns(table', l, S)
  BY <1>2 DEF NewBuiltIns
<1>12. NewOwn(table', l, S)
  <2>1. ASSUME NEW n \in S, n \in Functions(l), b = <<>>
        PROVE  SeparateNameSpaces
    <3>1. PICK x \in Names : names = <<x>> /\ ~ClashesWithFunction(x)
      BY <2>1
    <3>2. n = x
      BY <1>2, <3>1 DEF R
    <3> QED BY <2>1, <3>1, <3>2 DEF ClashesWithFunction, l
  <2>2. \A n \in S : Sym(table', l, n).id[1] > 2 /\ Sym(table', l, n).block = b
    BY <1>3, <1>6, Counters
  <2> QED BY <1>1, <2>1, <2>2 DEF NewOwn
<1>13. uniqueId'[2] \in Nat /\ uniqueId[2] <= uniqueId'[2]
  BY Counters
<1>14. Grows(l, S)
  BY <1>1, <1>7, <1>8, <1>10, <1>11, <1>12, <1>13 DEF Grows
<1> QED BY <1>14 DEF l, S

LEMMA EditGrows ==
  ASSUME SymbolIInv, NEW n \in BuiltInNames, NEW kind \in Kinds, LevelOf(n) >= 2,
         table' = EditInPlace(n, kind), uniqueId' = uniqueId
  PROVE  /\ Grows(LevelOf(n), {})
         /\ kind \in AtHome(n)'.edits
<1>1. TypeOK /\ BuiltInsInPlace
  BY DEF SymbolIInv
<1>0. PICK l \in 0 .. CurrentLevel : l = LevelOf(n)
  BY <1>1, FoundAtHome
<1>2. /\ l = Home(n) /\ l \in 0 .. CurrentLevel /\ n \in DOMAIN Vars(l)
      /\ (n \notin DOMAIN Vars(globalLevel) => l = Declared(n).level)
  BY <1>0, <1>1, FoundAtHome
<1>3. Writes(table', l, {}) /\ kind \in table'[l + 1].vars[n].edits
  BY <1>0, <1>1, EditInPlaceWrites
<1>4. Grows(l, {})
  <2>1. l \in 2 .. CurrentLevel
    BY <1>0, <1>1, <1>2, Shape
  <2> QED BY <1>3, <2>1, Counters DEF Grows, NewBound, NewApart, NewBuiltIns, NewOwn
<1>5. DOMAIN Vars(l)' = DOMAIN Vars(l)
  BY <1>3 DEF Writes, Vars
<1>6. \A k \in 0 .. CurrentLevel : k # l => Vars(k)' = Vars(k)
  BY <1>4, GrowsShape
<1>7. Home(n)' = l
  <2>1. n \in DOMAIN Vars(globalLevel)' <=> n \in DOMAIN Vars(globalLevel)
    <3>1. CASE l = globalLevel
      BY <1>5, <3>1 DEF Vars, globalLevel
    <3>2. CASE l # globalLevel
      <4>1. globalLevel \in 0 .. CurrentLevel
        BY <1>1, Shape
      <4>2. Vars(globalLevel)' = Vars(globalLevel)
        BY <1>6, <3>2, <4>1
      <4> QED BY <4>2
    <3> QED BY <3>1, <3>2
  <2>2. Home(n)' = IF n \in DOMAIN Vars(globalLevel)' THEN globalLevel ELSE Declared(n).level
    BY DEF Home, globalLevel, Declared, Vars
  <2> QED BY <1>2, <2>1, <2>2 DEF Home
<1>8. kind \in AtHome(n)'.edits
  BY <1>3, <1>7 DEF AtHome, Vars
<1> QED BY <1>0, <1>4, <1>8

\* A copy of a built-in, perhaps with more edits and another level in its id.
CopyOK(s, c) ==
  /\ c.block = s.block /\ c.writable /\ c.id[2] = s.id[2] /\ s.edits \subseteq c.edits
  /\ s.block # <<>> => c.id = s.id

LEMMA CopyGrows ==
  ASSUME SymbolIInv, NEW n \in BuiltInNames, uniqueId' = uniqueId,
         Writes(table', globalLevel, CopiedNames(n)),
         \A m \in CopiedNames(n) : CopyOK(Find(m), Sym(table', globalLevel, m))
  PROVE  Grows(globalLevel, CopiedNames(n))
<1> DEFINE l == globalLevel
           S == CopiedNames(n)
<1>1. TypeOK /\ BuiltInsInPlace /\ l \in 2 .. CurrentLevel /\ l = 3
  BY Shape DEF SymbolIInv
<1>2. /\ S \subseteq MemberSet(n)
      /\ \A m \in S : S = MemberSet(m) /\ m \in BuiltInNames /\ m \notin DOMAIN Vars(globalLevel)
  BY <1>1, BuiltInFacts, MemberFacts, TogetherAtGlobal DEF CopiedNames
<1>3. \A m \in S : /\ Home(m) \in 0 .. CurrentLevel /\ m \in DOMAIN Vars(Home(m))
                   /\ Find(m) = Vars(Home(m))[m] /\ Find(m).block = Declared(m).block
                   /\ Home(m) = Home(n) /\ Declared(m).block = Declared(n).block
  BY <1>1, <1>2, FoundAtHome, TogetherAtGlobal, MemberFacts
<1> DEFINE c(m) == Sym(table', globalLevel, m)
<1> HIDE DEF S, l, c
<1>4. \A m \in S : CopyOK(Find(m), c(m))
  BY DEF S, c
<1>5. NewBound(table', l, S, uniqueId'[2])
  <2>1. \A m \in S : Find(m).id[2] <= uniqueId[2]
    BY <1>3, Counters
  <2>2. \A m \in S : c(m).id[2] <= uniqueId[2] /\ c(m).writable
    BY <1>4, <2>1 DEF CopyOK
  <2> QED BY <2>2 DEF NewBound, c, l
<1>6. NewApart(table', l, S)
  <2>1. ASSUME NEW m \in S, NEW k \in 0 .. CurrentLevel, NEW j \in DOMAIN Vars(k),
               c(m).id[2] = Vars(k)[j].id[2]
        PROVE  \/ m = j /\ m \in BuiltInNames
               \/ c(m).block = Vars(k)[j].block /\ c(m).block # <<>>
    <3>1. Vars(Home(m))[m].id[2] = Vars(k)[j].id[2] /\ c(m).block = Vars(Home(m))[m].block
      BY <1>3, <1>4, <2>1 DEF CopyOK
    <3>2. \/ m = j
          \/ Vars(Home(m))[m].block = Vars(k)[j].block /\ Vars(Home(m))[m].block # <<>>
      BY <1>3, <3>1 DEF SymbolIInv, NumbersApart
    <3> QED BY <1>2, <3>1, <3>2
  <2>2. ASSUME NEW m \in S, NEW j \in S, c(m).id[2] = c(j).id[2]
        PROVE  m = j \/ (c(m).block = c(j).block /\ c(m).block # <<>>)
    <3>1. c(j).id[2] = Vars(Home(j))[j].id[2] /\ c(j).block = Vars(Home(j))[j].block
      BY <1>3, <1>4 DEF CopyOK
    <3> QED BY <1>3, <2>1, <2>2, <3>1
  <2> QED BY <2>1, <2>2 DEF NewApart, c, l
<1>7. NewBuiltIns(table', l, S)
  <2>1. ASSUME NEW m \in S, NEW j \in S
        PROVE  c(j).id = c(m).id
    <3>1. CASE Declared(n).block = <<>>
      <4>1. m = n /\ j = n
        BY <1>2, <3>1, BuiltInFacts
      <4> QED BY <4>1
    <3>2. CASE Declared(n).block # <<>>
      <4>1. c(j).id = Vars(Home(n))[j].id /\ c(m).id = Vars(Home(n))[m].id
        BY <1>3, <1>4, <3>2 DEF CopyOK
      <4>2. j \in MemberSet(m) /\ m \in DOMAIN Vars(Home(n)) /\ j \in DOMAIN Vars(Home(n))
        BY <1>2, <1>3
      <4>3. Vars(Home(n))[j].id = Vars(Home(n))[m].id
        BY <1>1, <1>2, <1>3, <4>2 DEF BuiltInsInPlace
      <4> QED BY <4>1, <4>3
    <3> QED BY <3>1, <3>2
  <2>2. \A m \in S : c(m).block = Declared(m).block /\ Find(m).edits \subseteq c(m).edits
    BY <1>3, <1>4 DEF CopyOK
  <2> QED BY <1>2, <2>1, <2>2 DEF NewBuiltIns, c, l
<1>8. NewOwn(table', l, S)
  <2>1. Functions(globalLevel) \subseteq UserNames
    BY <1>1 DEF SymbolIInv, OwnFunctions, l
  <2>2. UserNames \cap BuiltInNames = {}
    BY SymbolTableAssumption DEF BuiltInNames
  <2> QED BY <1>2, <2>1, <2>2 DEF NewOwn, l
<1>9. uniqueId'[2] \in Nat /\ uniqueId[2] <= uniqueId'[2]
  BY Counters
<1>10. Grows(l, S)
  BY <1>1, <1>5, <1>6, <1>7, <1>8, <1>9 DEF Grows, l, S
<1> QED BY <1>10 DEF l, S

\* A copy up that is not edited.
LEMMA CopyUpCopies ==
  ASSUME TypeOK, BuiltInsInPlace, NEW n \in BuiltInNames
  PROVE  /\ Writes(CopyUp(n), globalLevel, CopiedNames(n))
         /\ \A m \in CopiedNames(n) :
              /\ CopyOK(Find(m), Sym(CopyUp(n), globalLevel, m))
              /\ Sym(CopyUp(n), globalLevel, m).id = Find(m).id
<1>1. /\ Added(CopyUp(n), globalLevel, CopiedNames(n), Copies(n))
      /\ \A m \in MemberSet(n) :
              Copies(n)[m] \in Symbols /\ Copies(n)[m] = [Find(m) EXCEPT !.writable = TRUE]
  BY CopyUpAdds
<1>2. CopiedNames(n) \subseteq MemberSet(n)
  BY DEF CopiedNames
<1>3. ASSUME NEW m \in CopiedNames(n)
      PROVE  /\ CopyOK(Find(m), Sym(CopyUp(n), globalLevel, m))
             /\ Sym(CopyUp(n), globalLevel, m).id = Find(m).id
  <2>1. Sym(CopyUp(n), globalLevel, m) = [Find(m) EXCEPT !.writable = TRUE]
    BY <1>1, <1>2 DEF Added, Sym
  <2>2. Find(m) \in Symbols
    BY <1>2, FoundAtHome, TogetherAtGlobal
  <2> QED BY <2>1, <2>2 DEF CopyOK, Symbols
<1>4. Writes(CopyUp(n), globalLevel, CopiedNames(n))
  BY <1>1 DEF Added
<1> QED BY <1>3, <1>4

\* What the caller of a copy up gets to edit.
LEMMA CopyOfIs ==
  ASSUME TypeOK, BuiltInsInPlace, NEW n \in BuiltInNames
  PROVE  /\ CopyOf(n) \in Symbols
         /\ n \in DOMAIN Vars(globalLevel) => Kept(Vars(globalLevel)[n], CopyOf(n))
         /\ n \notin DOMAIN Vars(globalLevel) => CopyOK(Find(n), CopyOf(n))
<1>1. /\ Writes(CopyUp(n), globalLevel, CopiedNames(n))
      /\ \A m \in CopiedNames(n) : CopyOK(Find(m), Sym(CopyUp(n), globalLevel, m))
  BY CopyUpCopies
<1>2. CopyOf(n) = Sym(CopyUp(n), globalLevel, n)
  BY DEF CopyOf, Sym
<1>3. CASE n \in DOMAIN Vars(globalLevel)
  <2>1. Kept(Vars(globalLevel)[n], CopyOf(n))
    BY <1>1, <1>2, <1>3 DEF Writes, Sym
  <2> QED BY <1>3, <2>1 DEF Kept
<1>4. CASE n \notin DOMAIN Vars(globalLevel)
  <2>1. n \in CopiedNames(n)
    BY <1>4, BuiltInFacts DEF CopiedNames
  <2>2. CopyOf(n) = Copies(n)[n] /\ Copies(n)[n] \in Symbols
    BY <1>2, <2>1, BuiltInFacts, CopyUpAdds DEF Added, Sym
  <2> QED BY <1>1, <1>2, <1>4, <2>1, <2>2
<1> QED BY <1>3, <1>4

\* A copy up whose result is edited.
LEMMA EditCopyCopies ==
  ASSUME TypeOK, BuiltInsInPlace, NEW n \in BuiltInNames, NEW s \in Symbols,
         n \in DOMAIN Vars(globalLevel) => Kept(Vars(globalLevel)[n], s),
         n \notin DOMAIN Vars(globalLevel) => CopyOK(Find(n), s)
  PROVE  /\ Writes(EditCopy(n, s), globalLevel, CopiedNames(n))
         /\ \A m \in CopiedNames(n) : CopyOK(Find(m), Sym(EditCopy(n, s), globalLevel, m))
         /\ n \notin DOMAIN Vars(globalLevel) => Sym(EditCopy(n, s), globalLevel, n) = s
<1> DEFINE l == globalLevel
           S == CopiedNames(n)
           u == EditCopy(n, s)
<1>1. Added(CopyUp(n), l, S, Copies(n)) /\ l \in 0 .. CurrentLevel
  BY CopyUpAdds, Shape
<1>2. /\ Writes(CopyUp(n), l, S)
      /\ \A m \in S : CopyOK(Find(m), Sym(CopyUp(n), l, m))
  BY CopyUpCopies
<1>3. CASE ~CopyEntered(n)
  BY <1>2, <1>3 DEF EditCopy, CopyEntered
<1>4. CASE CopyEntered(n)
  <2>1. u = WithSymbol(CopyUp(n), l + 1, n, s)
    BY <1>4 DEF EditCopy, WithSymbol
  <2>2. n \in DOMAIN Vars(l) \cup S
    BY BuiltInFacts DEF CopiedNames
  <2> HIDE DEF l, S, u
  <2>3. Writes(u, l, S) /\ u[l + 1].vars[n] = s
        /\ \A m \in S : m # n => u[l + 1].vars[m] = Copies(n)[m]
    BY <1>1, <2>1, <2>2, PutOver DEF l
  <2>4. \A m \in S : m # n => Sym(u, l, m) = Sym(CopyUp(n), l, m)
    BY <1>1, <2>3 DEF Added, Sym
  <2>5. n \in S => CopyOK(Find(n), s)
    BY DEF S, CopiedNames
  <2>6. \A m \in S : CopyOK(Find(m), Sym(u, l, m))
    BY <1>2, <2>3, <2>4, <2>5 DEF Sym
  <2> QED BY <2>3, <2>6 DEF l, S, u, Sym
<1> QED BY <1>3, <1>4

\* An edit of the copy keeps to this.
LEMMA EditedCopy ==
  ASSUME TypeOK, BuiltInsInPlace, NEW n \in BuiltInNames, NEW kind \in Kinds
  PROVE  LET s == Edit(CopyOf(n), kind)
         IN  /\ s \in Symbols /\ kind \in s.edits
             /\ n \in DOMAIN Vars(globalLevel) => Kept(Vars(globalLevel)[n], s)
             /\ n \notin DOMAIN Vars(globalLevel) => CopyOK(Find(n), s)
<1> DEFINE c == CopyOf(n)
           s == Edit(c, kind)
<1>1. c \in Symbols
  BY CopyOfIs
<1> HIDE DEF c
<1>2. s \in Symbols /\ Kept(c, s) /\ kind \in s.edits
  BY <1>1, EditKeeps
<1> HIDE DEF s
<1>3. n \in DOMAIN Vars(globalLevel) => Kept(Vars(globalLevel)[n], s)
  BY <1>2, CopyOfIs DEF Kept, c
<1>4. n \notin DOMAIN Vars(globalLevel) => CopyOK(Find(n), s)
  BY <1>2, CopyOfIs DEF Kept, CopyOK, c
<1> QED BY <1>2, <1>3, <1>4 DEF s, c

LEMMA CopiedAtHome ==
  ASSUME TypeOK, BuiltInsInPlace, NEW n \in BuiltInNames, n \notin DOMAIN Vars(globalLevel),
         Writes(table', globalLevel, CopiedNames(n))
  PROVE  AtHome(n)' = Sym(table', globalLevel, n) /\ n \in DOMAIN Vars(globalLevel)'
<1>1. n \in CopiedNames(n)
  BY BuiltInFacts DEF CopiedNames
<1>2. n \in DOMAIN Vars(globalLevel)'
  BY <1>1 DEF Writes, Vars, globalLevel
<1>3. Home(n)' = globalLevel
  BY <1>2 DEF Home, globalLevel, Vars
<1> QED BY <1>2, <1>3 DEF AtHome, Sym, Vars, globalLevel

\* Where built-ins are that need a copy or can be edited as they are.
LEMMA Whereabouts ==
  ASSUME SymbolIInv, NEW n \in BuiltInNames
  PROVE  /\ NeedsCopy(n) => n \notin DOMAIN Vars(globalLevel)
         /\ ~NeedsCopy(n) => LevelOf(n) >= 2 /\ LevelOf(n) = globalLevel
         /\ IsReadOnly(n) => LevelOf(n) <= 1 /\ n \notin DOMAIN Vars(globalLevel)
         /\ ~IsReadOnly(n) => LevelOf(n) >= 2
<1>1. TypeOK /\ BuiltInsInPlace /\ globalLevel = 3
  BY DEF SymbolIInv, globalLevel
<1>2. /\ LevelOf(n) = Home(n) /\ Home(n) \in 0 .. CurrentLevel /\ Home(n) <= globalLevel
      /\ n \in DOMAIN Vars(Home(n)) /\ Find(n) = Vars(Home(n))[n]
      /\ Declared(n).level \in 0 .. 2
  BY <1>1, FoundAtHome, BuiltInFacts
<1>3. n \in DOMAIN Vars(globalLevel) => LevelOf(n) = 3
  BY <1>1, <1>2 DEF Home
<1>4. IsReadOnly(n) <=> LevelOf(n) <= 1
  BY <1>2 DEF IsReadOnly, SymbolIInv, SharedReadOnly, IsSharedLevel
<1>5. NeedsCopy(n) <=> LevelOf(n) <= 2
  BY DEF NeedsCopy, IsBuiltInLevel
<1> QED BY <1>1, <1>2, <1>3, <1>4, <1>5

LEMMA RedeclareGrows ==
  ASSUME SymbolIInv, NEW n \in BuiltInNames, Redeclare(n)
  PROVE  /\ \E l, S : Grows(l, S)
         /\ "redeclared" \in AtHome(n)'.edits
<1>1. TypeOK /\ BuiltInsInPlace /\ uniqueId' = uniqueId /\ CurrentLevel \in Nat
  BY Shape DEF SymbolIInv, Redeclare
<1>2. CASE NeedsCopy(n)
  <2> DEFINE c == CopyOf(n)
             a == Amend(c, CurrentLevel)
             s == Edit(a, "redeclared")
  <2>1. table' = EditCopy(n, s) /\ n \notin DOMAIN Vars(globalLevel)
    BY <1>2, Whereabouts DEF Redeclare
  <2>2. c \in Symbols /\ CopyOK(Find(n), c)
    BY <1>1, <2>1, CopyOfIs
  <2> HIDE DEF c
  <2>3. a \in Symbols /\ CopyOK(Find(n), a)
    <3>1. /\ a \in Symbols /\ a.block = c.block /\ a.writable = c.writable
          /\ a.edits = c.edits /\ a.id[2] = c.id[2] /\ (c.block # <<>> => a.id = c.id)
      BY <1>1, <2>2, AmendKeeps
    <3> HIDE DEF a
    <3> QED BY <2>2, <3>1 DEF CopyOK
  <2> HIDE DEF a
  <2>4. s \in Symbols /\ CopyOK(Find(n), s) /\ "redeclared" \in s.edits
    <3>1. s \in Symbols /\ Kept(a, s) /\ "redeclared" \in s.edits
      BY <2>3, EditKeeps DEF Kinds
    <3> HIDE DEF s
    <3> QED BY <2>3, <3>1 DEF Kept, CopyOK
  <2> HIDE DEF s
  <2>5. /\ Writes(table', globalLevel, CopiedNames(n))
        /\ \A m \in CopiedNames(n) : CopyOK(Find(m), Sym(table', globalLevel, m))
        /\ Sym(table', globalLevel, n) = s
    BY <1>1, <2>1, <2>4, EditCopyCopies
  <2>6. Grows(globalLevel, CopiedNames(n))
    BY <1>1, <2>5, CopyGrows
  <2>7. AtHome(n)' = s
    BY <1>1, <2>1, <2>5, CopiedAtHome
  <2> QED BY <2>4, <2>6, <2>7
<1>3. CASE ~NeedsCopy(n)
  <2>1. table' = EditInPlace(n, "redeclared") /\ LevelOf(n) >= 2
    BY <1>3, Whereabouts DEF Redeclare
  <2>2. Grows(LevelOf(n), {}) /\ "redeclared" \in AtHome(n)'.edits
    BY <1>1, <2>1, EditGrows DEF Kinds
  <2> QED BY <2>2
<1> QED BY <1>2, <1>3

\* An edited copy.
LEMMA CopyStep ==
  ASSUME SymbolIInv, NEW n \in BuiltInNames, NEW kind \in Kinds, uniqueId' = uniqueId,
         table' = EditCopy(n, Edit(CopyOf(n), kind))
  PROVE  /\ \E l, S : Grows(l, S)
         /\ n \notin DOMAIN Vars(globalLevel) => kind \in AtHome(n)'.edits
<1> DEFINE s == Edit(CopyOf(n), kind)
<1>1. TypeOK /\ BuiltInsInPlace
  BY DEF SymbolIInv
<1>2. /\ s \in Symbols /\ kind \in s.edits
      /\ n \in DOMAIN Vars(globalLevel) => Kept(Vars(globalLevel)[n], s)
      /\ n \notin DOMAIN Vars(globalLevel) => CopyOK(Find(n), s)
  BY <1>1, EditedCopy
<1> HIDE DEF s
<1>3. /\ Writes(table', globalLevel, CopiedNames(n))
      /\ \A m \in CopiedNames(n) : CopyOK(Find(m), Sym(table', globalLevel, m))
      /\ n \notin DOMAIN Vars(globalLevel) => Sym(table', globalLevel, n) = s
  BY <1>1, <1>2, EditCopyCopies DEF s
<1>4. Grows(globalLevel, CopiedNames(n))
  BY <1>3, CopyGrows
<1>5. n \notin DOMAIN Vars(globalLevel) => AtHome(n)' = s
  BY <1>1, <1>3, CopiedAtHome
<1> QED BY <1>2, <1>4, <1>5

LEMMA QualifyGrows ==
  ASSUME SymbolIInv, NEW n \in BuiltInNames, Qualify(n)
  PROVE  /\ \E l, S : Grows(l, S)
         /\ "qualified" \in AtHome(n)'.edits
<1>1. uniqueId' = uniqueId /\ "qualified" \in Kinds
  BY DEF Qualify, Kinds
<1>2. CASE IsReadOnly(n)
  <2>1. table' = EditCopy(n, Edit(CopyOf(n), "qualified"))
    BY <1>2 DEF Qualify
  <2> QED BY <1>1, <1>2, <2>1, CopyStep, Whereabouts
<1>3. CASE ~IsReadOnly(n)
  <2>1. table' = EditInPlace(n, "qualified") /\ LevelOf(n) >= 2
    BY <1>3, Whereabouts DEF Qualify
  <2>2. Grows(LevelOf(n), {}) /\ "qualified" \in AtHome(n)'.edits
    BY <1>1, <2>1, EditGrows
  <2> QED BY <2>2
<1> QED BY <1>2, <1>3

LEMMA PragmaGrows ==
  ASSUME SymbolIInv, NEW n \in BuiltInNames, PragmaInvariant(n)
  PROVE  \E l, S : Grows(l, S)
BY CopyStep DEF PragmaInvariant, Kinds

LEMMA UseSizes ==
  ASSUME SymbolIInv, NEW n \in BuiltInNames, Use(n), SizedByUse(n)
  PROVE  /\ \E l, S : Grows(l, S)
         /\ n \in DOMAIN Vars(globalLevel)' /\ Find(n).id = Vars(globalLevel)'[n].id
<1>1. TypeOK /\ BuiltInsInPlace /\ uniqueId' = uniqueId /\ table' = CopyUp(n)
  BY DEF SymbolIInv, Use
<1>2. n \notin DOMAIN Vars(globalLevel)
  BY Whereabouts DEF SizedByUse
<1>3. /\ Writes(table', globalLevel, CopiedNames(n))
      /\ \A m \in CopiedNames(n) :
           /\ CopyOK(Find(m), Sym(table', globalLevel, m))
           /\ Sym(table', globalLevel, m).id = Find(m).id
  BY <1>1, CopyUpCopies
<1>4. Grows(globalLevel, CopiedNames(n))
  BY <1>1, <1>3, CopyGrows
<1>5. n \in CopiedNames(n)
  BY <1>2, BuiltInFacts DEF CopiedNames
<1>6. n \in DOMAIN Vars(globalLevel)' /\ Vars(globalLevel)'[n] = Sym(table', globalLevel, n)
  BY <1>3, <1>5 DEF Writes, Vars, Sym, globalLevel
<1> QED BY <1>3, <1>4, <1>5, <1>6

\* What uses may size and is not copied by this use was copied before.
LEMMA UseFindsCopy ==
  ASSUME SymbolIInv, NEW n \in BuiltInNames, ~SizedByUse(n), SharedUnsized(n)
  PROVE  n \in DOMAIN Vars(globalLevel) /\ Find(n) = Vars(globalLevel)[n]
<1>1. TypeOK /\ BuiltInsInPlace
  BY DEF SymbolIInv
<1>2. LevelOf(n) >= 2
  BY Whereabouts DEF SizedByUse, SharedUnsized
<1>3. Declared(n).level < 2
  BY BuiltInFacts DEF SharedUnsized, IsSharedLevel
<1>5. /\ LevelOf(n) = Home(n) /\ Find(n) = Vars(Home(n))[n]
      /\ Declared(n).level \in 0 .. 2
  BY <1>1, FoundAtHome, BuiltInFacts
<1>6. n \in DOMAIN Vars(globalLevel)
  BY <1>2, <1>3, <1>5 DEF Home
<1> QED BY <1>5, <1>6 DEF Home

LEMMA RedeclareBlockGrows ==
  ASSUME SymbolIInv, NEW n \in BuiltInNames, RedeclareBlock(n)
  PROVE  /\ \E l, S : Grows(l, S)
         /\ \A m \in MemberSet(n) : "redeclared" \in AtHome(m)'.edits
<1> DEFINE S == MemberSet(n)
           e(m) == Edit(Copies(n)[m], "redeclared")
           f == [m \in S |-> [e(m) EXCEPT !.id = FreshId]]
           c(m) == Sym(table', globalLevel, m)
<1>1. /\ TypeOK /\ BuiltInsInPlace /\ CurrentLevel = globalLevel /\ globalLevel = 3
      /\ globalLevel \in 0 .. CurrentLevel
  BY Shape DEF SymbolIInv, RedeclareBlock, AtGlobalLevel
<1>2. n \notin DOMAIN Vars(globalLevel) /\ uniqueId' = FreshId
  BY Whereabouts DEF RedeclareBlock, Issue
<1>3. /\ n \in S /\ S \subseteq BuiltInNames
      /\ \A m \in S : /\ MemberSet(m) = S /\ Declared(m).block = Declared(n).block
                      /\ Find(m) \in Symbols /\ Find(m).block = Declared(n).block
                      /\ m \notin DOMAIN Vars(globalLevel)
  <2>2. n \in S /\ S \subseteq BuiltInNames
    BY BuiltInFacts
  <2>3. \A m \in S : MemberSet(m) = S /\ Declared(m).block = Declared(n).block
    BY MemberFacts
  <2>4. \A m \in S : /\ Find(m) \in Symbols /\ Find(m).block = Declared(m).block
                     /\ m \notin DOMAIN Vars(globalLevel)
    BY <1>1, <1>2, <2>2, FoundAtHome, TogetherAtGlobal
  <2> QED BY <2>2, <2>3, <2>4
<1>4. FreshId \in Nat \X Nat
  BY Counters
<1> HIDE DEF S
<1>5. ASSUME NEW m \in S
      PROVE  /\ f[m] \in Symbols /\ f[m].id = FreshId /\ f[m].block = Declared(n).block
             /\ f[m].writable /\ Find(m).edits \subseteq f[m].edits /\ "redeclared" \in f[m].edits
  <2>1. Copies(n)[m] \in Symbols /\ Copies(n)[m] = [Find(m) EXCEPT !.writable = TRUE]
    BY <1>1, CopyUpAdds DEF S
  <2>2. e(m) \in Symbols /\ Kept(Copies(n)[m], e(m)) /\ "redeclared" \in e(m).edits
    BY <2>1, EditKeeps DEF Kinds
  <2>3. /\ Copies(n)[m].block = Declared(n).block /\ Copies(n)[m].writable
        /\ Copies(n)[m].edits = Find(m).edits
    BY <1>3, <2>1 DEF Symbols
  <2> HIDE DEF e
  <2>4. f[m] = [e(m) EXCEPT !.id = FreshId]
    OBVIOUS
  <2>5. /\ f[m] \in Symbols /\ f[m].id = FreshId /\ f[m].block = e(m).block
        /\ f[m].writable = e(m).writable /\ f[m].edits = e(m).edits
    BY <1>4, <2>2, <2>4 DEF Symbols
  <2> QED BY <2>2, <2>3, <2>5 DEF Kept
<1>6. Added(table', globalLevel, S, f)
  <2>1. table' = AddNames(globalLevel, Members(n), f)
    BY <1>1 DEF RedeclareBlock, S
  <2>2. Inserted(globalLevel, Members(n)) = S
    BY <1>1, <1>2, InsertedCopies DEF CopiedNames, S
  <2>3. DOMAIN Members(n) \subseteq Nat \ {0}
    BY BuiltInFacts
  <2>4. S \subseteq Names
    BY <1>3 DEF Names
  <2> HIDE DEF f
  <2>5. Added(AddNames(globalLevel, Members(n), f), globalLevel,
              Inserted(globalLevel, Members(n)), f)
    BY <1>1, <1>5, <2>2, <2>3, <2>4, AddNamesWrites
  <2> QED BY <2>1, <2>2, <2>5
<1> HIDE DEF f, c
<1>7. \A m \in S : c(m) = f[m]
  BY <1>6 DEF Added, Sym, c
<1>8. Writes(table', globalLevel, S)
  BY <1>6 DEF Added
<1>9. NewBound(table', globalLevel, S, uniqueId'[2])
  BY <1>2, <1>5, <1>7, Counters DEF NewBound, c
<1>10. NewApart(table', globalLevel, S)
  <2>1. ASSUME NEW m \in S, NEW k \in 0 .. CurrentLevel, NEW j \in DOMAIN Vars(k)
        PROVE  c(m).id[2] # Vars(k)[j].id[2]
    BY <1>5, <1>7, Counters
  <2>2. \A m, j \in S : m = j \/ (c(m).block = c(j).block /\ c(m).block # <<>>)
    <3>1. CASE Declared(n).block = <<>>
      BY <3>1, BuiltInFacts DEF S
    <3>2. CASE Declared(n).block # <<>>
      BY <1>5, <1>7, <3>2
    <3> QED BY <3>1, <3>2
  <2> QED BY <2>1, <2>2 DEF NewApart, c
<1>11. NewBuiltIns(table', globalLevel, S)
  <2>1. \A m \in S : /\ c(m).id = FreshId /\ c(m).block = Declared(m).block
                     /\ Find(m).edits \subseteq c(m).edits
    BY <1>3, <1>5, <1>7
  <2> QED BY <1>3, <2>1 DEF NewBuiltIns, c
<1>12. NewOwn(table', globalLevel, S)
  <2>1. \A m \in S : m \in BuiltInNames /\ m \notin UserNames
    BY <1>3, SymbolTableAssumption DEF BuiltInNames
  <2>2. Functions(globalLevel) \subseteq UserNames
    BY <1>1 DEF SymbolIInv, OwnFunctions
  <2> QED BY <2>1, <2>2 DEF NewOwn
<1>13. uniqueId'[2] \in Nat /\ uniqueId[2] <= uniqueId'[2]
  BY <1>2, Counters
<1>14. Grows(globalLevel, S)
  BY <1>1, <1>8, <1>9, <1>10, <1>11, <1>12, <1>13 DEF Grows
<1>15. CopiedNames(n) = S
  BY <1>2 DEF CopiedNames, S
<1>16. ASSUME NEW m \in S
       PROVE  "redeclared" \in AtHome(m)'.edits
  <2>1. m \in DOMAIN Vars(globalLevel)' /\ Vars(globalLevel)'[m] = c(m)
    BY <1>8 DEF Writes, Vars, Sym, c, globalLevel
  <2>2. AtHome(m)' = Vars(globalLevel)'[m]
    BY <2>1 DEF AtHome, Home, Vars, globalLevel
  <2> QED BY <1>5, <1>7, <2>1, <2>2
<1> QED BY <1>14, <1>16 DEF S

-------------------------------------------------------------------------------
(* The steps that write no symbol.                                           *)

LevelKept(k) ==
  /\ k \in 0 .. CurrentLevel /\ Vars(k)' = Vars(k)
  /\ k >= globalLevel => \A n \in Functions(k)' :
       n \in Functions(k) \/ (n \in UserNames /\ (SeparateNameSpaces \/ n \notin DOMAIN Vars(k)))
LevelEmpty(k) == k > globalLevel /\ DOMAIN Vars(k)' = {} /\ Functions(k)' = {}

VarParts ==
  /\ NumbersBehind /\ NumbersApart /\ BuiltInsInPlace /\ SharedReadOnly
  /\ OwnFunctions /\ NoNameClash /\ UserIdsTell
HistoryKept ==
  /\ \A e \in made : e[2] # "invariant" => e[2] \in AtHome(e[1])'.edits
  /\ \A u \in uses : SharedUnsized(u[1]) =>
       u[1] \in DOMAIN Vars(globalLevel)' /\ u[2] = Vars(globalLevel)'[u[1]].id

LEMMA LevelsKept ==
  ASSUME SymbolIInv, CurrentLevel' \in Nat, CurrentLevel' >= globalLevel,
         uniqueId'[2] \in Nat, uniqueId[2] <= uniqueId'[2],
         \A k \in 0 .. CurrentLevel' : LevelKept(k) \/ LevelEmpty(k)
  PROVE  VarParts' /\ HistoryKept
<1>1. /\ TypeOK /\ BuiltInsInPlace /\ globalLevel = 3 /\ CurrentLevel \in Nat
      /\ CurrentLevel >= 3
  BY Shape DEF SymbolIInv, globalLevel
<1>2. \A k \in 0 .. CurrentLevel' : \A n \in DOMAIN Vars(k)' :
        k \in 0 .. CurrentLevel /\ n \in DOMAIN Vars(k) /\ Vars(k)'[n] = Vars(k)[n]
  BY DEF LevelKept, LevelEmpty
<1>3. \A k \in 0 .. 3 : k \in 0 .. CurrentLevel' /\ Vars(k)' = Vars(k)
  BY <1>1 DEF LevelKept, LevelEmpty
<1>4. \A k \in globalLevel .. CurrentLevel' : \A n \in Functions(k)' :
        \/ k \in globalLevel .. CurrentLevel /\ n \in Functions(k)
        \/ n \in UserNames /\ (SeparateNameSpaces \/ n \notin DOMAIN Vars(k)')
  BY <1>1 DEF LevelKept, LevelEmpty
<1>5. NumbersBehind'
  <2> SUFFICES ASSUME NEW k \in 0 .. CurrentLevel', NEW n \in DOMAIN Vars(k)'
               PROVE  Vars(k)'[n].id[2] <= uniqueId'[2]
    BY DEF NumbersBehind
  <2>1. k \in 0 .. CurrentLevel /\ n \in DOMAIN Vars(k) /\ Vars(k)'[n] = Vars(k)[n]
    BY <1>2
  <2>2. Vars(k)[n].id[2] \in Nat /\ Vars(k)[n].id[2] <= uniqueId[2] /\ uniqueId[2] \in Nat
    BY <2>1, Counters
  <2> QED BY <2>1, <2>2
<1>6. NumbersApart'
  <2> SUFFICES ASSUME NEW k \in 0 .. CurrentLevel', NEW j \in 0 .. CurrentLevel',
                      NEW n \in DOMAIN Vars(k)', NEW m \in DOMAIN Vars(j)',
                      Vars(k)'[n].id[2] = Vars(j)'[m].id[2]
               PROVE  \/ n = m /\ (k = j \/ n \in BuiltInNames)
                      \/ Vars(k)'[n].block = Vars(j)'[m].block /\ Vars(k)'[n].block # <<>>
    BY DEF NumbersApart, BuiltInNames
  <2>1. /\ k \in 0 .. CurrentLevel /\ n \in DOMAIN Vars(k) /\ Vars(k)'[n] = Vars(k)[n]
        /\ j \in 0 .. CurrentLevel /\ m \in DOMAIN Vars(j) /\ Vars(j)'[m] = Vars(j)[m]
    BY <1>2
  <2> QED BY <2>1 DEF SymbolIInv, NumbersApart
<1>7. BuiltInsInPlace'
  <2> SUFFICES ASSUME NEW n \in BuiltInNames
               PROVE  /\ n \in DOMAIN Vars(Declared(n).level)'
                      /\ n \in DOMAIN Vars(globalLevel)' =>
                           MemberSet(n) \subseteq DOMAIN Vars(globalLevel)'
                      /\ \A k \in 0 .. CurrentLevel' : n \in DOMAIN Vars(k)' =>
                           /\ k \in {Declared(n).level, globalLevel}
                           /\ Vars(k)'[n].block = Declared(n).block
                           /\ \A m \in MemberSet(n) \cap DOMAIN Vars(k)' :
                                Vars(k)'[m].id = Vars(k)'[n].id
    BY DEF BuiltInsInPlace, BuiltInNames, MemberSet, Members, Declared, globalLevel
  <2>1. Declared(n).level \in 0 .. 2
    BY BuiltInFacts
  <2>2. n \in DOMAIN Vars(Declared(n).level)'
    BY <1>1, <1>3, <2>1 DEF BuiltInsInPlace
  <2>3. n \in DOMAIN Vars(3)' => MemberSet(n) \subseteq DOMAIN Vars(3)'
    BY <1>1, <1>3 DEF BuiltInsInPlace
  <2>4. ASSUME NEW k \in 0 .. CurrentLevel', n \in DOMAIN Vars(k)'
        PROVE  /\ k \in {Declared(n).level, globalLevel}
               /\ Vars(k)'[n].block = Declared(n).block
               /\ \A m \in MemberSet(n) \cap DOMAIN Vars(k)' : Vars(k)'[m].id = Vars(k)'[n].id
    BY <1>1, <1>2, <2>4 DEF BuiltInsInPlace
  <2> QED BY <2>2, <2>3, <2>4 DEF globalLevel
<1>8. SharedReadOnly'
  <2> SUFFICES ASSUME NEW k \in 0 .. CurrentLevel', NEW n \in DOMAIN Vars(k)'
               PROVE  Vars(k)'[n].writable = ~IsSharedLevel(k)
    BY DEF SharedReadOnly, IsSharedLevel
  <2> QED BY <1>2 DEF SymbolIInv, SharedReadOnly
<1>9. OwnFunctions'
  <2> SUFFICES ASSUME NEW k \in globalLevel .. CurrentLevel', NEW n \in Functions(k)'
               PROVE  n \in UserNames
    BY DEF OwnFunctions, globalLevel
  <2> QED BY <1>4 DEF SymbolIInv, OwnFunctions
<1>10. NoNameClash'
  <2> SUFFICES ASSUME NEW k \in globalLevel .. CurrentLevel',
                      NEW n \in Functions(k)' \cap DOMAIN Vars(k)'
               PROVE  SeparateNameSpaces \/ Vars(k)'[n].block # <<>>
    BY DEF NoNameClash, globalLevel
  <2>1. k \in 0 .. CurrentLevel'
    BY <1>1
  <2>2. n \in DOMAIN Vars(k) /\ Vars(k)'[n] = Vars(k)[n]
    BY <1>2, <2>1
  <2> QED BY <1>4, <2>2 DEF SymbolIInv, NoNameClash
<1>11. UserIdsTell'
  <2> SUFFICES ASSUME NEW k \in globalLevel .. CurrentLevel', NEW n \in DOMAIN Vars(k)',
                      n \notin BuiltInNames
               PROVE  ~IsBuiltInLevel(Vars(k)'[n].id[1])
    BY DEF UserIdsTell, globalLevel, BuiltInNames, IsBuiltInLevel
  <2>1. k \in 0 .. CurrentLevel'
    BY <1>1
  <2>2. /\ n \in DOMAIN Vars(k) /\ Vars(k)'[n] = Vars(k)[n]
        /\ k \in globalLevel .. CurrentLevel
    BY <1>1, <1>2, <2>1
  <2> QED BY <2>2 DEF SymbolIInv, UserIdsTell
<1>12. HistoryKept
  <2>1. \A n \in BuiltInNames : AtHome(n)' = AtHome(n)
    <3> TAKE n \in BuiltInNames
    <3>1. Declared(n).level \in 0 .. 2
      BY BuiltInFacts
    <3>2. Vars(3)' = Vars(3) /\ Vars(Declared(n).level)' = Vars(Declared(n).level)
      BY <1>3, <3>1
    <3>3. AtHome(n)' = IF n \in DOMAIN Vars(3)' THEN Vars(3)'[n] ELSE Vars(Declared(n).level)'[n]
      BY DEF AtHome, Home, Vars, globalLevel, Declared
    <3> QED BY <3>2, <3>3 DEF AtHome, Home, globalLevel
  <2>2. \A e \in made : e[1] \in BuiltInNames
    BY <1>1 DEF TypeOK
  <2>3. Vars(globalLevel)' = Vars(globalLevel)
    BY <1>1, <1>3 DEF globalLevel
  <2> QED BY <2>1, <2>2, <2>3 DEF SymbolIInv, EditsAtHome, UsesSettled, HistoryKept
<1> QED BY <1>5, <1>6, <1>7, <1>8, <1>9, <1>10, <1>11, <1>12 DEF VarParts

\* All that a step that writes symbols does to the invariants of the table.
LEMMA GrowsAll ==
  ASSUME SymbolIInv, \E l, S : Grows(l, S)
  PROVE  /\ VarParts' /\ HistoryKept
         /\ table' \in Seq(LevelType) /\ Len(table') = Len(table)
         /\ \A k \in 0 .. 1 : table'[k + 1] = table[k + 1]
         /\ UNCHANGED <<defaultPrecision, entered>> => DefaultsSaved'
<1>1. PICK l, S : Grows(l, S)
  OBVIOUS
<1>2. VarParts'
  BY <1>1, GrowsNumbersBehind, GrowsNumbersApart, GrowsBuiltInsInPlace, GrowsRest DEF VarParts
<1>3. HistoryKept
  BY <1>1, GrowsMade, GrowsUses DEF HistoryKept
<1>4. Writes(table', l, S) /\ l \in 2 .. CurrentLevel
  BY <1>1 DEF Grows
<1>5. \A k \in 0 .. 1 : k \in 0 .. CurrentLevel /\ k # l
  BY <1>4, Shape DEF SymbolIInv
<1>6. \A k \in 0 .. 1 : table'[k + 1] = table[k + 1]
  BY <1>4, <1>5 DEF Writes
<1> QED BY <1>1, <1>2, <1>3, <1>4, <1>6, GrowsRest DEF Writes

-------------------------------------------------------------------------------
(* The invariant, action by action.                                          *)

TableParts ==
  /\ table' \in Seq(LevelType) /\ Len(table') = Len(table)
  /\ VarParts' /\ HistoryKept
  /\ UNCHANGED <<defaultPrecision, entered>> => DefaultsSaved'
  /\ \A k \in 0 .. 1 : table'[k + 1] = table[k + 1]

CounterParts ==
  /\ CounterBeyond' /\ uniqueId' \in Nat \X Nat
  /\ issued' \subseteq Nat \X Nat /\ count' \in Nat

LEMMA IssueCounts ==
  ASSUME SymbolIInv, Issue, Len(table') = Len(table)
  PROVE  CounterParts
<1>1. /\ FreshId \in Nat \X Nat /\ FreshId[2] = uniqueId[2] + 1 /\ uniqueId[2] \in Nat
      /\ uniqueId' = FreshId /\ issued' = issued \cup {FreshId} /\ count' = count + 1
  BY Counters DEF Issue
<1>2. /\ IsFiniteSet(issued) /\ Cardinality(issued) = count /\ count \in Nat
      /\ issued \subseteq Nat \X Nat /\ \A id \in issued : id[2] <= uniqueId[2]
      /\ uniqueId[1] = Clamp(CurrentLevel)
  BY DEF SymbolIInv, CounterBeyond, TypeOK
<1>3. FreshId \notin issued
  BY <1>1, <1>2
<1>4. IsFiniteSet(issued') /\ Cardinality(issued') = count'
  BY <1>1, <1>2, <1>3, FS_AddElement
<1>5. \A id \in issued' : id[2] <= uniqueId'[2]
  BY <1>1, <1>2
<1>6. uniqueId'[1] = Clamp(CurrentLevel)'
  BY <1>1, <1>2 DEF FreshId, CurrentLevel, Clamp
<1> QED BY <1>1, <1>2, <1>4, <1>5, <1>6 DEF CounterParts, CounterBeyond

LEMMA KeepCounts ==
  ASSUME SymbolIInv, UNCHANGED <<uniqueId, history>>, Len(table') = Len(table)
  PROVE  CounterParts
BY DEF SymbolIInv, CounterBeyond, TypeOK, history, CounterParts, CurrentLevel, Clamp

LEMMA Assemble ==
  ASSUME SymbolIInv, TableParts, CounterParts, UNCHANGED <<defaultPrecision, entered>>,
         made' \subseteq BuiltInNames \X Kinds,
         uses' \subseteq BuiltInNames \X (Nat \X Nat),
         \A e \in made' \ made : e[2] # "invariant" => e[2] \in AtHome(e[1])'.edits,
         \A u \in uses' \ uses : SharedUnsized(u[1]) =>
           u[1] \in DOMAIN Vars(globalLevel)' /\ u[2] = Vars(globalLevel)'[u[1]].id
  PROVE  SymbolIInv'
<1>1. TypeOK'
  <2>1. /\ Len(table) >= 4 /\ Len(entered) = Len(table) - 1 - 3 /\ entered \in Seq(Precisions)
        /\ defaultPrecision \in Precisions
    BY DEF SymbolIInv, TypeOK, CurrentLevel, globalLevel
  <2>2. entered' = entered /\ defaultPrecision' = defaultPrecision /\ Len(table') = Len(table)
    BY DEF TableParts
  <2>3. Len(entered') = (CurrentLevel - globalLevel)'
    BY <2>1, <2>2 DEF CurrentLevel, globalLevel
  <2> QED BY <2>1, <2>2, <2>3 DEF TableParts, CounterParts, TypeOK, Kinds, BuiltInNames
<1>2. EditsAtHome'
  BY DEF TableParts, HistoryKept, EditsAtHome
<1>3. UsesSettled'
  <2> SUFFICES ASSUME NEW u \in uses', SharedUnsized(u[1])
               PROVE  u[1] \in DOMAIN Vars(globalLevel)' /\ u[2] = Vars(globalLevel)'[u[1]].id
    BY DEF UsesSettled, SharedUnsized, IsSharedLevel, MemberSet, Members, Declared, Vars, globalLevel
  <2> QED BY DEF TableParts, HistoryKept
<1> QED BY <1>1, <1>2, <1>3 DEF SymbolIInv, TableParts, CounterParts, VarParts

LEMMA GrowsParts ==
  ASSUME SymbolIInv, \E l, S : Grows(l, S)
  PROVE  TableParts
BY GrowsAll DEF TableParts

\* Steps that change the functions or the saved default of the innermost level.
LEMMA VarsKeptParts ==
  ASSUME SymbolIInv, table' \in Seq(LevelType), Len(table') = Len(table),
         uniqueId'[2] \in Nat, uniqueId[2] <= uniqueId'[2],
         \A k \in 0 .. CurrentLevel : LevelKept(k) /\ (k <= 2 => table'[k + 1] = table[k + 1])
  PROVE  /\ table' \in Seq(LevelType) /\ Len(table') = Len(table)
         /\ VarParts' /\ HistoryKept
         /\ \A k \in 0 .. 1 : table'[k + 1] = table[k + 1]
<1>1. CurrentLevel' = CurrentLevel /\ CurrentLevel \in Nat /\ CurrentLevel >= 3 /\ globalLevel = 3
  BY Shape DEF SymbolIInv, CurrentLevel
<1>2. VarParts' /\ HistoryKept
  BY <1>1, LevelsKept
<1>3. \A k \in 0 .. 1 : k \in 0 .. CurrentLevel /\ k <= 2
  BY <1>1
<1> QED BY <1>2, <1>3

LEMMA SavedKept ==
  ASSUME SymbolIInv, Len(table') = Len(table),
         \A k \in 0 .. CurrentLevel : table'[k + 1].saved = table[k + 1].saved,
         UNCHANGED <<defaultPrecision, entered>>
  PROVE  DefaultsSaved'
<1>1. \A i \in 1 .. Len(entered) : i + 3 \in 0 .. CurrentLevel /\ (i + 3) + 1 = i + 4
  BY DEF SymbolIInv, TypeOK, CurrentLevel, globalLevel
<1>2. \A i \in 1 .. Len(entered) : table'[i + 4].saved = table[i + 4].saved
  BY <1>1
<1> QED BY <1>2 DEF SymbolIInv, DefaultsSaved, Default

LEMMA TableKeptParts ==
  ASSUME SymbolIInv, table' = table, uniqueId'[2] \in Nat, uniqueId[2] <= uniqueId'[2]
  PROVE  TableParts
<1>1. table' \in Seq(LevelType) /\ Len(table') = Len(table)
  BY DEF SymbolIInv, TypeOK
<1>2. \A k \in 0 .. CurrentLevel : LevelKept(k) /\ table'[k + 1] = table[k + 1]
  BY DEF LevelKept, Vars, Functions
<1>3. UNCHANGED <<defaultPrecision, entered>> => DefaultsSaved'
  BY <1>1, <1>2, SavedKept
<1> QED BY <1>1, <1>2, <1>3, VarsKeptParts DEF TableParts

\* A declaration leaves the history of changes and uses as it is.
LEMMA DeclareKeeps ==
  ASSUME SymbolIInv, Issue, TableParts, UNCHANGED <<defaultPrecision, entered, made, uses>>
  PROVE  SymbolIInv'
<1>1. CounterParts
  BY IssueCounts DEF TableParts
<1>2. /\ made' \subseteq BuiltInNames \X Kinds
      /\ uses' \subseteq BuiltInNames \X (Nat \X Nat)
  BY DEF SymbolIInv, TypeOK, Kinds
<1> QED BY <1>1, <1>2, Assemble

LEMMA InsertedOwn ==
  /\ UserNames \subseteq Names \ BuiltInNames
  /\ \A b \in UserBlocks : b \in Seq(Names \ BuiltInNames) /\ b # <<>> /\ b \in Blocks
<1>1. UserNames \subseteq Names \ BuiltInNames
  BY SymbolTableAssumption DEF Names, BuiltInNames
<1>2. ASSUME NEW b \in UserBlocks
      PROVE  b \in Seq(Names \ BuiltInNames) /\ b # <<>> /\ b \in Blocks
  <2> DEFINE R == {b[i] : i \in DOMAIN b}
  <2>1. b \in Seq(R) /\ b # <<>> /\ R \cap BuiltInNames = {}
    BY SymbolTableAssumption DEF BuiltInNames
  <2>2. R \subseteq Names
    BY DEF Names
  <2>3. b \in Seq(Names \ BuiltInNames)
    <3> HIDE DEF R
    <3> QED BY <2>1, <2>2
  <2> QED BY <2>1, <2>3 DEF Blocks
<1> QED BY <1>1, <1>2

LEMMA InsertVariableParts ==
  ASSUME SymbolIInv, NEW n \in UserNames, InsertVariable(n)
  PROVE  TableParts
<1>1. Issue /\ uniqueId' = FreshId
  BY DEF InsertVariable, Issue
<1>2. CASE ClashesWithFunction(n) \/ OverloadsBuiltIn(n)
  <2>1. table' = table
    BY <1>2 DEF InsertVariable
  <2> QED BY <1>1, <2>1, Counters, TableKeptParts
<1>3. CASE ~(ClashesWithFunction(n) \/ OverloadsBuiltIn(n))
  <2>1. table' = AddSymbol(<<n>>, Symbol(FreshId, <<>>))
    BY <1>3 DEF InsertVariable
  <2>2. n \in Names \ BuiltInNames /\ <<n>> \in Seq(Names \ BuiltInNames) /\ <<>> \in Blocks
    BY InsertedOwn DEF Blocks
  <2>3. Grows(CurrentLevel, Inserted(CurrentLevel, <<n>>))
    BY <1>1, <1>3, <2>1, <2>2, InsertGrows
  <2> QED BY <2>3, GrowsParts
<1> QED BY <1>2, <1>3

LEMMA InsertBlockParts ==
  ASSUME SymbolIInv, NEW b \in UserBlocks, InsertBlock(b)
  PROVE  TableParts
<1>1. uniqueId' = FreshId /\ table' = AddSymbol(b, Symbol(FreshId, b))
  BY DEF InsertBlock, Issue
<1>2. b \in Seq(Names \ BuiltInNames) /\ b # <<>> /\ b \in Blocks
  BY InsertedOwn
<1>3. Grows(CurrentLevel, Inserted(CurrentLevel, b))
  BY <1>1, <1>2, InsertGrows
<1> QED BY <1>3, GrowsParts

\* The level, variables and saved default of which stay.
LEMMA InsertFunctionParts ==
  ASSUME SymbolIInv, NEW n \in UserNames, InsertFunction(n)
  PROVE  TableParts
<1>1. Issue /\ uniqueId' = FreshId
  BY DEF InsertFunction, Issue
<1>2. CASE ClashesWithVariable(n) \/ OverloadsBuiltIn(n)
  <2>1. table' = table
    BY <1>2 DEF InsertFunction
  <2> QED BY <1>1, <2>1, Counters, TableKeptParts
<1>3. CASE ~(ClashesWithVariable(n) \/ OverloadsBuiltIn(n))
  <2> DEFINE c == CurrentLevel + 1
             F == Functions(CurrentLevel) \cup {n}
             e == [table[c] EXCEPT !.functions = F]
  <2>1. TypeOK /\ c \in 1 .. Len(table) /\ c = Len(table) /\ CurrentLevel \in Nat /\ CurrentLevel >= 3
    BY Shape DEF SymbolIInv
  <2>2. table' = [table EXCEPT ![c] = e]
    BY <1>3, <2>1 DEF InsertFunction, Functions
  <2>3. table[c] \in LevelType /\ F \subseteq FunctionNames
    <3>1. table[c] \in LevelType
      BY <2>1, Shape
    <3>2. Functions(CurrentLevel) \subseteq FunctionNames
      BY <3>1 DEF LevelType, Functions
    <3> QED BY <3>1, <3>2 DEF FunctionNames
  <2> HIDE DEF F
  <2>4. e \in LevelType /\ e.vars = table[c].vars /\ e.saved = table[c].saved /\ e.functions = F
    BY <2>3 DEF LevelType
  <2> HIDE DEF e, c
  <2>5. /\ table' \in Seq(LevelType) /\ Len(table') = Len(table)
        /\ \A i \in 1 .. Len(table) : table'[i] = IF i = c THEN e ELSE table[i]
    <3> HIDE DEF LevelType
    <3> QED BY <2>1, <2>2, <2>4 DEF TypeOK
  <2>6. \A k \in 0 .. CurrentLevel : /\ k + 1 \in 1 .. Len(table)
                                     /\ k <= 2 => k + 1 # c
                                     /\ k + 1 = c => k = CurrentLevel
    BY <2>1 DEF c
  <2>7. ASSUME NEW k \in 0 .. CurrentLevel
        PROVE  LevelKept(k) /\ (k <= 2 => table'[k + 1] = table[k + 1])
    <3>1. /\ table'[k + 1].vars = table[k + 1].vars
          /\ k <= 2 => table'[k + 1] = table[k + 1]
      BY <2>4, <2>5, <2>6
    <3>2. ASSUME NEW m \in table'[k + 1].functions
          PROVE  \/ m \in table[k + 1].functions
                 \/ m \in UserNames /\ (SeparateNameSpaces \/ m \notin DOMAIN Vars(k))
      <4>1. CASE k + 1 = c
        <5>1. k = CurrentLevel /\ F = table[k + 1].functions \cup {n}
          BY <2>6, <4>1 DEF F, Functions
        <5>2. m \in F
          BY <2>4, <2>5, <2>6, <3>2, <4>1
        <5> QED BY <1>3, <5>1, <5>2 DEF ClashesWithVariable
      <4>2. CASE k + 1 # c
        BY <2>5, <2>6, <3>2, <4>2
      <4> QED BY <4>1, <4>2
    <3> QED BY <3>1, <3>2 DEF LevelKept, Vars, Functions
  <2>8. \A k \in 0 .. CurrentLevel : table'[k + 1].saved = table[k + 1].saved
    BY <2>4, <2>5, <2>6
  <2>9. UNCHANGED <<defaultPrecision, entered>> => DefaultsSaved'
    BY <2>5, <2>8, SavedKept
  <2> QED BY <1>1, <2>5, <2>7, <2>9, Counters, VarsKeptParts DEF TableParts
<1> QED BY <1>2, <1>3

LEMMA DeclareParts ==
  ASSUME SymbolIInv, Declare
  PROVE  SymbolIInv' /\ TableParts
<1>1. TableParts
  <2>1. CASE \E n \in UserNames : InsertVariable(n) \/ InsertFunction(n)
    BY <2>1, InsertVariableParts, InsertFunctionParts
  <2>2. CASE \E b \in UserBlocks : InsertBlock(b)
    BY <2>2, InsertBlockParts
  <2>3. CASE MakeInternal
    <3>1. uniqueId' = FreshId /\ table' = table
      BY <2>3 DEF MakeInternal, Issue
    <3> QED BY <3>1, Counters, TableKeptParts
  <2> QED BY <2>1, <2>2, <2>3 DEF Declare
<1>2. Issue /\ UNCHANGED <<defaultPrecision, entered, made, uses>>
  BY DEF Declare, InsertVariable, InsertFunction, InsertBlock, MakeInternal
<1> QED BY <1>1, <1>2, DeclareKeeps

\* What a change of built-ins has to show of the history it adds.
LEMMA ChangeAssembles ==
  ASSUME SymbolIInv, TableParts, CounterParts, UNCHANGED <<defaultPrecision, entered, uses>>,
         NEW C \in SUBSET (BuiltInNames \X Kinds), made' = made \cup C,
         \A e \in C : e[2] # "invariant" => e[2] \in AtHome(e[1])'.edits
  PROVE  SymbolIInv'
<1>1. /\ made' \subseteq BuiltInNames \X Kinds
      /\ uses' \subseteq BuiltInNames \X (Nat \X Nat)
  BY DEF SymbolIInv, TypeOK, Kinds
<1>2. \A e \in made' \ made : e[2] # "invariant" => e[2] \in AtHome(e[1])'.edits
  BY Zenon
<1>3. uses' \ uses = {}
  OBVIOUS
<1> QED BY <1>1, <1>2, <1>3, Assemble

LEMMA RedeclareInductive ==
  ASSUME SymbolIInv, NEW n \in BuiltInNames, Redeclare(n)
  PROVE  SymbolIInv' /\ TableParts
<1>1. TableParts /\ "redeclared" \in AtHome(n)'.edits
  BY RedeclareGrows, GrowsParts
<1>2. CounterParts
  BY <1>1, KeepCounts DEF Redeclare, TableParts
<1> DEFINE C == {<<n, "redeclared">>}
<1>3. C \in SUBSET (BuiltInNames \X Kinds) /\ made' = made \cup C
  BY DEF Redeclare, Kinds
<1>4. \A e \in C : e[2] # "invariant" => e[2] \in AtHome(e[1])'.edits
  BY <1>1
<1> HIDE DEF C
<1>5. UNCHANGED <<defaultPrecision, entered, uses>>
  BY DEF Redeclare
<1> QED BY <1>1, <1>2, <1>3, <1>4, <1>5, ChangeAssembles

LEMMA RedeclareBlockInductive ==
  ASSUME SymbolIInv, NEW n \in BuiltInNames, RedeclareBlock(n)
  PROVE  SymbolIInv' /\ TableParts
<1>1. TableParts /\ \A m \in MemberSet(n) : "redeclared" \in AtHome(m)'.edits
  BY RedeclareBlockGrows, GrowsParts
<1>2. CounterParts
  BY <1>1, IssueCounts DEF RedeclareBlock, TableParts
<1> DEFINE C == {<<m, "redeclared">> : m \in MemberSet(n)}
<1>3. C \in SUBSET (BuiltInNames \X Kinds) /\ made' = made \cup C
  BY BuiltInFacts DEF RedeclareBlock, Kinds
<1>4. \A e \in C : e[2] # "invariant" => e[2] \in AtHome(e[1])'.edits
  BY <1>1
<1> HIDE DEF C
<1>5. UNCHANGED <<defaultPrecision, entered, uses>>
  BY DEF RedeclareBlock
<1> QED BY <1>1, <1>2, <1>3, <1>4, <1>5, ChangeAssembles

LEMMA QualifyInductive ==
  ASSUME SymbolIInv, NEW n \in BuiltInNames, Qualify(n)
  PROVE  SymbolIInv' /\ TableParts
<1>1. TableParts /\ "qualified" \in AtHome(n)'.edits
  BY QualifyGrows, GrowsParts
<1>2. CounterParts
  BY <1>1, KeepCounts DEF Qualify, TableParts
<1> DEFINE C == {<<n, "qualified">>}
<1>3. C \in SUBSET (BuiltInNames \X Kinds) /\ made' = made \cup C
  BY DEF Qualify, Kinds
<1>4. \A e \in C : e[2] # "invariant" => e[2] \in AtHome(e[1])'.edits
  BY <1>1
<1> HIDE DEF C
<1>5. UNCHANGED <<defaultPrecision, entered, uses>>
  BY DEF Qualify
<1> QED BY <1>1, <1>2, <1>3, <1>4, <1>5, ChangeAssembles

LEMMA PragmaInductive ==
  ASSUME SymbolIInv, NEW n \in BuiltInNames, PragmaInvariant(n)
  PROVE  SymbolIInv' /\ TableParts
<1>1. TableParts
  BY PragmaGrows, GrowsParts
<1>2. CounterParts
  BY <1>1, KeepCounts DEF PragmaInvariant, TableParts
<1> DEFINE C == {<<n, "invariant">>}
<1>3. C \in SUBSET (BuiltInNames \X Kinds) /\ made' = made \cup C
  BY DEF PragmaInvariant, Kinds
<1>4. \A e \in C : e[2] = "invariant"
  OBVIOUS
<1> HIDE DEF C
<1>5. UNCHANGED <<defaultPrecision, entered, uses>>
  BY DEF PragmaInvariant
<1> QED BY <1>1, <1>2, <1>3, <1>4, <1>5, ChangeAssembles

LEMMA UseInductive ==
  ASSUME SymbolIInv, NEW n \in BuiltInNames, Use(n)
  PROVE  SymbolIInv' /\ TableParts
<1>1. /\ TableParts
      /\ SharedUnsized(n) =>
           n \in DOMAIN Vars(globalLevel)' /\ Find(n).id = Vars(globalLevel)'[n].id
  <2>1. CASE SizedByUse(n)
    BY <2>1, UseSizes, GrowsParts
  <2>2. CASE ~SizedByUse(n)
    <3>1. table' = table /\ uniqueId' = uniqueId
      BY <2>2 DEF Use
    <3>2. TableParts
      BY <3>1, Counters, TableKeptParts
    <3>3. Vars(globalLevel)' = Vars(globalLevel)
      BY <3>1 DEF Vars, globalLevel
    <3> QED BY <2>2, <3>2, <3>3, UseFindsCopy
  <2> QED BY <2>1, <2>2
<1>2. CounterParts
  BY <1>1, KeepCounts DEF Use, TableParts
<1> DEFINE u0 == <<n, Find(n).id>>
<1>3. u0[1] = n /\ u0[2] = Find(n).id /\ u0 \in BuiltInNames \X (Nat \X Nat)
  <2>1. Find(n) \in Symbols
    BY FoundAtHome DEF SymbolIInv
  <2> QED BY <2>1 DEF Symbols
<1>4. uses' = uses \cup {u0} /\ made' = made /\ UNCHANGED <<defaultPrecision, entered>>
  BY DEF Use
<1> HIDE DEF u0
<1>5. /\ made' \subseteq BuiltInNames \X Kinds
      /\ uses' \subseteq BuiltInNames \X (Nat \X Nat)
      /\ made' \ made = {}
  BY <1>3, <1>4 DEF SymbolIInv, TypeOK, Kinds
<1>6. \A u \in uses' \ uses : SharedUnsized(u[1]) =>
        u[1] \in DOMAIN Vars(globalLevel)' /\ u[2] = Vars(globalLevel)'[u[1]].id
  <2> SUFFICES ASSUME SharedUnsized(n)
               PROVE  n \in DOMAIN Vars(globalLevel)' /\ u0[2] = Vars(globalLevel)'[n].id
    BY <1>3, <1>4
  <2> QED BY <1>1, <1>3
<1> QED BY <1>1, <1>2, <1>4, <1>5, <1>6, Assemble

LEMMA ChangeInductive ==
  ASSUME SymbolIInv, ChangeBuiltIn
  PROVE  SymbolIInv' /\ TableParts
<1>1. PICK n \in BuiltInNames :
        Redeclare(n) \/ RedeclareBlock(n) \/ Qualify(n) \/ PragmaInvariant(n) \/ Use(n)
  BY DEF ChangeBuiltIn
<1> QED BY <1>1, RedeclareInductive, RedeclareBlockInductive, QualifyInductive,
           PragmaInductive, UseInductive

-------------------------------------------------------------------------------
(* Scopes and precision statements.                                          *)

\* What a step of these has to show.
LEMMA ScopeAssembles ==
  ASSUME SymbolIInv, UNCHANGED <<history, made, uses>>,
         table' \in Seq(LevelType), Len(table') >= 4,
         \A k \in 0 .. CurrentLevel' : LevelKept(k) \/ LevelEmpty(k),
         uniqueId' = WithLevel(uniqueId, CurrentLevel'),
         defaultPrecision' \in Precisions, entered' \in Seq(Precisions),
         Len(entered') = CurrentLevel' - 3, DefaultsSaved'
  PROVE  SymbolIInv'
<1>1. CurrentLevel' \in Nat /\ CurrentLevel' >= globalLevel /\ globalLevel = 3
  <2>1. Len(table') \in Nat /\ CurrentLevel' = Len(table') - 1
    <3> HIDE DEF LevelType
    <3> QED BY DEF CurrentLevel
  <2> QED BY <2>1 DEF globalLevel
<1>2. uniqueId' \in Nat \X Nat /\ uniqueId'[2] = uniqueId[2] /\ uniqueId'[1] = Clamp(CurrentLevel')
  BY <1>1, Counters, SymbolTableAssumption DEF WithLevel, Clamp
<1>3. VarParts' /\ HistoryKept
  BY <1>1, <1>2, Counters, LevelsKept
<1>4. /\ issued' = issued /\ count' = count /\ made' = made /\ uses' = uses
  BY DEF history
<1>5. CounterBeyond'
  <2>1. Clamp(CurrentLevel') = Clamp(CurrentLevel)'
    BY DEF Clamp
  <2> QED BY <1>2, <1>4, <2>1 DEF SymbolIInv, CounterBeyond
<1>6. TypeOK'
  <2>1. /\ issued \subseteq Nat \X Nat /\ count \in Nat
        /\ made \subseteq BuiltInNames \X {"redeclared", "qualified", "invariant"}
        /\ uses \subseteq BuiltInNames \X (Nat \X Nat)
    BY DEF SymbolIInv, TypeOK
  <2> HIDE DEF LevelType
  <2> QED BY <1>1, <1>2, <1>4, <2>1 DEF TypeOK, globalLevel
<1>7. EditsAtHome'
  BY <1>3, <1>4 DEF HistoryKept, EditsAtHome
<1>8. UsesSettled'
  <2> SUFFICES ASSUME NEW u \in uses', SharedUnsized(u[1])
               PROVE  u[1] \in DOMAIN Vars(globalLevel)' /\ u[2] = Vars(globalLevel)'[u[1]].id
    BY DEF UsesSettled, SharedUnsized, IsSharedLevel, MemberSet, Members, Declared, Vars, globalLevel
  <2> QED BY <1>3, <1>4 DEF HistoryKept
<1> QED BY <1>3, <1>5, <1>6, <1>7, <1>8 DEF SymbolIInv, VarParts

\* What is known of the scopes that are open.
LEMMA ScopeFacts ==
  ASSUME SymbolIInv
  PROVE  /\ entered \in Seq(Precisions) /\ Len(entered) \in Nat
         /\ Len(table) = Len(entered) + 4 /\ CurrentLevel = Len(entered) + 3
         /\ defaultPrecision \in Precisions /\ NoPrecision \notin Precisions
         /\ table \in Seq(LevelType)
         /\ \A i \in 1 .. Len(table) : table[i].saved \in Precisions \cup {NoPrecision}
<1>1. /\ entered \in Seq(Precisions) /\ Len(entered) = CurrentLevel - 3 /\ table \in Seq(LevelType)
      /\ defaultPrecision \in Precisions /\ TypeOK
  BY DEF SymbolIInv, TypeOK, globalLevel
<1>2. Len(entered) \in Nat /\ Len(table) = CurrentLevel + 1 /\ CurrentLevel \in Nat
  BY <1>1, Shape
<1>3. \A i \in 1 .. Len(table) : table[i] \in LevelType
  <2> HIDE DEF LevelType
  <2> QED BY <1>1
<1>4. \A i \in 1 .. Len(table) : table[i].saved \in Precisions \cup {NoPrecision}
  BY <1>3 DEF LevelType
<1> QED BY <1>1, <1>2, <1>4, SymbolTableAssumption DEF NoPrecision

LEMMA PushInductive ==
  ASSUME SymbolIInv, Push
  PROVE  /\ SymbolIInv'
         /\ \A k \in 0 .. 1 : table'[k + 1] = table[k + 1]
<1> DEFINE e == EmptyLevel
           d == Len(entered)
<1>1. e \in LevelType /\ e.saved = NoPrecision /\ e.functions = {} /\ DOMAIN e.vars = {}
  <2>1. <<>> \in [{} -> Symbols]
    OBVIOUS
  <2>2. <<>> \in UNION {[D -> Symbols] : D \in SUBSET Names}
    BY <2>1
  <2> QED BY <2>2 DEF EmptyLevel, LevelType
<1> HIDE DEF e
<1>2. /\ d \in Nat /\ Len(table) = d + 4 /\ CurrentLevel = d + 3 /\ table \in Seq(LevelType)
      /\ entered \in Seq(Precisions) /\ defaultPrecision \in Precisions
  BY ScopeFacts
<1>3. /\ table' = Append(table, e) /\ entered' = Append(entered, defaultPrecision)
      /\ uniqueId' = WithLevel(uniqueId, CurrentLevel + 1)
      /\ defaultPrecision' = defaultPrecision /\ UNCHANGED <<history, made, uses>>
  BY DEF Push, e
<1> HIDE DEF d
<1>4. /\ table' \in Seq(LevelType) /\ Len(table') = d + 5 /\ table'[d + 5] = e
      /\ \A i \in 1 .. d + 4 : table'[i] = table[i]
  <2> HIDE DEF LevelType
  <2> QED BY <1>1, <1>2, <1>3
<1>5. /\ entered' \in Seq(Precisions) /\ Len(entered') = d + 1
      /\ entered'[d + 1] = defaultPrecision /\ \A i \in 1 .. d : entered'[i] = entered[i]
  BY <1>2, <1>3 DEF d
<1>6. CurrentLevel' = d + 4 /\ CurrentLevel' = CurrentLevel + 1
  BY <1>2, <1>4 DEF CurrentLevel
<1>7. ASSUME NEW k \in 0 .. CurrentLevel'
      PROVE  LevelKept(k) \/ LevelEmpty(k)
  <2>1. CASE k <= CurrentLevel
    <3>1. k \in 0 .. CurrentLevel /\ table'[k + 1] = table[k + 1]
      BY <1>2, <1>4, <1>6, <2>1
    <3> QED BY <3>1 DEF LevelKept, Vars, Functions
  <2>2. CASE k > CurrentLevel
    <3>1. k > 3 /\ table'[k + 1] = e
      BY <1>2, <1>4, <1>6, <2>2
    <3> QED BY <1>1, <3>1 DEF LevelEmpty, Vars, Functions, globalLevel
  <2> QED BY <1>2, <1>6, <2>1, <2>2
<1>8. DefaultsSaved'
  <2> SUFFICES ASSUME NEW i \in 1 .. d + 1
               PROVE  entered'[i] = IF table'[i + 4].saved = NoPrecision
                                    THEN Default(i)' ELSE table'[i + 4].saved
    BY <1>5 DEF DefaultsSaved, NoPrecision, Default
  <2>1. Default(i)' = IF i = d + 1 THEN defaultPrecision ELSE entered'[i + 1]
    BY <1>3, <1>5 DEF Default
  <2>2. CASE i = d + 1
    <3>1. table'[i + 4] = e
      BY <1>2, <1>4, <2>2
    <3> QED BY <1>1, <1>5, <2>1, <2>2, <3>1
  <2>3. CASE i # d + 1
    <3>1. i \in 1 .. d /\ i + 4 \in 1 .. d + 4 /\ table'[i + 4] = table[i + 4]
          /\ entered'[i] = entered[i]
      BY <1>2, <1>4, <1>5, <2>3
    <3>2. entered[i] = IF table[i + 4].saved = NoPrecision THEN Default(i)
                       ELSE table[i + 4].saved
      BY <3>1 DEF SymbolIInv, DefaultsSaved, d
    <3>3. Default(i)' = Default(i)
      BY <1>2, <1>5, <2>1, <2>3, <3>1 DEF Default, d
    <3> QED BY <3>1, <3>2, <3>3
  <2> QED BY <2>2, <2>3
<1>9. SymbolIInv'
  BY <1>2, <1>3, <1>4, <1>5, <1>6, <1>7, <1>8, ScopeAssembles
<1> QED BY <1>2, <1>4, <1>9

LEMMA PopInductive ==
  ASSUME SymbolIInv, Pop
  PROVE  /\ SymbolIInv' /\ defaultPrecision' = entered[Len(entered)]
         /\ \A k \in 0 .. 1 : table'[k + 1] = table[k + 1]
<1> DEFINE d == Len(entered)
           saved == table[d + 4].saved
<1>1. /\ d \in Nat /\ Len(table) = d + 4 /\ CurrentLevel = d + 3 /\ table \in Seq(LevelType)
      /\ entered \in Seq(Precisions) /\ defaultPrecision \in Precisions
      /\ saved \in Precisions \cup {NoPrecision}
  BY ScopeFacts
<1>2. d >= 1 /\ CurrentLevel + 1 = d + 4
  BY <1>1 DEF Pop, globalLevel
<1>3. /\ table' = SubSeq(table, 1, d + 3) /\ entered' = SubSeq(entered, 1, d - 1)
      /\ uniqueId' = WithLevel(uniqueId, CurrentLevel - 1)
      /\ defaultPrecision' = IF saved = NoPrecision THEN defaultPrecision ELSE saved
      /\ UNCHANGED <<history, made, uses>>
  BY <1>1, <1>2 DEF Pop
<1>4. entered[d] = IF saved = NoPrecision THEN defaultPrecision ELSE saved
  BY <1>1, <1>2 DEF SymbolIInv, DefaultsSaved, Default
<1>5. defaultPrecision' = entered[d] /\ defaultPrecision' \in Precisions
  BY <1>1, <1>3, <1>4
<1> HIDE DEF d, saved
<1>6. /\ table' \in Seq(LevelType) /\ Len(table') = d + 3
      /\ \A i \in 1 .. d + 3 : table'[i] = table[i]
  <2> HIDE DEF LevelType
  <2>1. 1 \in 1 .. Len(table) + 1 /\ d + 3 \in 0 .. Len(table)
    BY <1>1, <1>2
  <2> QED BY <1>1, <1>2, <1>3, <2>1, SubSeqProperties
<1>7. /\ entered' \in Seq(Precisions) /\ Len(entered') = d - 1
      /\ \A i \in 1 .. d - 1 : entered'[i] = entered[i]
  <2>1. 1 \in 1 .. Len(entered) + 1 /\ d - 1 \in 0 .. Len(entered)
    BY <1>1, <1>2 DEF d
  <2> QED BY <1>1, <1>2, <1>3, <2>1, SubSeqProperties
<1>8. CurrentLevel' = d + 2 /\ CurrentLevel' = CurrentLevel - 1
  BY <1>1, <1>6 DEF CurrentLevel
<1>9. \A k \in 0 .. CurrentLevel' : LevelKept(k)
  <2> TAKE k \in 0 .. CurrentLevel'
  <2>1. k \in 0 .. CurrentLevel /\ table'[k + 1] = table[k + 1]
    BY <1>1, <1>2, <1>6, <1>8
  <2> QED BY <2>1 DEF LevelKept, Vars, Functions
<1>10. DefaultsSaved'
  <2> SUFFICES ASSUME NEW i \in 1 .. d - 1
               PROVE  entered'[i] = IF table'[i + 4].saved = NoPrecision
                                    THEN Default(i)' ELSE table'[i + 4].saved
    BY <1>7 DEF DefaultsSaved, NoPrecision, Default
  <2>1. Default(i)' = IF i = d - 1 THEN entered[d] ELSE entered'[i + 1]
    BY <1>5, <1>7 DEF Default
  <2>2. /\ i \in 1 .. d /\ i # d /\ i + 4 \in 1 .. d + 3 /\ table'[i + 4] = table[i + 4]
        /\ entered'[i] = entered[i] /\ (i # d - 1 => i + 1 \in 1 .. d - 1)
    BY <1>1, <1>2, <1>6, <1>7
  <2>3. entered[i] = IF table[i + 4].saved = NoPrecision THEN entered[i + 1]
                     ELSE table[i + 4].saved
    BY <2>2 DEF SymbolIInv, DefaultsSaved, Default, d
  <2>4. Default(i)' = entered[i + 1]
    BY <1>1, <1>7, <2>1, <2>2
  <2> QED BY <2>2, <2>3, <2>4
<1>11. SymbolIInv'
  <2>1. Len(table') >= 4 /\ Len(entered') = CurrentLevel' - 3
    BY <1>1, <1>2, <1>6, <1>7, <1>8
  <2> QED BY <1>3, <1>5, <1>6, <1>7, <1>8, <1>9, <1>10, <2>1, ScopeAssembles
<1>12. \A k \in 0 .. 1 : table'[k + 1] = table[k + 1]
  BY <1>1, <1>2, <1>6
<1> QED BY <1>5, <1>11, <1>12 DEF d

LEMMA PrecisionInductive ==
  ASSUME SymbolIInv, NEW p \in Precisions, PrecisionStatement(p)
  PROVE  /\ SymbolIInv' /\ Len(table') = Len(table)
         /\ \A k \in 0 .. 1 : table'[k + 1] = table[k + 1]
<1> DEFINE d == Len(entered)
           old == table[d + 4].saved
           s == IF old = NoPrecision THEN defaultPrecision ELSE old
           e == [table[d + 4] EXCEPT !.saved = s]
<1>1. /\ d \in Nat /\ Len(table) = d + 4 /\ CurrentLevel = d + 3 /\ table \in Seq(LevelType)
      /\ entered \in Seq(Precisions) /\ defaultPrecision \in Precisions
      /\ old \in Precisions \cup {NoPrecision} /\ NoPrecision \notin Precisions
  BY ScopeFacts
<1>2. s \in Precisions /\ s # NoPrecision
  BY <1>1
<1>3. Latched(CurrentLevel) = s
  BY <1>1 DEF Latched
<1>4. table' = [table EXCEPT ![d + 4] = e]
  <2>1. table' = [table EXCEPT ![CurrentLevel + 1].saved = Latched(CurrentLevel)]
    BY DEF PrecisionStatement
  <2>2. CurrentLevel + 1 = d + 4
    BY <1>1
  <2> HIDE DEF s, d
  <2> QED BY <1>3, <2>1, <2>2
<1>5. /\ e \in LevelType /\ e.vars = table[d + 4].vars /\ e.functions = table[d + 4].functions
      /\ e.saved = s
  <2>1. table[d + 4] \in LevelType
    <3> HIDE DEF LevelType
    <3> QED BY <1>1
  <2> HIDE DEF s
  <2> QED BY <1>2, <2>1 DEF LevelType
<1>6. d > 0 => entered[d] = s
  BY <1>1 DEF SymbolIInv, DefaultsSaved, Default
<1> HIDE DEF d, e, s, old
<1>7. /\ table' \in Seq(LevelType) /\ Len(table') = d + 4
      /\ \A i \in 1 .. d + 4 : table'[i] = IF i = d + 4 THEN e ELSE table[i]
  <2> HIDE DEF LevelType
  <2> QED BY <1>1, <1>4, <1>5
<1>8. CurrentLevel' = d + 3
  BY <1>1, <1>7 DEF CurrentLevel
<1>9. \A k \in 0 .. CurrentLevel' : LevelKept(k)
  <2> TAKE k \in 0 .. CurrentLevel'
  <2>1. /\ k \in 0 .. CurrentLevel /\ table'[k + 1].vars = table[k + 1].vars
        /\ table'[k + 1].functions = table[k + 1].functions
    BY <1>1, <1>5, <1>7, <1>8
  <2> QED BY <2>1 DEF LevelKept, Vars, Functions
<1>10. /\ entered' = entered /\ defaultPrecision' = p /\ uniqueId' = uniqueId
       /\ UNCHANGED <<history, made, uses>>
  BY DEF PrecisionStatement
<1>11. DefaultsSaved'
  <2> SUFFICES ASSUME NEW i \in 1 .. d
               PROVE  entered[i] = IF table'[i + 4].saved = NoPrecision
                                   THEN Default(i)' ELSE table'[i + 4].saved
    BY <1>10 DEF DefaultsSaved, NoPrecision, Default, d
  <2>1. CASE i = d
    BY <1>1, <1>2, <1>5, <1>6, <1>7, <2>1
  <2>2. CASE i # d
    <3>1. table'[i + 4] = table[i + 4] /\ Default(i)' = entered[i + 1] /\ Default(i) = entered[i + 1]
      BY <1>1, <1>7, <1>10, <2>2 DEF Default, d
    <3> QED BY <3>1 DEF SymbolIInv, DefaultsSaved, d
  <2> QED BY <2>1, <2>2
<1>12. uniqueId' = WithLevel(uniqueId, CurrentLevel')
  <2>1. uniqueId \in Nat \X Nat /\ uniqueId[1] = Clamp(d + 3)
    BY <1>1 DEF SymbolIInv, TypeOK, CounterBeyond
  <2> QED BY <1>8, <1>10, <2>1 DEF WithLevel
<1>13. SymbolIInv'
  <2>1. /\ Len(table') >= 4 /\ Len(entered') = CurrentLevel' - 3
        /\ defaultPrecision' \in Precisions /\ entered' \in Seq(Precisions)
    BY <1>1, <1>7, <1>8, <1>10 DEF d
  <2> QED BY <1>7, <1>9, <1>10, <1>11, <1>12, <2>1, ScopeAssembles
<1> QED BY <1>1, <1>7, <1>13

-------------------------------------------------------------------------------
(* The first state.                                                          *)

\* What a built-in is declared as.
Original(n) ==
  [id |-> <<Declared(n).level, Declared(n).number>>, block |-> Declared(n).block,
   writable |-> ~IsSharedLevel(Declared(n).level), edits |-> {}]

LEMMA BuiltInLevelIs ==
  ASSUME NEW l \in 0 .. 2
  PROVE  /\ BuiltInLevel(l) \in LevelType /\ BuiltInLevel(l).saved = NoPrecision
         /\ DOMAIN BuiltInLevel(l).vars = {n \in BuiltInNames : Declared(n).level = l}
         /\ \A n \in BuiltInNames : Declared(n).level = l =>
              BuiltInLevel(l).vars[n] = Original(n)
<1> DEFINE here == {b \in BuiltIns : b.level = l}
           Get(n) == CHOOSE b \in here : b.name = n
           s(n) == [Symbol(<<l, Get(n).number>>, Get(n).block)
                      EXCEPT !.writable = ~IsSharedLevel(l)]
           D == {b.name : b \in here}
           f == [n \in D |-> s(n)]
           F == IF IsSharedLevel(l) THEN BuiltInFunctions[l + 1] ELSE {}
<1>1. BuiltInLevel(l) = [vars |-> f, functions |-> F, saved |-> NoPrecision]
  BY DEF BuiltInLevel
<1>2. D = {n \in BuiltInNames : Declared(n).level = l}
  <2>1. ASSUME NEW n \in D
        PROVE  n \in BuiltInNames /\ Declared(n).level = l
    <3>1. PICK b \in BuiltIns : b.level = l /\ b.name = n
      OBVIOUS
    <3>2. Declared(n) = b
      BY <3>1, DeclaredIs, Zenon
    <3> QED BY <3>1, <3>2 DEF BuiltInNames
  <2>2. ASSUME NEW n \in BuiltInNames, Declared(n).level = l
        PROVE  n \in D
    BY <2>2, BuiltInFacts
  <2> HIDE DEF D
  <2> QED BY <2>1, <2>2
<1>3. ASSUME NEW n \in BuiltInNames, Declared(n).level = l
      PROVE  s(n) = Original(n) /\ Original(n) \in Symbols
  <2>1. Declared(n) \in here /\ Declared(n).name = n
    BY <1>3, BuiltInFacts
  <2>2. \A b \in here : b.name = n => b = Declared(n)
    BY <2>1, BuiltInsAssumption
  <2> HIDE DEF here
  <2>3. Get(n) \in here /\ Get(n).name = n
    BY <2>1, Zenon
  <2>4. Get(n) = Declared(n)
    BY <2>2, <2>3
  <2> HIDE DEF Get
  <2>5. s(n) = Original(n)
    BY <1>3, <2>4 DEF Symbol, Original
  <2>6. /\ Declared(n).number \in Nat /\ Declared(n).block \in Blocks
        /\ Declared(n).level \in Nat
    <3>1. Declared(n) \in BuiltIns
      BY BuiltInFacts
    <3> QED BY <3>1, BuiltInFacts, SymbolTableAssumption DEF Blocks
  <2>7. Original(n) \in Symbols
    BY <2>6 DEF Original, Symbols
  <2> QED BY <2>5, <2>7
<1> HIDE DEF s
<1>4. /\ DOMAIN f = D /\ \A n \in D : f[n] = Original(n) /\ f[n] \in Symbols
  BY <1>2, <1>3
<1>5. f \in [D -> Symbols]
  BY <1>3, <1>2
<1>6. F \subseteq FunctionNames
  <2>1. l <= 1 => l = 0 \/ l = 1
    OBVIOUS
  <2>2. CASE l <= 1
    <3>1. F = BuiltInFunctions[1] \/ F = BuiltInFunctions[2]
      BY <2>1, <2>2 DEF IsSharedLevel
    <3> QED BY <3>1 DEF FunctionNames
  <2>3. CASE ~(l <= 1)
    BY <2>3 DEF IsSharedLevel
  <2> QED BY <2>2, <2>3
<1> HIDE DEF f, F
<1>7. f \in UNION {[E -> Symbols] : E \in SUBSET Names}
  <2>1. D \in SUBSET Names
    BY <1>2 DEF Names
  <2> HIDE DEF D
  <2> QED BY <1>5, <2>1
<1>8. BuiltInLevel(l) \in LevelType
  BY <1>1, <1>6, <1>7 DEF LevelType
<1> HIDE DEF D
<1> QED BY <1>1, <1>2, <1>4, <1>8

LEMMA Initially ==
  ASSUME Init
  PROVE  SymbolIInv
<1> DEFINE t == <<BuiltInLevel(0), BuiltInLevel(1), BuiltInLevel(2), EmptyLevel>>
<1>1. /\ table = t /\ uniqueId = <<3, Issued>> /\ defaultPrecision \in Precisions
      /\ issued = {} /\ count = 0 /\ entered = <<>> /\ made = {} /\ uses = {}
  BY DEF Init, globalLevel
<1>2. EmptyLevel \in LevelType /\ EmptyLevel.functions = {} /\ DOMAIN EmptyLevel.vars = {}
  <2>1. <<>> \in [{} -> Symbols]
    OBVIOUS
  <2>2. <<>> \in UNION {[D -> Symbols] : D \in SUBSET Names}
    BY <2>1
  <2> QED BY <2>2 DEF EmptyLevel, LevelType
<1>3. /\ BuiltInLevel(0) \in LevelType /\ BuiltInLevel(1) \in LevelType
      /\ BuiltInLevel(2) \in LevelType
  BY BuiltInLevelIs
<1>4. Len(table) = 4 /\ table \in Seq(LevelType) /\ CurrentLevel = 3
  <2> HIDE DEF LevelType
  <2> QED BY <1>1, <1>2, <1>3 DEF CurrentLevel
<1>5. /\ \A l \in 0 .. 2 : Vars(l) = BuiltInLevel(l).vars
      /\ Vars(3) = EmptyLevel.vars /\ Functions(3) = EmptyLevel.functions
  <2>1. \A l \in 0 .. 2 : l = 0 \/ l = 1 \/ l = 2
    OBVIOUS
  <2>2. /\ table[0 + 1] = BuiltInLevel(0) /\ table[1 + 1] = BuiltInLevel(1)
        /\ table[2 + 1] = BuiltInLevel(2) /\ table[3 + 1] = EmptyLevel
    BY <1>1
  <2>3. \A l \in 0 .. 2 : table[l + 1] = BuiltInLevel(l)
    BY <2>1, <2>2
  <2> QED BY <2>2, <2>3 DEF Vars, Functions
\* At every level are the built-ins declared for it, as declared.
<1>6. ASSUME NEW l \in 0 .. CurrentLevel, NEW n \in DOMAIN Vars(l)
      PROVE  /\ n \in BuiltInNames /\ Declared(n).level = l /\ l \in 0 .. 2
             /\ Vars(l)[n] = Original(n)
  <2>1. l \in 0 .. 2
    BY <1>2, <1>4, <1>5, <1>6
  <2> QED BY <1>5, <1>6, <2>1, BuiltInLevelIs
<1>7. \A n \in BuiltInNames : n \in DOMAIN Vars(Declared(n).level)
  BY <1>5, BuiltInFacts, BuiltInLevelIs
<1>8. \A n \in BuiltInNames : /\ Declared(n) \in BuiltIns
                              /\ Declared(n).number \in 1 .. Issued
  BY BuiltInFacts, SymbolTableAssumption
<1>9. TypeOK
  <2> HIDE DEF LevelType
  <2> QED BY <1>1, <1>4, SymbolTableAssumption DEF TypeOK, globalLevel
<1>10. CounterBeyond
  <2>1. IsFiniteSet(issued) /\ Cardinality(issued) = count
    BY <1>1, FS_EmptySet
  <2> QED BY <1>1, <1>4, <2>1, SymbolTableAssumption DEF CounterBeyond, Clamp
<1>11. NumbersBehind
  BY <1>1, <1>6, <1>8 DEF NumbersBehind, Original
<1>12. NumbersApart
  <2> SUFFICES ASSUME NEW l \in 0 .. CurrentLevel, NEW k \in 0 .. CurrentLevel,
                      NEW n \in DOMAIN Vars(l), NEW m \in DOMAIN Vars(k),
                      Vars(l)[n].id[2] = Vars(k)[m].id[2]
               PROVE  \/ n = m /\ (l = k \/ n \in BuiltInNames)
                      \/ Vars(l)[n].block = Vars(k)[m].block /\ Vars(l)[n].block # <<>>
    BY DEF NumbersApart
  <2>1. /\ n \in BuiltInNames /\ Vars(l)[n] = Original(n)
        /\ m \in BuiltInNames /\ Vars(k)[m] = Original(m)
    BY <1>6
  <2>2. Declared(n).number = Declared(m).number
    BY <2>1 DEF Original
  <2>3. \/ Declared(n) = Declared(m)
        \/ Declared(n).block = Declared(m).block /\ Declared(n).block # <<>>
    BY <1>8, <2>1, <2>2, BuiltInsAssumption
  <2>4. Declared(n).name = n /\ Declared(m).name = m
    BY <2>1, BuiltInFacts
  <2> QED BY <2>1, <2>3, <2>4 DEF Original
<1>13. BuiltInsInPlace
  <2> SUFFICES ASSUME NEW n \in BuiltInNames
               PROVE  /\ n \in DOMAIN Vars(Declared(n).level)
                      /\ n \in DOMAIN Vars(globalLevel) => MemberSet(n) \subseteq DOMAIN Vars(globalLevel)
                      /\ \A l \in 0..CurrentLevel : n \in DOMAIN Vars(l) =>
                           /\ l \in {Declared(n).level, globalLevel}
                           /\ Vars(l)[n].block = Declared(n).block
                           /\ \A m \in MemberSet(n) \cap DOMAIN Vars(l) : Vars(l)[m].id = Vars(l)[n].id
    BY DEF BuiltInsInPlace
  <2>1. n \notin DOMAIN Vars(globalLevel)
    BY <1>2, <1>5 DEF globalLevel
  <2>2. ASSUME NEW l \in 0 .. CurrentLevel, n \in DOMAIN Vars(l)
        PROVE  /\ l = Declared(n).level /\ Vars(l)[n].block = Declared(n).block
               /\ \A m \in MemberSet(n) \cap DOMAIN Vars(l) : Vars(l)[m].id = Vars(l)[n].id
    <3>1. l = Declared(n).level /\ Vars(l)[n] = Original(n)
      BY <1>6, <2>2
    <3>2. ASSUME NEW m \in MemberSet(n), m \in DOMAIN Vars(l)
          PROVE  Vars(l)[m].id = Vars(l)[n].id
      BY <1>6, <2>2, <3>1, <3>2, MemberFacts DEF Original
    <3> QED BY <3>1, <3>2 DEF Original
  <2> QED BY <1>7, <2>1, <2>2
<1>14. SharedReadOnly
  BY <1>6 DEF SharedReadOnly, Original
<1>15. OwnFunctions /\ NoNameClash /\ UserIdsTell
  BY <1>2, <1>4, <1>5 DEF OwnFunctions, NoNameClash, UserIdsTell, globalLevel
<1>16. DefaultsSaved /\ EditsAtHome /\ UsesSettled
  BY <1>1 DEF DefaultsSaved, EditsAtHome, UsesSettled
<1> QED BY <1>9, <1>10, <1>11, <1>12, <1>13, <1>14, <1>15, <1>16 DEF SymbolIInv

-------------------------------------------------------------------------------
(* What holds of every table.                                                *)

\* Each step of the parser: the invariant stays, the shared levels stay, and a
\* level is only removed with the default of its scope brought back.
StepShows ==
  /\ SymbolIInv'
  /\ \A l \in 0 .. 1 : table'[l + 1] = table[l + 1]
  /\ Len(table') < Len(table) => defaultPrecision' = entered[Len(entered)]

LEMMA EveryStep ==
  ASSUME SymbolIInv, [Next]_vars
  PROVE  StepShows
<1>0. Len(table) = Len(entered) + 4 /\ Len(table) \in Nat
  BY ScopeFacts
<1>1. CASE Declare
  BY <1>0, <1>1, DeclareParts DEF StepShows, TableParts
<1>2. CASE ChangeBuiltIn
  BY <1>0, <1>2, ChangeInductive DEF StepShows, TableParts
<1>3. CASE Push
  <2>1. /\ SymbolIInv' /\ table' = Append(table, EmptyLevel)
        /\ \A k \in 0 .. 1 : table'[k + 1] = table[k + 1]
    BY <1>3, PushInductive DEF Push
  <2>2. Len(table') = Len(table) + 1
    <3>1. table \in Seq(LevelType)
      BY ScopeFacts
    <3> HIDE DEF LevelType
    <3> QED BY <2>1, <3>1
  <2> QED BY <1>0, <2>1, <2>2 DEF StepShows
<1>4. CASE Pop
  BY <1>4, PopInductive DEF StepShows
<1>5. CASE \E p \in Precisions : PrecisionStatement(p)
  BY <1>0, <1>5, PrecisionInductive DEF StepShows
<1>6. CASE UNCHANGED vars
  <2>1. table' = table /\ UNCHANGED <<uniqueId, history>>
    BY <1>6 DEF vars, history
  <2>2. TableParts /\ CounterParts
    BY <2>1, Counters, TableKeptParts, KeepCounts
  <2>3. UNCHANGED <<defaultPrecision, entered, made, uses>>
    BY <1>6 DEF vars
  <2>4. /\ made' \subseteq BuiltInNames \X Kinds
        /\ uses' \subseteq BuiltInNames \X (Nat \X Nat)
    BY <2>3 DEF SymbolIInv, TypeOK, Kinds
  <2>5. SymbolIInv'
    BY <2>2, <2>3, <2>4, Assemble
  <2> QED BY <1>0, <2>1, <2>5 DEF StepShows
<1> QED BY <1>1, <1>2, <1>3, <1>4, <1>5, <1>6 DEF Next

\* The invariant of the table holds of every compile: whatever the shader
\* declares, redeclares and uses, in whatever scopes, and whatever the built-ins
\* are that Initialize.cpp entered before it.
THEOREM SymbolInvariance == Spec => []SymbolIInv
<1>1. Init => SymbolIInv
  BY Initially
<1>2. SymbolIInv /\ [Next]_vars => SymbolIInv'
  BY EveryStep DEF StepShows
<1> QED BY <1>1, <1>2, PTL DEF Spec

\* insert() never leaves a variable and a function of one name at a level.
THEOREM NamesApart == Spec => []NoNameClash
<1>1. SymbolIInv => NoNameClash
  BY DEF SymbolIInv
<1> QED BY <1>1, SymbolInvariance, PTL

\* The ids of ++uniqueId, with the level that push and pop put into them, are
\* issued once, tell symbols apart, and never take a variable of the shader for
\* a built-in one, however deep its scope is.
THEOREM IdsAreRight == Spec => []IdsRight
<1>1. SymbolIInv => IdsRight
  <2> SUFFICES ASSUME SymbolIInv
               PROVE  IdsRight
    OBVIOUS
  <2>1. Cardinality(issued) = count
    BY DEF SymbolIInv, CounterBeyond
  <2>2. ASSUME NEW l \in 0 .. CurrentLevel, NEW k \in 0 .. CurrentLevel,
               NEW n \in DOMAIN Vars(l), NEW m \in DOMAIN Vars(k),
               Vars(l)[n].id = Vars(k)[m].id
        PROVE  \/ n = m /\ (l = k \/ n \in BuiltInNames)
               \/ Vars(l)[n].block = Vars(k)[m].block /\ Vars(l)[n].block # <<>>
    BY <2>2 DEF SymbolIInv, NumbersApart
  <2>3. UserIdsTell
    BY DEF SymbolIInv
  <2> QED BY <2>1, <2>2, <2>3 DEF IdsRight, DistinctIds
<1> QED BY <1>1, SymbolInvariance, PTL

\* A redeclaration or qualifier of a built-in is on the symbol that find()
\* returns from then on, whether it edited a copy or the symbol in its place.
THEOREM EditsStay == Spec => []EditsKept
<1>1. SymbolIInv => EditsKept
  <2> SUFFICES ASSUME SymbolIInv, NEW e \in made, e[2] # "invariant"
               PROVE  e[2] \in Find(e[1]).edits
    BY DEF EditsKept
  <2>1. TypeOK /\ BuiltInsInPlace /\ e[1] \in BuiltInNames
    BY DEF SymbolIInv, TypeOK
  <2>2. Find(e[1]) = AtHome(e[1])
    BY <2>1, FoundAtHome DEF AtHome
  <2> QED BY <2>2 DEF SymbolIInv, EditsAtHome
<1> QED BY <1>1, SymbolInvariance, PTL

\* Every use of an unsized built-in array, or of a member of a block with one,
\* is by the id of the copy at the level of the globals.
THEOREM UsesAreOne == Spec => []UsesAgree
<1>1. SymbolIInv => UsesAgree
  <2> SUFFICES ASSUME SymbolIInv, NEW u \in uses, NEW v \in uses,
                      u[1] \in MemberSet(v[1]), SharedUnsized(v[1])
               PROVE  u[2] = v[2]
    BY DEF UsesAgree
  <2>1. TypeOK /\ BuiltInsInPlace /\ v[1] \in BuiltInNames
    BY DEF SymbolIInv, TypeOK
  <2>2. SharedUnsized(u[1])
    BY <2>1, MemberFacts DEF SharedUnsized
  <2>3. /\ u[1] \in DOMAIN Vars(3) /\ u[2] = Vars(3)[u[1]].id
        /\ v[1] \in DOMAIN Vars(3) /\ v[2] = Vars(3)[v[1]].id
    BY <2>2 DEF SymbolIInv, UsesSettled, globalLevel
  <2>4. 3 \in 0 .. CurrentLevel
    BY <2>1, Shape
  <2>5. Vars(3)[u[1]].id = Vars(3)[v[1]].id
    BY <2>1, <2>3, <2>4 DEF BuiltInsInPlace
  <2> QED BY <2>3, <2>5
<1> QED BY <1>1, SymbolInvariance, PTL

\* No step of a compile changes the levels adopted from the shared cache: what
\* is written is a copy, or was not shared.
THEOREM SharedLevelsUntouched == Spec => SharedUntouched
<1>1. SymbolIInv /\ [Next]_vars => [\A l \in 0 .. 1 : table'[l + 1] = table[l + 1]]_vars
  BY EveryStep DEF StepShows
<1> QED BY <1>1, SymbolInvariance, PTL DEF Spec, SharedUntouched

\* pop() brings back the default precision that was current when the scope was
\* entered, though a level saves one only at its first precision statement.
THEOREM DefaultsComeBack == Spec => PrecisionsRestored
<1>1. SymbolIInv /\ [Next]_vars =>
        [Len(table') < Len(table) => defaultPrecision' = entered[Len(entered)]]_vars
  BY EveryStep DEF StepShows
<1> QED BY <1>1, SymbolInvariance, PTL DEF Spec, PrecisionsRestored

===============================================================================
