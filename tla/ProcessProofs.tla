----------------------------- MODULE ProcessProofs ----------------------------
(***************************************************************************)
(* Proofs about the process: the library (ShaderLang), for any set of      *)
(* threads, keys, stages and clients, and that its tables are a cache that *)
(* counts references (BuiltinCache).                                       *)
(*                                                                         *)
(* Then: the driver (StandAlone), for any number of files, of threads and  *)
(* of compiles per file, keeps the library's contract.                     *)
(***************************************************************************)
EXTENDS StandAlone, FiniteSetTheorems, SequenceTheorems, TLAPS

(***************************************************************************)
(* Facts about tables and reference counts.                                *)
(***************************************************************************)

\* Dropping a held client lowers the count by one, and to zero only when it was
\* the last (ShFinalize).
LEMMA LastReference ==
  ASSUME TypeOK, ClientCountExact, NEW c \in holders
  PROVE  /\ NumberOfClients - 1 = Cardinality(holders \ {c})
         /\ NumberOfClients - 1 >= 0
         /\ NumberOfClients - 1 = 0 => holders \ {c} = {}
<1>1. IsFiniteSet(holders) /\ IsFiniteSet(holders \ {c})
  BY ConstantsAssumption, FS_Subset, FS_RemoveElement
  DEF TypeOK, ConstantsAssumption
<1>2. NumberOfClients - 1 = Cardinality(holders \ {c})
  BY <1>1, FS_RemoveElement DEF ClientCountExact
<1>3. Cardinality(holders \ {c}) \in Nat
  BY <1>1, FS_CardinalityType
<1>4. Cardinality(holders \ {c}) = 0 => holders \ {c} = {}
  BY <1>1, FS_EmptySet
<1>5. QED
  BY <1>2, <1>3, <1>4

\* Taking a client that is not held raises the count by one (ShInitialize).
LEMMA FirstReference ==
  ASSUME TypeOK, ClientCountExact, NEW c \in Clients, c \notin holders
  PROVE  /\ NumberOfClients + 1 = Cardinality(holders \cup {c})
         /\ NumberOfClients + 1 >= 0
<1>1. IsFiniteSet(holders)
  BY ConstantsAssumption, FS_Subset DEF TypeOK, ConstantsAssumption
<1>2. QED
  BY <1>1, FS_AddElement, FS_CardinalityType DEF ClientCountExact

\* Only ShInitialize and ShFinalize touch the count, and both keep it exact.
LEMMA ClientCountNext == IInv /\ [Next]_vars => ClientCountExact'
<1> SUFFICES ASSUME IInv, [Next]_vars PROVE ClientCountExact'
  OBVIOUS
<1>1. TypeOK /\ ClientCountExact
  BY DEF IInv
<1>2. ASSUME NEW t \in Threads, NEW c \in Clients, ShInitialize(t, c)
      PROVE ClientCountExact'
  BY <1>1, <1>2, FirstReference DEF ShInitialize, CountClient, ClientCountExact
<1>3. ASSUME NEW t \in Threads, NEW c \in Clients, ShFinalize(t, c)
      PROVE ClientCountExact'
  BY <1>1, <1>3, LastReference DEF ShFinalize, ClientCountExact
<1>4. CASE UNCHANGED <<NumberOfClients, holders>>
  BY <1>1, <1>4 DEF ClientCountExact
<1>5. QED
  BY <1>2, <1>3, <1>4
  DEF Next, Progress, Initialize, Finalize, Compile, vars, processVars,
      FreeShared, FreeCommon, FreeGPA, ShConstructCompiler, ShDestruct, ShCompile,
      SetupHit, SetupMiss, InitializeSymbolTables, PublishCommon, PublishShared,
      FillShared, PublishDone, Cleanup, Lookup, Parse, CompileEnd

\* The three states of a table object, and when they keep their meaning.
LEMMA TableKinds ==
  /\ NoTable # FilledTable
  /\ FreshTable # FilledTable
  /\ NoTable' = NoTable
  /\ PerProcessGPA' = PerProcessGPA =>
       FreshTable' = FreshTable /\ FilledTable' = FilledTable
<1>1. NoTable # FilledTable
  BY DEF NoTable, FilledTable
<1>3. FreshTable # FilledTable
  BY DEF FreshTable, FilledTable
<1>4. NoTable' = NoTable
  BY DEF NoTable
<1>5. PerProcessGPA' = PerProcessGPA =>
       FreshTable' = FreshTable /\ FilledTable' = FilledTable
  BY DEF FreshTable, FilledTable
<1>6. QED
  BY <1>1, <1>3, <1>4, <1>5

\* Every key has the general-precision common table.
LEMMA ClassFacts ==
  \A k \in Keys : ClassesOf(k) \subseteq Classes /\ "EPcGeneral" \in ClassesOf(k)
  BY DEF ClassesOf, Classes

\* A step that leaves the tables and the pool alone changes no key's state.
LEMMA TablesKept ==
  ASSUME UNCHANGED <<PerProcessGPA, CommonSymbolTable, SharedSymbolTables>>
  PROVE  UNCHANGED <<BuiltKeys, CommonKeys, CompleteKeys, FilledTable>>
  BY TableKinds
  DEF BuiltKeys, CommonKeys, CompleteKeys, AlreadyBuilt, FilledTable

\* BuiltKeys are the keys on which SetupBuiltinSymbolTable returns early.
LEMMA BuiltIff == \A k \in Keys : k \in BuiltKeys <=> AlreadyBuilt(k)
  BY DEF BuiltKeys

\* A key whose tables are all there also looks built.
LEMMA CompleteBuilt == CompleteKeys \subseteq BuiltKeys
  BY ClassFacts, TableKinds
  DEF CompleteKeys, CommonKeys, BuiltKeys, AlreadyBuilt

\* The loop over the stages stays within its bound.
LEMMA StageStep == \A s \in Stages : s + 1 \in 1 .. NumStages + 1
  BY ConstantsAssumption DEF Stages, ConstantsAssumption

-------------------------------------------------------------------------------
(* Typing. *)

\* Table objects are well typed.
LEMMA TableTypes ==
  /\ NoTable \in Table
  /\ PerProcessGPA \in Nat => FreshTable \in Table /\ FilledTable \in Table
  BY DEF NoTable, Table, FreshTable, FilledTable

\* ShFinalize keeps the types.
LEMMA TypeFinalize ==
  ASSUME TypeOK, NEW t \in Threads, Finalize(t)
  PROVE  TypeOK'
<1> USE ConstantsAssumption DEF TypeOK, Goto, processVars, poolVars, Steps,
   Pools
<1>1. PICK c \in Clients : ShFinalize(t, c)
  BY DEF Finalize
<1>2. CASE UNCHANGED <<init_lock, pc>>
  BY <1>1, <1>2 DEF ShFinalize
<1>3. CASE init_lock' = t /\ pc' = [pc EXCEPT ![t] = "freeShared"]
  BY <1>1, <1>3 DEF ShFinalize
<1>4. QED
  BY <1>1, <1>2, <1>3 DEF ShFinalize

\* Creating a stage's table keeps the types.
LEMMA TypePublishShared ==
  ASSUME TypeOK, NEW t \in Threads, PublishShared(t)
  PROVE  TypeOK'
<1> USE ConstantsAssumption DEF TypeOK, Goto, processVars, poolVars, Steps,
   Pools
<1>1. job[t][1] \in Keys /\ stageAt[t] \in Stages
      /\ stageAt[t] + 1 \in 1 .. NumStages + 1
  BY StageStep DEF PublishShared, StageLoop
<1>2. CASE stageAt[t] \in StagesOf[job[t][1]]
  <2>1. SharedSymbolTables' = [SharedSymbolTables EXCEPT
     ![job[t][1]][stageAt[t]] = FreshTable]
    BY <1>2 DEF PublishShared
  <2>2. SharedSymbolTables' \in [Keys -> [Stages -> Table]]
    BY <1>1, <2>1, TableTypes
  <2>3. QED
    BY <1>2, <2>2 DEF PublishShared
<1>3. CASE stageAt[t] \notin StagesOf[job[t][1]]
  BY <1>1, <1>3 DEF PublishShared
<1>4. QED
  BY <1>2, <1>3

\* Filling the table of a stage keeps the types.
LEMMA TypeFillShared ==
  ASSUME TypeOK, NEW t \in Threads, FillShared(t), stageAt[t] \in Stages
  PROVE  TypeOK'
<1> USE ConstantsAssumption DEF TypeOK, Goto, processVars, poolVars, Steps,
   Pools
<1>1. SharedSymbolTables' = [SharedSymbolTables EXCEPT
   ![job[t][1]][stageAt[t]] = FilledTable]
  BY  DEF FillShared
<1>2. SharedSymbolTables' \in [Keys -> [Stages -> Table]]
  BY <1>1, TableTypes
<1>3. stageAt[t] + 1 \in 1 .. NumStages + 1
  BY StageStep
<1>4. QED
  BY <1>2, <1>3 DEF FillShared

\* The initial state is well typed.
LEMMA TypeInit == Init => TypeOK
  BY ConstantsAssumption, TableTypes
  DEF Init, TypeOK, Stages, Steps, Pools, NoTable, Table, ConstantsAssumption

\* Every step keeps the types.
LEMMA TypeNext == IInv /\ [Next]_vars => TypeOK'
<1> SUFFICES ASSUME IInv, [Next]_vars
             PROVE  TypeOK'
  OBVIOUS
<1>0. TypeOK
  BY DEF IInv
<1> USE <1>0, ConstantsAssumption
    DEF TypeOK, Goto, processVars, poolVars, Steps, Pools
<1>1. CASE UNCHANGED vars
  BY <1>1 DEF vars
<1>2. ASSUME NEW t \in Threads, Initialize(t) PROVE TypeOK'
  BY <1>2 DEF Initialize, ShInitialize, CountClient
<1>3. ASSUME NEW t \in Threads, Finalize(t) PROVE TypeOK'
  BY <1>3, TypeFinalize
<1>4. ASSUME NEW t \in Threads, ShConstructCompiler(t) PROVE TypeOK'
  BY <1>4 DEF ShConstructCompiler
<1>5. ASSUME NEW t \in Threads, ShDestruct(t) PROVE TypeOK'
  BY <1>5 DEF ShDestruct
<1>6. ASSUME NEW t \in Threads, Compile(t) PROVE TypeOK'
  BY <1>6 DEF Compile, ShCompile, Push, ConstantsAssumption
<1>7. ASSUME NEW t \in Threads, FreeShared(t) PROVE TypeOK'
  BY <1>7, TableTypes DEF FreeShared
<1>8. ASSUME NEW t \in Threads, FreeCommon(t) PROVE TypeOK'
  BY <1>8, TableTypes DEF FreeCommon
<1>9. ASSUME NEW t \in Threads, FreeGPA(t) PROVE TypeOK'
  BY <1>9 DEF FreeGPA
<1>10. ASSUME NEW t \in Threads, SetupHit(t) PROVE TypeOK'
  BY <1>10 DEF SetupHit
<1>11. ASSUME NEW t \in Threads, SetupMiss(t) PROVE TypeOK'
  BY <1>11 DEF SetupMiss
<1>12. ASSUME NEW t \in Threads, NEW ok \in BOOLEAN,
              InitializeSymbolTables(t, ok)
       PROVE TypeOK'
  BY <1>12 DEF InitializeSymbolTables, ProcessPool, AfterBuild
<1>13. ASSUME NEW t \in Threads, PublishCommon(t) PROVE TypeOK'
  BY <1>13, TableTypes DEF PublishCommon, ConstantsAssumption
<1>14. ASSUME NEW t \in Threads, PublishShared(t) PROVE TypeOK'
  BY <1>14, TypePublishShared
<1>15. ASSUME NEW t \in Threads, FillShared(t) PROVE TypeOK'
  <2>1. PublishInv
    BY DEF IInv
  <2>2. job[t][1] \in Keys
    BY <1>0
  <2>3. stageAt[t] \in Stages
    BY <1>15, <2>1, <2>2 DEF FillShared, PublishInv, ConstantsAssumption
  <2>4. QED
    BY <1>15, <2>3, TypeFillShared
<1>16. ASSUME NEW t \in Threads, PublishDone(t) PROVE TypeOK'
  BY <1>16 DEF PublishDone
<1>17. ASSUME NEW t \in Threads, Cleanup(t) PROVE TypeOK'
  BY <1>17 DEF Cleanup, SwitchBack
<1>18. ASSUME NEW t \in Threads, Lookup(t) PROVE TypeOK'
  BY <1>18 DEF Lookup
<1>19. ASSUME NEW t \in Threads, NEW ok \in BOOLEAN, Parse(t, ok) PROVE TypeOK'
  BY <1>19, TableTypes DEF Parse
<1>20. ASSUME NEW t \in Threads, CompileEnd(t) PROVE TypeOK'
  BY <1>20 DEF CompileEnd
<1>21. QED
  BY <1>1, <1>2, <1>3, <1>4, <1>5, <1>6, <1>7, <1>8, <1>9, <1>10, <1>11,
     <1>12, <1>13, <1>14, <1>15, <1>16, <1>17, <1>18, <1>19, <1>20
  DEF Next, Progress

-------------------------------------------------------------------------------
(* Each part of the inductive invariant is preserved. *)

\* init_lock is held exactly inside the locked code: mutual exclusion.
LEMMA LockInvNext == IInv /\ [Next]_vars => LockInv'
<1> SUFFICES ASSUME IInv, [Next]_vars PROVE LockInv'
  OBVIOUS
<1>1. TypeOK /\ LockInv
  BY DEF IInv
<1>2. pc \in [Threads -> Steps] /\ NoThread \notin Threads
  BY <1>1, ConstantsAssumption DEF TypeOK, ConstantsAssumption
<1>3. CASE UNCHANGED vars
  BY <1>1, <1>2, <1>3, TableKinds, ClassFacts DEF vars, LockInv, LockedSteps
<1>4. ASSUME NEW t \in Threads, NEW c \in Clients, Owner[c] = t,
             ShInitialize(t, c)
      PROVE LockInv'
  BY <1>1, <1>2, <1>4
  DEF ShInitialize, LockFree, Goto, processVars, poolVars, LockInv,
      LockedSteps
<1>5. ASSUME NEW t \in Threads, NEW c \in Clients, Owner[c] = t,
             MayFinalize(c), ShFinalize(t, c)
      PROVE LockInv'
  BY <1>1, <1>2, <1>5
  DEF ShFinalize, LockFree, TearDown, Goto, processVars, poolVars, LockInv,
      LockedSteps
<1>6. ASSUME NEW t \in Threads, ShConstructCompiler(t) PROVE LockInv'
  BY <1>1, <1>2, <1>6
  DEF ShConstructCompiler, Goto, processVars, poolVars, LockInv, LockedSteps
<1>7. ASSUME NEW t \in Threads, ShDestruct(t) PROVE LockInv'
  BY <1>1, <1>2, <1>7
  DEF ShDestruct, Goto, processVars, poolVars, LockInv, LockedSteps
<1>8. ASSUME NEW t \in Threads, NEW k \in Keys, NEW n \in {0, 1}, NEW s \in
             StagesOf[k], MayCompile(t), ShCompile(t, k, s, n)
      PROVE LockInv'
  BY <1>1, <1>2, <1>8
  DEF ShCompile, Goto, processVars, poolVars, LockInv, LockedSteps
<1>9. ASSUME NEW t \in Threads, FreeShared(t) PROVE LockInv'
  BY <1>1, <1>2, <1>9
  DEF FreeShared, Goto, processVars, poolVars, LockInv, LockedSteps
<1>10. ASSUME NEW t \in Threads, FreeCommon(t) PROVE LockInv'
  BY <1>1, <1>2, <1>10
  DEF FreeCommon, Goto, processVars, poolVars, LockInv, LockedSteps
<1>11. ASSUME NEW t \in Threads, FreeGPA(t) PROVE LockInv'
  BY <1>1, <1>2, <1>11
  DEF FreeGPA, Goto, processVars, poolVars, LockInv, LockedSteps
<1>12. ASSUME NEW t \in Threads, SetupHit(t) PROVE LockInv'
  BY <1>1, <1>2, <1>12
  DEF SetupHit, LockFree, Goto, processVars, poolVars, LockInv, LockedSteps
<1>13. ASSUME NEW t \in Threads, SetupMiss(t) PROVE LockInv'
  BY <1>1, <1>2, <1>13
  DEF SetupMiss, LockFree, Goto, processVars, poolVars, LockInv, LockedSteps
<1>14. ASSUME NEW t \in Threads, NEW ok \in BOOLEAN, InitializeSymbolTables(t,
             ok)
      PROVE LockInv'
  BY <1>1, <1>2, <1>14
  DEF InitializeSymbolTables, AfterBuild, Goto, processVars, poolVars,
      LockInv, LockedSteps
<1>15. ASSUME NEW t \in Threads, PublishCommon(t) PROVE LockInv'
  BY <1>1, <1>2, <1>15
  DEF PublishCommon, Goto, processVars, poolVars, LockInv, LockedSteps
<1>16. ASSUME NEW t \in Threads, PublishShared(t) PROVE LockInv'
  BY <1>1, <1>2, <1>16
  DEF PublishShared, StageLoop, Goto, processVars, poolVars, LockInv,
      LockedSteps
<1>17. ASSUME NEW t \in Threads, FillShared(t) PROVE LockInv'
  BY <1>1, <1>2, <1>17
  DEF FillShared, Goto, processVars, poolVars, LockInv, LockedSteps
<1>18. ASSUME NEW t \in Threads, PublishDone(t) PROVE LockInv'
  BY <1>1, <1>2, <1>18
  DEF PublishDone, StageLoop, Goto, processVars, poolVars, LockInv,
      LockedSteps
<1>19. ASSUME NEW t \in Threads, Cleanup(t) PROVE LockInv'
  BY <1>1, <1>2, <1>19
  DEF Cleanup, Goto, processVars, poolVars, LockInv, LockedSteps
<1>20. ASSUME NEW t \in Threads, Lookup(t) PROVE LockInv'
  BY <1>1, <1>2, <1>20
  DEF Lookup, Goto, processVars, poolVars, LockInv, LockedSteps
<1>21. ASSUME NEW t \in Threads, NEW ok \in BOOLEAN, Parse(t, ok) PROVE LockInv'
  BY <1>1, <1>2, <1>21
  DEF Parse, Goto, processVars, poolVars, LockInv, LockedSteps
<1>22. ASSUME NEW t \in Threads, CompileEnd(t) PROVE LockInv'
  BY <1>1, <1>2, <1>22
  DEF CompileEnd, Goto, processVars, poolVars, LockInv, LockedSteps
<1>23. QED
  BY <1>3, <1>4, <1>5, <1>6, <1>7, <1>8, <1>9, <1>10, <1>11, <1>12, <1>13,
     <1>14, <1>15, <1>16, <1>17, <1>18, <1>19, <1>20, <1>21, <1>22
  DEF Next, Progress, Initialize, Finalize, Compile

\* A running compile keeps its client, a teardown has none.
LEMMA CoverInvNext == IInv /\ [Next]_vars => CoverInv'
<1> SUFFICES ASSUME IInv, [Next]_vars PROVE CoverInv'
  OBVIOUS
<1>1. TypeOK /\ LockInv /\ CoverInv /\ ClientCountExact
  BY DEF IInv
<1>2. pc \in [Threads -> Steps] /\ Sponsor \in [Threads -> Clients] /\ lastGPA \in Nat /\ NoThread \notin Threads /\ NumberOfClients \in Int
  BY <1>1, ConstantsAssumption DEF TypeOK, ConstantsAssumption
<1>3. CASE UNCHANGED vars
  BY <1>1, <1>2, <1>3, TableKinds, ClassFacts
  DEF vars, CoverInv, LockInv, LockedSteps
<1>4. ASSUME NEW t \in Threads, NEW c \in Clients, Owner[c] = t,
             ShInitialize(t, c)
      PROVE CoverInv'
  BY <1>1, <1>2, <1>4
  DEF ShInitialize, LockFree, Goto, processVars, poolVars, CoverInv, LockInv,
      LockedSteps
<1>5. ASSUME NEW t \in Threads, NEW c \in Clients, Owner[c] = t,
             MayFinalize(c), ShFinalize(t, c)
      PROVE CoverInv'
  <2>1. c \in holders /\ PerProcessGPA # 0
    BY <1>1, <1>5 DEF ShFinalize, CoverInv
  <2>2. \A u \in Threads : pc[u] \notin {"freeShared", "freeCommon", "freeGPA"}
    BY <1>1, <1>2, <1>5 DEF ShFinalize, LockFree, LockInv, LockedSteps
  <2>3. NumberOfClients - 1 >= 0 /\ (NumberOfClients - 1 = 0 => holders \ {c} = {})
    BY <1>1, <2>1, LastReference
  <2>4. holders' = holders \ {c} /\ UNCHANGED PerProcessGPA
    BY <1>5 DEF ShFinalize
  <2>5. \/ UNCHANGED pc
        \/ holders \ {c} = {} /\ pc' = [pc EXCEPT ![t] = "freeShared"]
    BY <1>2, <1>5, <2>3 DEF ShFinalize, TearDown, Goto
  <2>6. \A u \in Threads : pc[u] # "idle" => Sponsor[u] # c
    BY <1>5 DEF MayFinalize
  <2>7. QED
    BY <1>1, <1>2, <2>1, <2>2, <2>4, <2>5, <2>6 DEF CoverInv
<1>6. ASSUME NEW t \in Threads, ShConstructCompiler(t) PROVE CoverInv'
  BY <1>1, <1>2, <1>6
  DEF ShConstructCompiler, Goto, processVars, poolVars, CoverInv, LockInv,
      LockedSteps
<1>7. ASSUME NEW t \in Threads, ShDestruct(t) PROVE CoverInv'
  BY <1>1, <1>2, <1>7
  DEF ShDestruct, Goto, processVars, poolVars, CoverInv, LockInv, LockedSteps
<1>8. ASSUME NEW t \in Threads, NEW k \in Keys, NEW n \in {0, 1}, NEW s \in
             StagesOf[k], MayCompile(t), ShCompile(t, k, s, n)
      PROVE CoverInv'
  BY <1>1, <1>2, <1>8
  DEF ShCompile, Goto, processVars, poolVars, CoverInv, LockInv, LockedSteps,
      MayCompile
<1>9. ASSUME NEW t \in Threads, FreeShared(t) PROVE CoverInv'
  BY <1>1, <1>2, <1>9
  DEF FreeShared, Goto, processVars, poolVars, CoverInv, LockInv, LockedSteps
<1>10. ASSUME NEW t \in Threads, FreeCommon(t) PROVE CoverInv'
  BY <1>1, <1>2, <1>10
  DEF FreeCommon, Goto, processVars, poolVars, CoverInv, LockInv, LockedSteps
<1>11. ASSUME NEW t \in Threads, FreeGPA(t) PROVE CoverInv'
  BY <1>1, <1>2, <1>11
  DEF FreeGPA, Goto, processVars, poolVars, CoverInv, LockInv, LockedSteps
<1>12. ASSUME NEW t \in Threads, SetupHit(t) PROVE CoverInv'
  BY <1>1, <1>2, <1>12
  DEF SetupHit, LockFree, Goto, processVars, poolVars, CoverInv, LockInv,
      LockedSteps
<1>13. ASSUME NEW t \in Threads, SetupMiss(t) PROVE CoverInv'
  BY <1>1, <1>2, <1>13
  DEF SetupMiss, LockFree, Goto, processVars, poolVars, CoverInv, LockInv,
      LockedSteps
<1>14. ASSUME NEW t \in Threads, NEW ok \in BOOLEAN, InitializeSymbolTables(t,
             ok)
      PROVE CoverInv'
  BY <1>1, <1>2, <1>14
  DEF InitializeSymbolTables, AfterBuild, Goto, processVars, poolVars,
      CoverInv, LockInv, LockedSteps
<1>15. ASSUME NEW t \in Threads, PublishCommon(t) PROVE CoverInv'
  BY <1>1, <1>2, <1>15
  DEF PublishCommon, Goto, processVars, poolVars, CoverInv, LockInv,
      LockedSteps
<1>16. ASSUME NEW t \in Threads, PublishShared(t) PROVE CoverInv'
  BY <1>1, <1>2, <1>16
  DEF PublishShared, StageLoop, Goto, processVars, poolVars, CoverInv,
      LockInv, LockedSteps
<1>17. ASSUME NEW t \in Threads, FillShared(t) PROVE CoverInv'
  BY <1>1, <1>2, <1>17
  DEF FillShared, Goto, processVars, poolVars, CoverInv, LockInv, LockedSteps
<1>18. ASSUME NEW t \in Threads, PublishDone(t) PROVE CoverInv'
  BY <1>1, <1>2, <1>18
  DEF PublishDone, StageLoop, Goto, processVars, poolVars, CoverInv, LockInv,
      LockedSteps
<1>19. ASSUME NEW t \in Threads, Cleanup(t) PROVE CoverInv'
  BY <1>1, <1>2, <1>19
  DEF Cleanup, Goto, processVars, poolVars, CoverInv, LockInv, LockedSteps
<1>20. ASSUME NEW t \in Threads, Lookup(t) PROVE CoverInv'
  BY <1>1, <1>2, <1>20
  DEF Lookup, Goto, processVars, poolVars, CoverInv, LockInv, LockedSteps
<1>21. ASSUME NEW t \in Threads, NEW ok \in BOOLEAN, Parse(t, ok)
      PROVE CoverInv'
  BY <1>1, <1>2, <1>21
  DEF Parse, Goto, processVars, poolVars, CoverInv, LockInv, LockedSteps
<1>22. ASSUME NEW t \in Threads, CompileEnd(t) PROVE CoverInv'
  BY <1>1, <1>2, <1>22
  DEF CompileEnd, Goto, processVars, poolVars, CoverInv, LockInv, LockedSteps
<1>23. QED
  BY <1>3, <1>4, <1>5, <1>6, <1>7, <1>8, <1>9, <1>10, <1>11, <1>12, <1>13,
     <1>14, <1>15, <1>16, <1>17, <1>18, <1>19, <1>20, <1>21, <1>22
  DEF Next, Progress, Initialize, Finalize, Compile

\* Tables belong to the process pool that exists, and go before it does.
LEMMA TableInvNext == IInv /\ [Next]_vars => TableInv'
<1> SUFFICES ASSUME IInv, [Next]_vars PROVE TableInv'
  OBVIOUS
<1>1. TypeOK /\ LockInv /\ CoverInv /\ TableInv /\ PublishInv
  BY DEF IInv
<1>2. pc \in [Threads -> Steps] /\ NoThread \notin Threads /\ lastGPA \in Nat
  BY <1>1, ConstantsAssumption DEF TypeOK, ConstantsAssumption
<1>3. CommonSymbolTable \in [Keys -> [Classes -> Table]] /\ SharedSymbolTables \in [Keys -> [Stages -> Table]]
  BY <1>1, ConstantsAssumption DEF TypeOK, ConstantsAssumption
<1>4. job \in [Threads -> Keys \X Stages] /\ stageAt \in [Threads -> 1 .. NumStages + 1]
  BY <1>1, ConstantsAssumption DEF TypeOK, ConstantsAssumption
<1>5. CASE UNCHANGED vars
  BY <1>1, <1>2, <1>3, <1>4, <1>5, TableKinds, ClassFacts
  DEF vars, TableInv, LockedSteps
<1>6. ASSUME NEW t \in Threads, NEW c \in Clients, Owner[c] = t,
             ShInitialize(t, c)
      PROVE TableInv'
  BY <1>1, <1>2, <1>3, <1>4, <1>6, TableKinds
  DEF ShInitialize, LockFree, Goto, processVars, poolVars, TableInv,
      LockedSteps, LockInv, CoverInv
<1>7. ASSUME NEW t \in Threads, NEW c \in Clients, Owner[c] = t,
             MayFinalize(c), ShFinalize(t, c)
      PROVE TableInv'
  BY <1>1, <1>2, <1>3, <1>4, <1>7, TableKinds
  DEF ShFinalize, LockFree, TearDown, Goto, processVars, poolVars, TableInv,
      LockedSteps
<1>8. ASSUME NEW t \in Threads, ShConstructCompiler(t) PROVE TableInv'
  BY <1>1, <1>2, <1>3, <1>4, <1>8, TableKinds
  DEF ShConstructCompiler, Goto, processVars, poolVars, TableInv, LockedSteps
<1>9. ASSUME NEW t \in Threads, ShDestruct(t) PROVE TableInv'
  BY <1>1, <1>2, <1>3, <1>4, <1>9, TableKinds
  DEF ShDestruct, Goto, processVars, poolVars, TableInv, LockedSteps
<1>10. ASSUME NEW t \in Threads, NEW k \in Keys, NEW n \in {0, 1}, NEW s \in
             StagesOf[k], MayCompile(t), ShCompile(t, k, s, n)
      PROVE TableInv'
  BY <1>1, <1>2, <1>3, <1>4, <1>10, TableKinds
  DEF ShCompile, Goto, processVars, poolVars, TableInv, LockedSteps
<1>11. ASSUME NEW t \in Threads, FreeShared(t) PROVE TableInv'
  BY <1>1, <1>2, <1>3, <1>4, <1>11, TableKinds
  DEF FreeShared, Goto, processVars, poolVars, TableInv, LockedSteps, LockInv
<1>12. ASSUME NEW t \in Threads, FreeCommon(t) PROVE TableInv'
  BY <1>1, <1>2, <1>3, <1>4, <1>12, TableKinds
  DEF FreeCommon, Goto, processVars, poolVars, TableInv, LockedSteps, LockInv
<1>13. ASSUME NEW t \in Threads, FreeGPA(t) PROVE TableInv'
  BY <1>1, <1>2, <1>3, <1>4, <1>13, TableKinds
  DEF FreeGPA, Goto, processVars, poolVars, TableInv, LockedSteps, LockInv
<1>14. ASSUME NEW t \in Threads, SetupHit(t) PROVE TableInv'
  BY <1>1, <1>2, <1>3, <1>4, <1>14, TableKinds
  DEF SetupHit, LockFree, Goto, processVars, poolVars, TableInv, LockedSteps
<1>15. ASSUME NEW t \in Threads, SetupMiss(t) PROVE TableInv'
  BY <1>1, <1>2, <1>3, <1>4, <1>15, TableKinds
  DEF SetupMiss, LockFree, Goto, processVars, poolVars, TableInv, LockedSteps
<1>16. ASSUME NEW t \in Threads, NEW ok \in BOOLEAN, InitializeSymbolTables(t,
             ok)
      PROVE TableInv'
  BY <1>1, <1>2, <1>3, <1>4, <1>16, TableKinds
  DEF InitializeSymbolTables, AfterBuild, Goto, processVars, poolVars,
      TableInv, LockedSteps
<1>17. ASSUME NEW t \in Threads, PublishCommon(t) PROVE TableInv'
  BY <1>1, <1>2, <1>3, <1>4, <1>17, TableKinds
  DEF PublishCommon, Goto, processVars, poolVars, TableInv, LockedSteps,
      LockInv, CoverInv
<1>18. ASSUME NEW t \in Threads, PublishShared(t) PROVE TableInv'
  <2> DEFINE k == job[t][1]
             s == stageAt[t]
  <2>1. PerProcessGPA # 0
    BY <1>1, <1>18 DEF PublishShared, CoverInv
  <2>2. k \in Keys /\ s \in Stages
    BY <1>2, <1>4, <1>18 DEF PublishShared, StageLoop
  <2>3. \A kk \in Keys : \A ss \in Stages :
          SharedSymbolTables'[kk][ss] \in {SharedSymbolTables[kk][ss],
             FreshTable}
    <3>1. CASE s \in StagesOf[k]
      BY <1>3, <1>18, <2>2, <3>1 DEF PublishShared
    <3>2. CASE s \notin StagesOf[k]
      BY <1>18, <3>2 DEF PublishShared
    <3>3. QED
      BY <3>1, <3>2
  <2>4. \A u \in Threads : pc'[u] \notin {"freeCommon", "freeGPA"}
    BY <1>1, <1>2, <1>18 DEF PublishShared, Goto, LockInv, LockedSteps
  <2>5. UNCHANGED <<PerProcessGPA, CommonSymbolTable>>
    BY <1>18 DEF PublishShared
  <2>6. QED
    BY <1>1, <2>1, <2>3, <2>4, <2>5, TableKinds DEF TableInv
<1>19. ASSUME NEW t \in Threads, FillShared(t) PROVE TableInv'
  BY <1>1, <1>2, <1>3, <1>4, <1>19, TableKinds
  DEF FillShared, Goto, processVars, poolVars, TableInv, LockedSteps, LockInv,
      CoverInv, Stages
<1>20. ASSUME NEW t \in Threads, PublishDone(t) PROVE TableInv'
  BY <1>1, <1>2, <1>3, <1>4, <1>20, TableKinds
  DEF PublishDone, StageLoop, Goto, processVars, poolVars, TableInv,
      LockedSteps
<1>21. ASSUME NEW t \in Threads, Cleanup(t) PROVE TableInv'
  BY <1>1, <1>2, <1>3, <1>4, <1>21, TableKinds
  DEF Cleanup, Goto, processVars, poolVars, TableInv, LockedSteps
<1>22. ASSUME NEW t \in Threads, Lookup(t) PROVE TableInv'
  BY <1>1, <1>2, <1>3, <1>4, <1>22, TableKinds
  DEF Lookup, Goto, processVars, poolVars, TableInv, LockedSteps
<1>23. ASSUME NEW t \in Threads, NEW ok \in BOOLEAN, Parse(t, ok)
      PROVE TableInv'
  BY <1>1, <1>2, <1>3, <1>4, <1>23, TableKinds
  DEF Parse, Goto, processVars, poolVars, TableInv, LockedSteps
<1>24. ASSUME NEW t \in Threads, CompileEnd(t) PROVE TableInv'
  BY <1>1, <1>2, <1>3, <1>4, <1>24, TableKinds
  DEF CompileEnd, Goto, processVars, poolVars, TableInv, LockedSteps
<1>25. QED
  BY <1>5, <1>6, <1>7, <1>8, <1>9, <1>10, <1>11, <1>12, <1>13, <1>14, <1>15,
     <1>16, <1>17, <1>18, <1>19, <1>20, <1>21, <1>22, <1>23, <1>24
  DEF Next, Progress, Initialize, Finalize, Compile

\* A key's tables are published as a whole before any compile is served it.
LEMMA PublishInvNext == IInv /\ [Next]_vars => PublishInv'
<1> SUFFICES ASSUME IInv, [Next]_vars PROVE PublishInv'
  OBVIOUS
<1>1. TypeOK /\ LockInv /\ CoverInv /\ TableInv /\ PublishInv /\ PoolInv
  BY DEF IInv
<1>2. pc \in [Threads -> Steps] /\ NoThread \notin Threads /\ NumStages \in Nat
  BY <1>1, ConstantsAssumption DEF TypeOK, ConstantsAssumption
<1>3. CommonSymbolTable \in [Keys -> [Classes -> Table]] /\ SharedSymbolTables \in [Keys -> [Stages -> Table]]
  BY <1>1, ConstantsAssumption DEF TypeOK, ConstantsAssumption
<1>4. job \in [Threads -> Keys \X Stages] /\ stageAt \in [Threads -> 1 .. NumStages + 1] /\ success \in [Threads -> BOOLEAN] /\ cachedTable \in [Threads -> Table]
  BY <1>1, ConstantsAssumption DEF TypeOK, ConstantsAssumption
<1>5. StagesOf \in [Keys -> SUBSET Stages]
  BY <1>1, ConstantsAssumption DEF TypeOK, ConstantsAssumption
<1>6. CASE UNCHANGED vars
  <2>1. UNCHANGED <<BuiltKeys, CommonKeys, CompleteKeys, FilledTable>>
    BY <1>6, TablesKept DEF vars
  <2>2. QED
    BY <1>1, <1>6, <2>1 DEF vars, PublishInv
<1>7. ASSUME NEW t \in Threads, NEW c \in Clients, Owner[c] = t,
             ShInitialize(t, c)
      PROVE PublishInv'
  <2>1. CASE PerProcessGPA # 0
    <3>1. UNCHANGED <<BuiltKeys, CommonKeys, CompleteKeys, FilledTable>>
      BY <1>7, <2>1, TablesKept DEF ShInitialize
    <3>2. QED
      BY <1>1, <1>7, <3>1 DEF ShInitialize, PublishInv
  <2>2. CASE PerProcessGPA = 0
    <3>1. \A u \in Threads : pc'[u] = "idle"
      BY <1>1, <1>2, <1>7, <2>2
      DEF ShInitialize, LockFree, CoverInv, LockInv, LockedSteps, Steps
    <3>2. BuiltKeys' = {}
      BY <1>1, <1>7, <2>2, TableKinds
      DEF ShInitialize, TableInv, BuiltKeys, AlreadyBuilt, Classes
    <3>3. QED
      BY <3>1, <3>2 DEF PublishInv
  <2>3. QED
    BY <2>1, <2>2
<1>8. ASSUME NEW t \in Threads, NEW c \in Clients, Owner[c] = t,
             MayFinalize(c), ShFinalize(t, c)
      PROVE PublishInv'
  <2>1. UNCHANGED <<BuiltKeys, CommonKeys, CompleteKeys, FilledTable>>
    BY <1>8, TablesKept DEF ShFinalize, processVars
  <2>2. CASE UNCHANGED pc
    BY <1>1, <1>8, <2>1, <2>2 DEF ShFinalize, PublishInv
  <2>3. CASE Goto(t, "freeShared")
    BY <1>1, <1>2, <1>8, <2>1, <2>3 DEF ShFinalize, Goto, PublishInv
  <2>4. QED
    BY <1>8, <2>2, <2>3 DEF ShFinalize
<1>9. ASSUME NEW t \in Threads, ShConstructCompiler(t) PROVE PublishInv'
  <2>1. UNCHANGED <<BuiltKeys, CommonKeys, CompleteKeys, FilledTable>>
    BY <1>9, TablesKept DEF ShConstructCompiler, processVars
  <2>3. QED
    BY <1>1, <1>2, <1>3, <1>4, <1>5, <2>1, <1>9
    DEF ShConstructCompiler, Goto, processVars, PublishInv
<1>10. ASSUME NEW t \in Threads, ShDestruct(t) PROVE PublishInv'
  <2>1. UNCHANGED <<BuiltKeys, CommonKeys, CompleteKeys, FilledTable>>
    BY <1>10, TablesKept DEF ShDestruct, processVars
  <2>3. QED
    BY <1>1, <1>2, <1>3, <1>4, <1>5, <2>1, <1>10
    DEF ShDestruct, Goto, processVars, PublishInv
<1>11. ASSUME NEW t \in Threads, NEW k \in Keys, NEW n \in {0, 1}, NEW s \in
             StagesOf[k], MayCompile(t), ShCompile(t, k, s, n)
      PROVE PublishInv'
  <2>1. UNCHANGED <<BuiltKeys, CommonKeys, CompleteKeys, FilledTable>>
    BY <1>11, TablesKept DEF ShCompile, processVars
  <2>2. pc'[t] \in {"setup", "compiled"} /\ pc[t] = "idle"
    BY <1>2, <1>11 DEF ShCompile, Goto
  <2>3. \A u \in Threads : u # t =>
          pc'[u] = pc[u] /\ job'[u] = job[u] /\ success'[u] = success[u]
    BY <1>2, <1>4, <1>11 DEF ShCompile, Goto
  <2>4. UNCHANGED <<SharedSymbolTables, stageAt>>
    BY <1>11 DEF ShCompile, processVars
  <2>5. QED
    BY <1>1, <2>1, <2>2, <2>3, <2>4 DEF PublishInv
<1>12. ASSUME NEW t \in Threads, FreeShared(t) PROVE PublishInv'
  <2>1. \A u \in Threads :
          pc[u] \in {"idle", "freeShared", "freeCommon", "freeGPA"}
    BY <1>1, <1>2, <1>12 DEF FreeShared, CoverInv, Steps
  <2>2. pc'[t] = "freeCommon"
    BY <1>2, <1>12 DEF FreeShared, Goto
  <2>3. QED
    BY <1>2, <2>1, <2>2, <1>12 DEF FreeShared, Goto, PublishInv
<1>13. ASSUME NEW t \in Threads, FreeCommon(t) PROVE PublishInv'
  <2>1. \A u \in Threads :
          pc[u] \in {"idle", "freeShared", "freeCommon", "freeGPA"}
    BY <1>1, <1>2, <1>13 DEF FreeCommon, CoverInv, Steps
  <2>2. BuiltKeys' = {}
    BY <1>1, <1>13, TableKinds
    DEF FreeCommon, TableInv, BuiltKeys, AlreadyBuilt, Classes
  <2>3. QED
    BY <1>2, <2>1, <2>2, <1>13 DEF FreeCommon, Goto, PublishInv
<1>14. ASSUME NEW t \in Threads, FreeGPA(t) PROVE PublishInv'
  <2>1. \A u \in Threads :
          pc[u] \in {"idle", "freeShared", "freeCommon", "freeGPA"}
    BY <1>1, <1>2, <1>14 DEF FreeGPA, CoverInv, Steps
  <2>2. BuiltKeys' = {}
    BY <1>1, <1>14, TableKinds
    DEF FreeGPA, TableInv, BuiltKeys, AlreadyBuilt, Classes
  <2>3. QED
    BY <1>2, <2>1, <2>2, <1>14 DEF FreeGPA, Goto, PublishInv
<1>15. ASSUME NEW t \in Threads, SetupHit(t) PROVE PublishInv'
  <2>1. UNCHANGED <<BuiltKeys, CommonKeys, CompleteKeys, FilledTable>>
    BY <1>15, TablesKept DEF SetupHit, processVars
  <2>2. \A u \in Threads : pc[u] \in {"shared", "fill", "freeCommon"} => u = t
    BY <1>1, <1>2, <1>15 DEF SetupHit, LockFree, LockInv, LockedSteps
  <2>3. QED
    BY <1>1, <1>2, <1>3, <1>4, <1>5, <2>1, <2>2, <1>15, BuiltIff
    DEF SetupHit, LockFree, Goto, processVars, PublishInv
<1>16. ASSUME NEW t \in Threads, SetupMiss(t) PROVE PublishInv'
  <2>1. UNCHANGED <<BuiltKeys, CommonKeys, CompleteKeys, FilledTable>>
    BY <1>16, TablesKept DEF SetupMiss, processVars
  <2>3. QED
    BY <1>1, <1>2, <1>3, <1>4, <1>5, <2>1, <1>16, BuiltIff
    DEF SetupMiss, LockFree, Goto, processVars, PublishInv
<1>17. ASSUME NEW t \in Threads, NEW ok \in BOOLEAN, InitializeSymbolTables(t,
             ok)
      PROVE PublishInv'
  <2>1. UNCHANGED <<BuiltKeys, CommonKeys, CompleteKeys, FilledTable>>
    BY <1>17, TablesKept DEF InitializeSymbolTables, processVars
  <2>3. QED
    BY <1>1, <1>2, <1>3, <1>4, <1>5, <2>1, <1>17
    DEF InitializeSymbolTables, AfterBuild, Goto, processVars, PublishInv
<1>18. ASSUME NEW t \in Threads, PublishCommon(t) PROVE PublishInv'
  <2> DEFINE k == job[t][1]
  <2>1. k \in Keys /\ UNCHANGED <<FilledTable, job, success, SharedSymbolTables>>
    BY <1>4, <1>18, TableKinds DEF PublishCommon
  <2>2. k \in CommonKeys'
    BY <1>3, <1>18, <2>1, ClassFacts DEF PublishCommon, CommonKeys
  <2>3. \A m \in Keys \ {k} : UNCHANGED CommonSymbolTable[m]
    BY <1>3, <1>18, <2>1 DEF PublishCommon
  <2>4. \A m \in Keys \ {k} : /\ m \in CommonKeys' <=> m \in CommonKeys
                              /\ m \in CompleteKeys' <=> m \in CompleteKeys
                              /\ m \in BuiltKeys' <=> m \in BuiltKeys
    BY <2>1, <2>3, TableKinds
    DEF CommonKeys, CompleteKeys, BuiltKeys, AlreadyBuilt
  <2>5. \A u \in Threads : u # t => pc[u] \notin LockedSteps
    BY <1>1, <1>18 DEF PublishCommon, LockInv, LockedSteps
  <2>6. k \notin BuiltKeys /\ success[t]
    BY <1>1, <1>18 DEF PublishCommon, PublishInv
  <2>7. \A u \in Threads : pc[u] \in {"lookup", "parse"} => job[u][1] # k
    BY <1>1, <2>6, CompleteBuilt DEF PublishInv
  <2>8. \A u \in Threads : u # t => pc'[u] = pc[u]
    BY <1>2, <1>18 DEF PublishCommon, Goto
  <2>9. pc'[t] = "shared" /\ stageAt'[t] = 1 /\ pc[t] = "common"
    BY <1>2, <1>4, <1>18 DEF PublishCommon, Goto
  <2>10. \A s \in StagesOf[k] : ~(s < 1)
    BY <1>5, <2>1 DEF Stages
  <2>11. BuiltKeys' \subseteq Keys /\ CompleteKeys \subseteq Keys
    BY DEF BuiltKeys, CompleteKeys, CommonKeys
  <2>12. QED
    BY <1>1, <2>1, <2>2, <2>4, <2>5, <2>6, <2>7, <2>8, <2>9, <2>10, <2>11
    DEF PublishInv, LockedSteps
<1>19. ASSUME NEW t \in Threads, PublishShared(t) PROVE PublishInv'
  <2> DEFINE k == job[t][1]
             st == stageAt[t]
  <2>1. /\ k \in Keys /\ st \in Stages /\ pc[t] = "shared"
        /\ UNCHANGED <<FilledTable, job, success, CommonSymbolTable>>
    BY <1>4, <1>19, TableKinds DEF PublishShared, StageLoop
  <2>2. CASE st \notin StagesOf[k]
    <3>1. UNCHANGED <<BuiltKeys, CommonKeys, CompleteKeys, SharedSymbolTables,
       pc>>
      BY <1>19, <2>2, TablesKept DEF PublishShared
    <3>2. stageAt'[t] = st + 1 /\ \A u \in Threads : u # t => stageAt'[u] = stageAt[u]
      BY <1>4, <1>19, <2>2 DEF PublishShared
    <3>3. \A s \in StagesOf[k] : s < st + 1 => s < st
      BY <1>5, <2>1, <2>2 DEF Stages
    <3>4. QED
      BY <1>1, <2>1, <3>1, <3>2, <3>3 DEF PublishInv
  <2>3. CASE st \in StagesOf[k]
    <3>1. /\ SharedSymbolTables' = [SharedSymbolTables EXCEPT ![k][st] = FreshTable]
          /\ pc' = [pc EXCEPT ![t] = "fill"] /\ UNCHANGED stageAt
      BY <1>19, <2>3 DEF PublishShared, Goto
    <3>2. UNCHANGED <<BuiltKeys, CommonKeys>>
      BY <1>19, <2>1, TableKinds
      DEF PublishShared, BuiltKeys, CommonKeys, AlreadyBuilt
    <3>3. \A m \in Keys \ {k} : UNCHANGED SharedSymbolTables[m]
      BY <1>3, <2>1, <3>1
    <3>4. \A m \in Keys \ {k} : m \in CompleteKeys' <=> m \in CompleteKeys
      BY <2>1, <3>2, <3>3 DEF CompleteKeys, CommonKeys
    <3>5. \A s \in StagesOf[k] : s < st =>
            SharedSymbolTables'[k][s] = SharedSymbolTables[k][s]
      BY <1>3, <1>5, <2>1, <3>1 DEF Stages
    <3>6. \A u \in Threads : u # t => pc[u] \notin LockedSteps /\ pc'[u] = pc[u]
      BY <1>1, <1>2, <2>1, <3>1 DEF LockInv, LockedSteps
    <3>7. pc'[t] = "fill"
      BY <1>2, <3>1
    <3>8. BuiltKeys \subseteq Keys /\ CompleteKeys \subseteq Keys
      BY DEF BuiltKeys, CompleteKeys, CommonKeys
    <3>9. QED
      BY <1>1, <2>1, <2>3, <3>1, <3>2, <3>4, <3>5, <3>6, <3>7, <3>8
      DEF PublishInv, LockedSteps
  <2>4. QED
    BY <2>2, <2>3
<1>20. ASSUME NEW t \in Threads, FillShared(t) PROVE PublishInv'
  <2> DEFINE k == job[t][1]
             st == stageAt[t]
  <2>1. /\ k \in Keys /\ pc[t] = "fill" /\ st \in StagesOf[k] /\ st \in Stages
        /\ UNCHANGED <<FilledTable, job, success, CommonSymbolTable>>
    BY <1>1, <1>4, <1>5, <1>20, TableKinds DEF FillShared, PublishInv
  <2>2. /\ SharedSymbolTables' = [SharedSymbolTables EXCEPT ![k][st] = FilledTable]
        /\ pc' = [pc EXCEPT ![t] = "shared"]
        /\ stageAt' = [stageAt EXCEPT ![t] = st + 1]
    BY <1>20 DEF FillShared, Goto
  <2>3. UNCHANGED <<BuiltKeys, CommonKeys>>
    BY <1>20, <2>1, TableKinds
    DEF FillShared, BuiltKeys, CommonKeys, AlreadyBuilt
  <2>4. \A m \in Keys \ {k} : m \in CompleteKeys' <=> m \in CompleteKeys
    BY <1>3, <2>1, <2>2, <2>3 DEF CompleteKeys, CommonKeys
  <2>5. \A s \in StagesOf[k] : s < st + 1 => SharedSymbolTables'[k][s] = FilledTable
    <3>1. \A s \in StagesOf[k] : s \in Stages /\ (s < st + 1 => s < st \/ s = st)
      BY <1>5, <2>1 DEF Stages
    <3>2. \A s \in StagesOf[k] : s < st => SharedSymbolTables[k][s] = FilledTable
      BY <1>1, <2>1 DEF PublishInv
    <3>3. \A s \in Stages : SharedSymbolTables'[k][s] =
            IF s = st THEN FilledTable ELSE SharedSymbolTables[k][s]
      BY <1>3, <2>1, <2>2
    <3>4. QED
      BY <3>1, <3>2, <3>3
  <2>6. \A u \in Threads : u # t => pc[u] \notin LockedSteps /\ pc'[u] = pc[u]
    BY <1>1, <1>2, <2>1, <2>2 DEF LockInv, LockedSteps
  <2>7. pc'[t] = "shared" /\ stageAt'[t] = st + 1
    BY <1>2, <1>4, <2>2
  <2>8. BuiltKeys \subseteq Keys /\ CompleteKeys \subseteq Keys
    BY DEF BuiltKeys, CompleteKeys, CommonKeys
  <2>9. QED
    BY <1>1, <2>1, <2>3, <2>4, <2>5, <2>6, <2>7, <2>8
    DEF PublishInv, LockedSteps
<1>21. ASSUME NEW t \in Threads, PublishDone(t) PROVE PublishInv'
  <2>1. UNCHANGED <<BuiltKeys, CommonKeys, CompleteKeys, FilledTable>>
    BY <1>21, TablesKept DEF PublishDone, processVars
  <2>2. job[t][1] \in CommonKeys /\ job[t][1] \in Keys /\ success[t]
    BY <1>1, <1>4, <1>21 DEF PublishDone, PublishInv
  <2>3. \A s \in StagesOf[job[t][1]] : s < stageAt[t]
    BY <1>2, <1>4, <1>5, <1>21, <2>2 DEF PublishDone, StageLoop, Stages
  <2>4. job[t][1] \in CompleteKeys
    BY <1>1, <1>21, <2>2, <2>3 DEF PublishDone, PublishInv, CompleteKeys
  <2>5. QED
    BY <1>1, <1>2, <1>21, <2>1, <2>2, <2>4
    DEF PublishDone, Goto, processVars, PublishInv
<1>22. ASSUME NEW t \in Threads, Cleanup(t) PROVE PublishInv'
  <2>1. UNCHANGED <<BuiltKeys, CommonKeys, CompleteKeys, FilledTable>>
    BY <1>22, TablesKept DEF Cleanup, processVars
  <2>2. \A u \in Threads : pc[u] \in {"shared", "fill", "freeCommon"} => u = t
    BY <1>1, <1>2, <1>22 DEF Cleanup, LockFree, LockInv, LockedSteps
  <2>3. QED
    BY <1>1, <1>2, <1>3, <1>4, <1>5, <2>1, <2>2, <1>22
    DEF Cleanup, Goto, processVars, PublishInv
<1>23. ASSUME NEW t \in Threads, Lookup(t) PROVE PublishInv'
  <2>1. UNCHANGED <<BuiltKeys, CommonKeys, CompleteKeys, FilledTable>>
    BY <1>23, TablesKept DEF Lookup, processVars
  <2>3. QED
    BY <1>1, <1>2, <1>3, <1>4, <1>5, <2>1, <1>23
    DEF Lookup, Goto, processVars, PublishInv
<1>24. ASSUME NEW t \in Threads, NEW ok \in BOOLEAN, Parse(t, ok)
      PROVE PublishInv'
  <2>1. UNCHANGED <<BuiltKeys, CommonKeys, CompleteKeys, FilledTable>>
    BY <1>24, TablesKept DEF Parse, processVars
  <2>3. QED
    BY <1>1, <1>2, <1>3, <1>4, <1>5, <2>1, <1>24
    DEF Parse, Goto, processVars, PublishInv
<1>25. ASSUME NEW t \in Threads, CompileEnd(t) PROVE PublishInv'
  <2>1. UNCHANGED <<BuiltKeys, CommonKeys, CompleteKeys, FilledTable>>
    BY <1>25, TablesKept DEF CompileEnd, processVars
  <2>3. QED
    BY <1>1, <1>2, <1>3, <1>4, <1>5, <2>1, <1>25
    DEF CompileEnd, Goto, processVars, PublishInv
<1>26. QED
  BY <1>6, <1>7, <1>8, <1>9, <1>10, <1>11, <1>12, <1>13, <1>14, <1>15, <1>16,
     <1>17, <1>18, <1>19, <1>20, <1>21, <1>22, <1>23, <1>24, <1>25
  DEF Next, Progress, Initialize, Finalize, Compile

\* No step changes the shared table under a parse that adopted it.
LEMMA AdoptInvNext == IInv /\ [Next]_vars => AdoptInv'
<1> SUFFICES ASSUME IInv, [Next]_vars PROVE AdoptInv'
  OBVIOUS
<1>1. TypeOK /\ LockInv /\ CoverInv /\ PublishInv /\ AdoptInv
  BY DEF IInv
<1>2. pc \in [Threads -> Steps] /\ NoThread \notin Threads
  BY <1>1, ConstantsAssumption DEF TypeOK, ConstantsAssumption
<1>3. SharedSymbolTables \in [Keys -> [Stages -> Table]]
  BY <1>1, ConstantsAssumption DEF TypeOK, ConstantsAssumption
<1>4. job \in [Threads -> Keys \X Stages] /\ stageAt \in [Threads -> 1 .. NumStages + 1] /\ cachedTable \in [Threads -> Table]
  BY <1>1, ConstantsAssumption DEF TypeOK, ConstantsAssumption
<1>5. CASE UNCHANGED vars
  BY <1>1, <1>2, <1>3, <1>4, <1>5, TableKinds, ClassFacts DEF vars, AdoptInv
<1>6. ASSUME NEW t \in Threads, NEW c \in Clients, Owner[c] = t,
             ShInitialize(t, c)
      PROVE AdoptInv'
  BY <1>1, <1>2, <1>3, <1>4, <1>6
  DEF ShInitialize, LockFree, Goto, processVars, poolVars, AdoptInv
<1>7. ASSUME NEW t \in Threads, NEW c \in Clients, Owner[c] = t,
             MayFinalize(c), ShFinalize(t, c)
      PROVE AdoptInv'
  BY <1>1, <1>2, <1>3, <1>4, <1>7
  DEF ShFinalize, LockFree, TearDown, Goto, processVars, poolVars, AdoptInv
<1>8. ASSUME NEW t \in Threads, ShConstructCompiler(t) PROVE AdoptInv'
  BY <1>1, <1>2, <1>3, <1>4, <1>8
  DEF ShConstructCompiler, Goto, processVars, poolVars, AdoptInv
<1>9. ASSUME NEW t \in Threads, ShDestruct(t) PROVE AdoptInv'
  BY <1>1, <1>2, <1>3, <1>4, <1>9
  DEF ShDestruct, Goto, processVars, poolVars, AdoptInv
<1>10. ASSUME NEW t \in Threads, NEW k \in Keys, NEW n \in {0, 1}, NEW s \in
             StagesOf[k], MayCompile(t), ShCompile(t, k, s, n)
      PROVE AdoptInv'
  BY <1>1, <1>2, <1>3, <1>4, <1>10
  DEF ShCompile, Goto, processVars, poolVars, AdoptInv
<1>11. ASSUME NEW t \in Threads, FreeShared(t) PROVE AdoptInv'
  BY <1>1, <1>2, <1>3, <1>4, <1>11
  DEF FreeShared, Goto, processVars, poolVars, AdoptInv, CoverInv
<1>12. ASSUME NEW t \in Threads, FreeCommon(t) PROVE AdoptInv'
  BY <1>1, <1>2, <1>3, <1>4, <1>12
  DEF FreeCommon, Goto, processVars, poolVars, AdoptInv
<1>13. ASSUME NEW t \in Threads, FreeGPA(t) PROVE AdoptInv'
  BY <1>1, <1>2, <1>3, <1>4, <1>13
  DEF FreeGPA, Goto, processVars, poolVars, AdoptInv
<1>14. ASSUME NEW t \in Threads, SetupHit(t) PROVE AdoptInv'
  BY <1>1, <1>2, <1>3, <1>4, <1>14
  DEF SetupHit, LockFree, Goto, processVars, poolVars, AdoptInv
<1>15. ASSUME NEW t \in Threads, SetupMiss(t) PROVE AdoptInv'
  BY <1>1, <1>2, <1>3, <1>4, <1>15
  DEF SetupMiss, LockFree, Goto, processVars, poolVars, AdoptInv
<1>16. ASSUME NEW t \in Threads, NEW ok \in BOOLEAN, InitializeSymbolTables(t,
             ok)
      PROVE AdoptInv'
  BY <1>1, <1>2, <1>3, <1>4, <1>16
  DEF InitializeSymbolTables, AfterBuild, Goto, processVars, poolVars,
      AdoptInv
<1>17. ASSUME NEW t \in Threads, PublishCommon(t) PROVE AdoptInv'
  BY <1>1, <1>2, <1>3, <1>4, <1>17
  DEF PublishCommon, Goto, processVars, poolVars, AdoptInv
<1>18. ASSUME NEW t \in Threads, PublishShared(t) PROVE AdoptInv'
  BY <1>1, <1>2, <1>3, <1>4, <1>18
  DEF PublishShared, StageLoop, Goto, processVars, poolVars, AdoptInv,
      PublishInv
<1>19. ASSUME NEW t \in Threads, FillShared(t) PROVE AdoptInv'
  BY <1>1, <1>2, <1>3, <1>4, <1>19
  DEF FillShared, Goto, processVars, poolVars, AdoptInv, PublishInv
<1>20. ASSUME NEW t \in Threads, PublishDone(t) PROVE AdoptInv'
  BY <1>1, <1>2, <1>3, <1>4, <1>20
  DEF PublishDone, StageLoop, Goto, processVars, poolVars, AdoptInv
<1>21. ASSUME NEW t \in Threads, Cleanup(t) PROVE AdoptInv'
  BY <1>1, <1>2, <1>3, <1>4, <1>21
  DEF Cleanup, Goto, processVars, poolVars, AdoptInv
<1>22. ASSUME NEW t \in Threads, Lookup(t) PROVE AdoptInv'
  BY <1>1, <1>2, <1>3, <1>4, <1>22
  DEF Lookup, Goto, processVars, poolVars, AdoptInv
<1>23. ASSUME NEW t \in Threads, NEW ok \in BOOLEAN, Parse(t, ok)
      PROVE AdoptInv'
  BY <1>1, <1>2, <1>3, <1>4, <1>23
  DEF Parse, Goto, processVars, poolVars, AdoptInv
<1>24. ASSUME NEW t \in Threads, CompileEnd(t) PROVE AdoptInv'
  BY <1>1, <1>2, <1>3, <1>4, <1>24
  DEF CompileEnd, Goto, processVars, poolVars, AdoptInv
<1>25. QED
  BY <1>5, <1>6, <1>7, <1>8, <1>9, <1>10, <1>11, <1>12, <1>13, <1>14, <1>15,
     <1>16, <1>17, <1>18, <1>19, <1>20, <1>21, <1>22, <1>23, <1>24
  DEF Next, Progress, Initialize, Finalize, Compile

\* Each step of a call allocates from the pool the code selected for it.
LEMMA PoolInvNext == IInv /\ [Next]_vars => PoolInv'
<1> SUFFICES ASSUME IInv, [Next]_vars PROVE PoolInv'
  OBVIOUS
<1>1. TypeOK /\ CoverInv /\ PoolInv
  BY DEF IInv
<1>2. pc \in [Threads -> Steps]
  BY <1>1, ConstantsAssumption DEF TypeOK, ConstantsAssumption
<1>3. threadPool \in [Threads -> Pools] /\ previousAllocator \in [Threads -> Pools] /\ builtInPool \in [Threads -> BOOLEAN] /\ compilerPool \in [Threads -> BOOLEAN] /\ pushes \in [Threads -> Int] /\ cachedTable \in [Threads -> Table]
  BY <1>1, ConstantsAssumption DEF TypeOK, ConstantsAssumption
<1>4. CASE UNCHANGED vars
  BY <1>1, <1>2, <1>3, <1>4, TableKinds, ClassFacts DEF vars, PoolInv
<1>5. ASSUME NEW t \in Threads, NEW c \in Clients, Owner[c] = t,
             ShInitialize(t, c)
      PROVE PoolInv'
  BY <1>1, <1>2, <1>3, <1>5
  DEF ShInitialize, LockFree, Goto, processVars, poolVars, PoolInv
<1>6. ASSUME NEW t \in Threads, NEW c \in Clients, Owner[c] = t,
             MayFinalize(c), ShFinalize(t, c)
      PROVE PoolInv'
  BY <1>1, <1>2, <1>3, <1>6
  DEF ShFinalize, LockFree, TearDown, Goto, processVars, poolVars, PoolInv
<1>7. ASSUME NEW t \in Threads, ShConstructCompiler(t) PROVE PoolInv'
  BY <1>1, <1>2, <1>3, <1>7
  DEF ShConstructCompiler, Goto, processVars, poolVars, PoolInv
<1>8. ASSUME NEW t \in Threads, ShDestruct(t) PROVE PoolInv'
  BY <1>1, <1>2, <1>3, <1>8 DEF ShDestruct, Goto, processVars, poolVars, PoolInv
<1>9. ASSUME NEW t \in Threads, NEW k \in Keys, NEW n \in {0, 1}, NEW s \in
             StagesOf[k], MayCompile(t), ShCompile(t, k, s, n)
      PROVE PoolInv'
  BY <1>1, <1>2, <1>3, <1>9
  DEF ShCompile, Goto, processVars, poolVars, PoolInv, Push
<1>10. ASSUME NEW t \in Threads, FreeShared(t) PROVE PoolInv'
  BY <1>1, <1>2, <1>3, <1>10
  DEF FreeShared, Goto, processVars, poolVars, PoolInv
<1>11. ASSUME NEW t \in Threads, FreeCommon(t) PROVE PoolInv'
  BY <1>1, <1>2, <1>3, <1>11
  DEF FreeCommon, Goto, processVars, poolVars, PoolInv
<1>12. ASSUME NEW t \in Threads, FreeGPA(t) PROVE PoolInv'
  BY <1>1, <1>2, <1>3, <1>12 DEF FreeGPA, Goto, processVars, poolVars, PoolInv
<1>13. ASSUME NEW t \in Threads, SetupHit(t) PROVE PoolInv'
  BY <1>1, <1>2, <1>3, <1>13
  DEF SetupHit, LockFree, Goto, processVars, poolVars, PoolInv
<1>14. ASSUME NEW t \in Threads, SetupMiss(t) PROVE PoolInv'
  BY <1>1, <1>2, <1>3, <1>14
  DEF SetupMiss, LockFree, Goto, processVars, poolVars, PoolInv
<1>15. ASSUME NEW t \in Threads, NEW ok \in BOOLEAN, InitializeSymbolTables(t,
             ok)
      PROVE PoolInv'
  BY <1>1, <1>2, <1>3, <1>15
  DEF InitializeSymbolTables, AfterBuild, Goto, processVars, poolVars,
      PoolInv, CoverInv, ProcessPool
<1>16. ASSUME NEW t \in Threads, PublishCommon(t) PROVE PoolInv'
  BY <1>1, <1>2, <1>3, <1>16
  DEF PublishCommon, Goto, processVars, poolVars, PoolInv
<1>17. ASSUME NEW t \in Threads, PublishShared(t) PROVE PoolInv'
  BY <1>1, <1>2, <1>3, <1>17
  DEF PublishShared, StageLoop, Goto, processVars, poolVars, PoolInv
<1>18. ASSUME NEW t \in Threads, FillShared(t) PROVE PoolInv'
  BY <1>1, <1>2, <1>3, <1>18
  DEF FillShared, Goto, processVars, poolVars, PoolInv
<1>19. ASSUME NEW t \in Threads, PublishDone(t) PROVE PoolInv'
  BY <1>1, <1>2, <1>3, <1>19
  DEF PublishDone, StageLoop, Goto, processVars, poolVars, PoolInv
<1>20. ASSUME NEW t \in Threads, Cleanup(t) PROVE PoolInv'
  BY <1>1, <1>2, <1>3, <1>20
  DEF Cleanup, Goto, processVars, poolVars, PoolInv, SwitchBack
<1>21. ASSUME NEW t \in Threads, Lookup(t) PROVE PoolInv'
  BY <1>1, <1>2, <1>3, <1>21 DEF Lookup, Goto, processVars, poolVars, PoolInv
<1>22. ASSUME NEW t \in Threads, NEW ok \in BOOLEAN, Parse(t, ok) PROVE PoolInv'
  BY <1>1, <1>2, <1>3, <1>22, TableKinds
  DEF Parse, Goto, processVars, poolVars, PoolInv
<1>23. ASSUME NEW t \in Threads, CompileEnd(t) PROVE PoolInv'
  BY <1>1, <1>2, <1>3, <1>23, TableKinds
  DEF CompileEnd, Goto, processVars, poolVars, PoolInv
<1>24. QED
  BY <1>4, <1>5, <1>6, <1>7, <1>8, <1>9, <1>10, <1>11, <1>12, <1>13, <1>14,
     <1>15, <1>16, <1>17, <1>18, <1>19, <1>20, <1>21, <1>22, <1>23
  DEF Next, Progress, Initialize, Finalize, Compile

-------------------------------------------------------------------------------
(* The invariant, and what follows from it. *)

\* The inductive invariant holds initially.
LEMMA IInvInit == Init => IInv
<1> SUFFICES ASSUME Init PROVE IInv
  OBVIOUS
<1>1. TypeOK
  BY TypeInit
<1>2. ClientCountExact
  BY FS_EmptySet DEF Init, ClientCountExact
<1>3. LockInv /\ CoverInv
  BY ConstantsAssumption
  DEF Init, LockInv, LockedSteps, CoverInv, ConstantsAssumption
<1>4. TableInv
  BY DEF Init, TableInv
<1>5. BuiltKeys = {}
  BY DEF Init, BuiltKeys, AlreadyBuilt, Classes
<1>6. PublishInv /\ AdoptInv
  BY <1>5 DEF Init, PublishInv, AdoptInv
<1>7. PoolInv
  BY DEF Init, PoolInv
<1>8. QED
  BY <1>1, <1>2, <1>3, <1>4, <1>6, <1>7 DEF IInv

\* And every step keeps it.
LEMMA IInvNext == IInv /\ [Next]_vars => IInv'
BY TypeNext, ClientCountNext, LockInvNext, CoverInvNext, TableInvNext,
   PublishInvNext, AdoptInvNext, PoolInvNext
DEF IInv

\* The inductive invariant of the process-wide state (SetupBuiltinSymbolTable,
\* ProcessDeferred, ShInitialize, ShFinalize) holds in every behaviour.
THEOREM Invariance == Spec => []IInv
BY IInvInit, IInvNext, PTL DEF Spec

\* Every variable of the process-wide state keeps its type.
THEOREM TypeCorrect == Spec => []TypeOK
<1>1. IInv => TypeOK
  BY DEF IInv
<1>2. QED
  BY <1>1, Invariance, PTL

\* ShInitialize and ShFinalize keep the reference count exact, never negative.
THEOREM ReferenceCount == Spec => []ClientCountExact
<1>1. IInv => ClientCountExact
  BY DEF IInv
<1>2. QED
  BY <1>1, Invariance, PTL

\* The table a compile adopted without the lock is complete, read-only and
\* still the shared one for as long as its parse runs (ProcessDeferred).
THEOREM AdoptedTables == Spec => []AdoptedTableComplete
<1>1. IInv => AdoptedTableComplete
  <2> SUFFICES ASSUME IInv, NEW t \in Threads, pc[t] = "parse"
               PROVE  /\ cachedTable[t] = SharedSymbolTables[job[t][1]][job[t][2]]
                      /\ job[t][2] \in StagesOf[job[t][1]] =>
                           cachedTable[t].filled /\ cachedTable[t].readOnly
    BY DEF AdoptedTableComplete
  <2>1. cachedTable[t] = SharedSymbolTables[job[t][1]][job[t][2]]
    BY DEF IInv, AdoptInv
  <2>2. job[t][1] \in CompleteKeys
    BY DEF IInv, PublishInv
  <2>3. FilledTable.filled /\ FilledTable.readOnly
    BY DEF FilledTable
  <2>4. QED
    BY <2>1, <2>2, <2>3 DEF CompleteKeys
<1>2. QED
  BY <1>1, Invariance, PTL

\* No table, published or adopted, outlives the process pool it lives in
\* (ShFinalize deletes the pool only after every table is gone).
THEOREM TablesLive == Spec => []TablesInLivePool
<1>1. IInv => TablesInLivePool
  <2> SUFFICES ASSUME IInv PROVE TablesInLivePool
    OBVIOUS
  <2>1. FilledTable.gen = PerProcessGPA /\ FreshTable.gen = PerProcessGPA
    BY DEF FilledTable, FreshTable
  <2>2. \A k \in Keys : \A c \in Classes : CommonSymbolTable[k][c] # NoTable =>
          CommonSymbolTable[k][c].gen = PerProcessGPA
    BY <2>1 DEF IInv, TableInv
  <2>3. \A k \in Keys : \A s \in Stages : SharedSymbolTables[k][s] # NoTable =>
          SharedSymbolTables[k][s].gen = PerProcessGPA
    BY <2>1 DEF IInv, TableInv
  <2>4. \A t \in Threads : cachedTable[t] # NoTable =>
          cachedTable[t].gen = PerProcessGPA
<3>1. SUFFICES ASSUME NEW t \in Threads, cachedTable[t] # NoTable
                 PROVE  cachedTable[t].gen = PerProcessGPA
      OBVIOUS
    <3>2. pc[t] = "parse"
      BY <3>1 DEF IInv, PoolInv
    <3>3. cachedTable[t] = SharedSymbolTables[job[t][1]][job[t][2]]
      BY <3>2 DEF IInv, AdoptInv
    <3>4. job[t][1] \in Keys /\ job[t][2] \in Stages
      BY DEF IInv, TypeOK
    <3>5. QED
      BY <2>3, <3>1, <3>3, <3>4
  <2>5. QED
    BY <2>2, <2>3, <2>4 DEF TablesInLivePool
<1>2. QED
  BY <1>1, Invariance, PTL

\* SetupBuiltinSymbolTable builds every stage on a common table that is there.
THEOREM StageBases == Spec => []StageBaseReady
<1>1. IInv => StageBaseReady
  <2> SUFFICES ASSUME IInv, NEW t \in Threads, pc[t] = "shared"
               PROVE  CommonSymbolTable[job[t][1]]
                        [CommonIndex(job[t][1], stageAt[t])].readOnly
    BY DEF StageBaseReady
  <2>1. job[t][1] \in CommonKeys
    BY DEF IInv, PublishInv
  <2>2. CommonIndex(job[t][1], stageAt[t]) \in ClassesOf(job[t][1])
    BY DEF CommonIndex, ClassesOf, Classes
  <2>3. FilledTable.readOnly
    BY DEF FilledTable
  <2>4. QED
    BY <2>1, <2>2, <2>3 DEF CommonKeys
<1>2. QED
  BY <1>1, Invariance, PTL

\* A thread never allocates from a deleted pool, and each compile pops exactly
\* what it pushed (ShCompile, ProcessDeferred, SetupBuiltinSymbolTable).
THEOREM LivePools == Spec => []AllocatesFromLivePool
<1>1. IInv => AllocatesFromLivePool
  <2> SUFFICES ASSUME IInv, NEW t \in Threads
      PROVE /\ pc[t] \notin {"idle", "freeShared", "freeCommon", "freeGPA"} =>
                 PoolExists(t)
            /\ pc[t] \in {"setup", "lookup", "parse", "compiled"} =>
                 threadPool[t] = "compiler" /\ pushes[t] = 1
            /\ pc[t] = "idle" /\ compilerPool[t] => pushes[t] = 0
    BY DEF AllocatesFromLivePool
  <2>1. pc[t] \notin {"idle", "freeShared", "freeCommon", "freeGPA"} =>
          PerProcessGPA # 0
    BY DEF IInv, CoverInv
  <2>2. pc[t] \in Steps
    BY DEF IInv, TypeOK
  <2>3. QED
    BY <2>1, <2>2 DEF IInv, PoolInv, PoolExists, Steps
<1>2. QED
  BY <1>1, Invariance, PTL

\* What SetupBuiltinSymbolTable publishes is allocated from the process pool.
THEOREM PublishPool == Spec => []PublishesIntoProcessPool
<1>1. IInv => PublishesIntoProcessPool
  BY DEF IInv, PoolInv, PublishesIntoProcessPool
<1>2. QED
  BY <1>1, Invariance, PTL

-------------------------------------------------------------------------------
(* What is not published yet, and that publishing is final.                  *)

\* A step that keeps the tables keeps what is unpublished, when no thread
\* starts to publish.
LEMMA UnpublishedKept ==
  ASSUME UnpublishedInv,
         UNCHANGED <<CommonSymbolTable, SharedSymbolTables>>,
         \A u \in Threads : pc'[u] \in {"shared", "fill"} =>
           /\ pc'[u] = pc[u] /\ job'[u] = job[u] /\ stageAt'[u] = stageAt[u]
           /\ PerProcessGPA' = PerProcessGPA,
         \A u \in Threads : pc'[u] = "cleanup" /\ ~success'[u] =>
           /\ job'[u] = job[u]
           /\ pc[u] = "build" \/ (pc[u] = "cleanup" /\ ~success[u]),
         \A u \in Threads : pc[u] = "build" => job[u][1] \notin BuiltKeys
  PROVE  UnpublishedInv'
<1>1. BuiltKeys' = BuiltKeys
  BY TableKinds DEF BuiltKeys, AlreadyBuilt
<1>2. PerProcessGPA' = PerProcessGPA => FreshTable' = FreshTable
  BY DEF FreshTable
<1> QED BY <1>1, <1>2, TableKinds DEF UnpublishedInv

\* Only the thread that publishes a key's tables changes them.
LEMMA UnpublishedNext == IInv /\ UnpublishedInv /\ [Next]_vars => UnpublishedInv'
<1> SUFFICES ASSUME IInv, UnpublishedInv, [Next]_vars PROVE UnpublishedInv'
  OBVIOUS
<1>1. TypeOK /\ LockInv /\ CoverInv /\ TableInv /\ PublishInv
  BY DEF IInv
<1>2. /\ pc \in [Threads -> Steps] /\ NoThread \notin Threads /\ NumStages \in Nat
      /\ job \in [Threads -> Keys \X Stages] /\ stageAt \in [Threads -> 1 .. NumStages + 1]
      /\ success \in [Threads -> BOOLEAN]
      /\ CommonSymbolTable \in [Keys -> [Classes -> Table]]
      /\ SharedSymbolTables \in [Keys -> [Stages -> Table]]
  BY <1>1, ConstantsAssumption DEF TypeOK, ConstantsAssumption
<1>3. \A u \in Threads : pc[u] = "build" => job[u][1] \notin BuiltKeys
  BY <1>1 DEF PublishInv
<1>4. CASE UNCHANGED vars
  BY <1>3, <1>4, UnpublishedKept DEF vars
<1>5. ASSUME NEW t \in Threads, NEW c \in Clients, ShInitialize(t, c)
      PROVE  UnpublishedInv'
  <2>1. \A u \in Threads : pc[u] \notin LockedSteps
    BY <1>1, <1>2, <1>5 DEF ShInitialize, LockFree, LockInv
  <2> QED BY <1>3, <1>5, <2>1, UnpublishedKept DEF ShInitialize, LockedSteps
<1>6. ASSUME NEW t \in Threads, NEW c \in Clients, ShFinalize(t, c)
      PROVE  UnpublishedInv'
  BY <1>2, <1>3, <1>6, UnpublishedKept DEF ShFinalize, Goto
<1>7. ASSUME NEW t \in Threads,
             ShConstructCompiler(t) \/ ShDestruct(t)
               \/ SetupHit(t) \/ SetupMiss(t) \/ Cleanup(t) \/ Lookup(t) \/ CompileEnd(t)
      PROVE  UnpublishedInv'
  <2>1. UNCHANGED <<CommonSymbolTable, SharedSymbolTables, PerProcessGPA, job, stageAt, success>>
    BY <1>7
    DEF ShConstructCompiler, ShDestruct, SetupHit, SetupMiss, Cleanup, Lookup, CompileEnd, processVars
  <2>2. \A u \in Threads : pc'[u] = pc[u] \/ pc'[u] \notin {"shared", "fill", "cleanup"}
    BY <1>2, <1>7
    DEF ShConstructCompiler, ShDestruct, SetupHit, SetupMiss, Cleanup, Lookup, CompileEnd, Goto
  <2> QED BY <1>3, <2>1, <2>2, UnpublishedKept
<1>8. ASSUME NEW t \in Threads, NEW k \in Keys, NEW n \in {0, 1}, NEW s \in StagesOf[k],
             ShCompile(t, k, s, n)
      PROVE  UnpublishedInv'
  BY <1>2, <1>3, <1>8, UnpublishedKept DEF ShCompile, Goto, processVars
<1>9. ASSUME NEW t \in Threads, NEW ok \in BOOLEAN,
             InitializeSymbolTables(t, ok) \/ Parse(t, ok)
      PROVE  UnpublishedInv'
  <2>1. UNCHANGED <<CommonSymbolTable, SharedSymbolTables, PerProcessGPA, job, stageAt>>
    BY <1>9 DEF InitializeSymbolTables, Parse, processVars
  <2>2. \A u \in Threads \ {t} : pc'[u] = pc[u] /\ success'[u] = success[u]
    BY <1>2, <1>9 DEF InitializeSymbolTables, Parse, Goto
  <2>3. /\ pc'[t] \notin {"shared", "fill"} /\ (pc[t] = "parse" => pc'[t] = "compiled")
        /\ pc[t] \in {"build", "parse"}
    BY <1>2, <1>9 DEF InitializeSymbolTables, Parse, Goto, AfterBuild
  <2> QED BY <1>3, <2>1, <2>2, <2>3, UnpublishedKept
<1>10. ASSUME NEW t \in Threads, PublishDone(t) PROVE UnpublishedInv'
  <2>1. success[t]
    BY <1>1, <1>10 DEF PublishInv, PublishDone
  <2> QED BY <1>2, <1>3, <1>10, <2>1, UnpublishedKept DEF PublishDone, Goto, processVars
<1>11. ASSUME NEW t \in Threads, FreeGPA(t) PROVE UnpublishedInv'
  <2>1. \A u \in Threads \ {t} : pc[u] \notin LockedSteps
    BY <1>1, <1>2, <1>11 DEF FreeGPA, LockInv, LockedSteps
  <2> QED BY <1>2, <1>3, <1>11, <2>1, UnpublishedKept DEF FreeGPA, Goto, LockedSteps
<1>12. ASSUME NEW t \in Threads, FreeShared(t) \/ FreeCommon(t) PROVE UnpublishedInv'
  <2>1. \A u \in Threads \ {t} : pc[u] \notin LockedSteps
    BY <1>1, <1>2, <1>12 DEF FreeShared, FreeCommon, LockInv, LockedSteps
  <2>2. \A k \in Keys : \A s \in Stages : SharedSymbolTables'[k][s] = NoTable
    BY <1>1, <1>12 DEF FreeShared, FreeCommon, TableInv
  <2>3. \A u \in Threads : pc'[u] \notin {"shared", "fill", "cleanup"}
    BY <1>2, <1>12, <2>1 DEF FreeShared, FreeCommon, Goto, LockedSteps
  <2> QED BY <2>2, <2>3, TableKinds DEF UnpublishedInv
<1>13. ASSUME NEW t \in Threads, PublishCommon(t) PROVE UnpublishedInv'
  <2> DEFINE k == job[t][1]
  <2>1. \A u \in Threads \ {t} : pc'[u] \notin LockedSteps
    BY <1>1, <1>2, <1>13 DEF PublishCommon, Goto, LockInv, LockedSteps
  <2>2. k \in Keys /\ k \notin BuiltKeys
    BY <1>1, <1>2, <1>13 DEF PublishInv, PublishCommon
  <2>3. \A s \in Stages : SharedSymbolTables[k][s] = NoTable
    BY <2>2 DEF UnpublishedInv
  <2>4. \A j \in Keys \ BuiltKeys' : j \notin BuiltKeys
    BY <1>2, <1>13, <2>2, BuiltIff, TableKinds DEF PublishCommon, BuiltKeys, AlreadyBuilt
  <2>5. pc'[t] = "shared" /\ UNCHANGED <<SharedSymbolTables, job>>
    BY <1>2, <1>13 DEF PublishCommon, Goto
  <2> QED BY <2>1, <2>3, <2>4, <2>5, TableKinds DEF UnpublishedInv, LockedSteps
<1>14. ASSUME NEW t \in Threads, PublishShared(t) \/ FillShared(t) PROVE UnpublishedInv'
  <2> DEFINE k == job[t][1]
             s == stageAt[t]
  <2>1. \A u \in Threads \ {t} : pc'[u] \notin LockedSteps
    BY <1>1, <1>2, <1>14 DEF PublishShared, FillShared, Goto, LockInv, LockedSteps
  <2>2. k \in Keys /\ s \in Stages /\ k \in BuiltKeys
    <3>1. k \in Keys
      BY <1>2
    <3>2. s \in Stages
      BY <1>1, <1>2, <1>14, <3>1, ConstantsAssumption
      DEF PublishShared, StageLoop, FillShared, PublishInv, ConstantsAssumption
    <3>3. k \in CommonKeys
      BY <1>1, <1>14 DEF PublishShared, FillShared, PublishInv
    <3>4. CommonSymbolTable[k]["EPcGeneral"] = FilledTable
      BY <3>1, <3>3, ClassFacts DEF CommonKeys
    <3> QED BY <3>1, <3>2, <3>4, TableKinds DEF BuiltKeys, AlreadyBuilt
  <2>3. /\ UNCHANGED <<CommonSymbolTable, job, PerProcessGPA>> /\ BuiltKeys' = BuiltKeys
        /\ FreshTable' = FreshTable
    <3>1. UNCHANGED <<CommonSymbolTable, job, PerProcessGPA>>
      BY <1>14 DEF PublishShared, FillShared
    <3> QED BY <3>1, TableKinds DEF BuiltKeys, AlreadyBuilt
  <2>4. /\ \A j \in Keys \ {k} : SharedSymbolTables'[j] = SharedSymbolTables[j]
        /\ \A r \in Stages \ {s} : SharedSymbolTables'[k][r] = SharedSymbolTables[k][r]
    BY <1>2, <1>14, <2>2 DEF PublishShared, FillShared
  <2>5. \/ pc'[t] = "fill" /\ stageAt'[t] = s /\ SharedSymbolTables'[k][s] = FreshTable
        \/ pc'[t] = "shared" /\ stageAt'[t] = s + 1
    <3>1. CASE FillShared(t)
      BY <1>2, <3>1 DEF FillShared, Goto
    <3>2. CASE PublishShared(t) /\ s \in StagesOf[k]
      BY <1>2, <2>2, <3>2 DEF PublishShared, Goto
    <3>3. CASE PublishShared(t) /\ s \notin StagesOf[k]
      BY <1>2, <2>2, <3>3 DEF PublishShared
    <3> QED BY <1>14, <3>1, <3>2, <3>3
  <2>6. \A r \in Stages : r < s \/ r = s \/ SharedSymbolTables[k][r] = NoTable
    <3>1. pc[t] \in {"shared", "fill"}
      BY <1>14 DEF PublishShared, FillShared
    <3> QED BY <3>1 DEF UnpublishedInv
  <2>7. \A r \in Stages : \/ r < stageAt'[t]
                          \/ SharedSymbolTables'[k][r] = NoTable
                          \/ pc'[t] = "fill" /\ r = stageAt'[t] /\ SharedSymbolTables'[k][r] = FreshTable
    <3>1. s \in Int /\ Stages \subseteq Int
      BY <2>2 DEF Stages
    <3> TAKE r \in Stages
    <3>2. CASE r = s
      BY <2>5, <3>1, <3>2
    <3>3. CASE r < s
      BY <2>5, <3>1, <3>3
    <3>4. CASE r # s /\ ~(r < s)
      BY <2>4, <2>6, <3>4
    <3> QED BY <3>2, <3>3, <3>4
  <2>8. \A j \in Keys \ BuiltKeys' : \A r \in Stages : SharedSymbolTables'[j][r] = NoTable
    BY <2>2, <2>3, <2>4 DEF UnpublishedInv
  <2>9. pc'[t] # "cleanup"
    BY <2>5
  <2> QED BY <2>1, <2>3, <2>7, <2>8, <2>9, TableKinds DEF UnpublishedInv, LockedSteps
<1> QED
  BY <1>4, <1>5, <1>6, <1>7, <1>8, <1>9, <1>10, <1>11, <1>12, <1>13, <1>14
  DEF Next, Progress, Initialize, Finalize, Compile

\* It holds in every behaviour.
LEMMA UnpublishedInvariance == Spec => []UnpublishedInv
<1>1. Init => UnpublishedInv
  BY DEF Init, UnpublishedInv
<1> QED BY <1>1, Invariance, UnpublishedNext, PTL DEF Spec

\* What a step may do to a published table.
FinalStep ==
  /\ \A k \in Keys : \A c \in Classes :
       CommonSymbolTable[k][c].readOnly =>
         CommonSymbolTable'[k][c] \in {CommonSymbolTable[k][c], NoTable}
  /\ \A k \in Keys : \A s \in Stages :
       SharedSymbolTables[k][s].readOnly =>
         SharedSymbolTables'[k][s] \in {SharedSymbolTables[k][s], NoTable}

\* A step that writes a table finds it unpublished, or as it leaves it.
LEMMA FinalNext == IInv /\ UnpublishedInv /\ [Next]_vars => FinalStep
<1> SUFFICES ASSUME IInv, UnpublishedInv, [Next]_vars PROVE FinalStep
  OBVIOUS
<1>1. /\ job \in [Threads -> Keys \X Stages] /\ stageAt \in [Threads -> 1 .. NumStages + 1]
      /\ CommonSymbolTable \in [Keys -> [Classes -> Table]]
      /\ SharedSymbolTables \in [Keys -> [Stages -> Table]]
  BY DEF IInv, TypeOK
<1>2. ~NoTable.readOnly /\ ~FreshTable.readOnly
  BY DEF NoTable, FreshTable
<1>3. CASE UNCHANGED <<CommonSymbolTable, SharedSymbolTables>>
  BY <1>3 DEF FinalStep
<1>4. ASSUME NEW t \in Threads, FreeShared(t) \/ FreeCommon(t) PROVE FinalStep
  <2>1. \A k \in Keys : \A c \in Classes :
          CommonSymbolTable'[k][c] \in {CommonSymbolTable[k][c], NoTable}
    BY <1>4 DEF FreeShared, FreeCommon
  <2>2. \A k \in Keys : \A s \in Stages :
          SharedSymbolTables'[k][s] \in {SharedSymbolTables[k][s], NoTable}
    BY <1>4 DEF FreeShared, FreeCommon
  <2> QED BY <2>1, <2>2 DEF FinalStep
<1>5. ASSUME NEW t \in Threads, PublishCommon(t) PROVE FinalStep
  <2>1. \A k \in Keys : \A c \in Classes :
          CommonSymbolTable'[k][c] \in {CommonSymbolTable[k][c], FilledTable}
    BY <1>1, <1>5 DEF PublishCommon
  <2>2. \A k \in Keys : \A c \in Classes : CommonSymbolTable[k][c] \in {NoTable, FilledTable}
    BY DEF IInv, TableInv
  <2>3. SharedSymbolTables' = SharedSymbolTables
    BY <1>5 DEF PublishCommon
  <2> QED BY <1>2, <2>1, <2>2, <2>3 DEF FinalStep
<1>6. ASSUME NEW t \in Threads, PublishShared(t) \/ FillShared(t) PROVE FinalStep
  <2> DEFINE j == job[t][1]
             r == stageAt[t]
  <2>1. j \in Keys /\ pc[t] \in {"shared", "fill"}
    BY <1>1, <1>6 DEF PublishShared, FillShared
  <2>2. \A s \in Stages : s = r => ~SharedSymbolTables[j][s].readOnly
    <3> SUFFICES ASSUME NEW s \in Stages, s = r PROVE ~SharedSymbolTables[j][s].readOnly
      OBVIOUS
    <3>1. ~(s < r)
      BY DEF Stages
    <3>2. SharedSymbolTables[j][s] \in {NoTable, FreshTable}
      BY <2>1, <3>1 DEF UnpublishedInv
    <3> QED BY <1>2, <3>2
  <2>3. \A k \in Keys : \A s \in Stages :
          (k = j /\ s = r) \/ SharedSymbolTables'[k][s] = SharedSymbolTables[k][s]
    BY <1>1, <1>6, <2>1 DEF PublishShared, FillShared
  <2>4. CommonSymbolTable' = CommonSymbolTable
    BY <1>6 DEF PublishShared, FillShared
  <2> QED BY <2>2, <2>3, <2>4 DEF FinalStep
<1> QED
  BY <1>3, <1>4, <1>5, <1>6
  DEF Next, Progress, Initialize, Finalize, Compile, vars, processVars,
      ShInitialize, ShFinalize, FreeGPA, ShConstructCompiler, ShDestruct, ShCompile,
      SetupHit, SetupMiss, InitializeSymbolTables, PublishDone, Cleanup, Lookup, Parse, CompileEnd

\* Once read-only, a shared table is never written by a later setup; it only
\* disappears with the last ShFinalize (SetupBuiltinSymbolTable, ShFinalize).
THEOREM ReadOnlyTablesFinal == Spec => ReadOnlyIsFinal
<1>1. IInv /\ UnpublishedInv /\ [Next]_vars => [FinalStep]_vars
  BY FinalNext
<1> QED BY <1>1, Invariance, UnpublishedInvariance, PTL DEF Spec, ReadOnlyIsFinal, FinalStep

-------------------------------------------------------------------------------
(* The tables are a reference-counted cache. *)

PublishSteps == {"shared", "fill", "cleanup"}
ServedSteps == {"lookup", "parse"}

\* The cache holds the keys that look built and are not being published.
LEMMA BuiltIs ==
  \A k : k \in Built <=>
    k \in BuiltKeys /\ \A t \in Threads : pc[t] \in PublishSteps => job[t][1] # k
BY DEF Built, BuiltKeys, AlreadyBuilt, PublishSteps

\* A thread between setup and the end of its parse is served its key.
LEMMA ServingIs ==
  /\ DOMAIN Serving = Threads
  /\ \A t \in Threads : Serving[t] = IF pc[t] \in ServedSteps THEN {job[t][1]} ELSE {}
BY DEF Serving, ServedSteps

\* Who is served what changes only when a served thread comes or goes.
LEMMA ServingSame ==
  ASSUME \A t \in Threads : IF pc[t] \in ServedSteps
           THEN pc'[t] \in ServedSteps /\ job'[t] = job[t] ELSE pc'[t] \notin ServedSteps
  PROVE  Serving' = Serving
BY DEF Serving, ServedSteps

\* So does what the cache holds, when no thread starts or stops publishing.
LEMMA BuiltSame ==
  ASSUME CommonSymbolTable' = CommonSymbolTable,
         \A t \in Threads : IF pc[t] \in PublishSteps
           THEN pc'[t] \in PublishSteps /\ job'[t] = job[t]
           ELSE pc'[t] \in PublishSteps => job'[t] = job[t] /\ job[t][1] \notin BuiltKeys
  PROVE  Built' = Built
<1>1. BuiltKeys' = BuiltKeys
  BY TableKinds DEF BuiltKeys, AlreadyBuilt
<1>2. \A k : k \in Built' <=>
    k \in BuiltKeys' /\ \A t \in Threads : pc'[t] \in PublishSteps => job'[t][1] # k
  BY TableKinds DEF Built, BuiltKeys, AlreadyBuilt, PublishSteps
<1> QED BY <1>1, <1>2, BuiltIs

\* Steps that neither the cache nor those it serves can tell.
LEMMA CacheStutters ==
  ASSUME UNCHANGED <<CommonSymbolTable, holders>>, 
         NEW t \in Threads, UNCHANGED job, 
         \A u \in Threads \ {t} : pc'[u] = pc[u],
         pc[t] \in ServedSteps <=> pc'[t] \in ServedSteps,
         pc[t] \in PublishSteps => pc'[t] \in PublishSteps,
         pc'[t] \in PublishSteps => pc[t] \in PublishSteps \/ job[t][1] \notin BuiltKeys
  PROVE  UNCHANGED <<holders, Built, Serving>>
BY ServingSame, BuiltSame

\* Every step is a step of the cache or none.
LEMMA CacheStep ==
  IInv /\ IInv' /\ UnpublishedInv /\ [Next]_vars => [Cache!Next]_<<holders, Built, Serving>>
<1> SUFFICES ASSUME IInv, IInv', UnpublishedInv, [Next]_vars
             PROVE  [Cache!Next]_<<holders, Built, Serving>>
  OBVIOUS
<1> DEFINE Same == UNCHANGED <<holders, Built, Serving>>
<1>1. TypeOK /\ LockInv /\ CoverInv /\ TableInv /\ PublishInv
  BY DEF IInv
<1>2. /\ pc \in [Threads -> Steps] /\ NoThread \notin Threads
      /\ job \in [Threads -> Keys \X Stages]
      /\ CommonSymbolTable \in [Keys -> [Classes -> Table]]
  BY <1>1, ConstantsAssumption DEF TypeOK, ConstantsAssumption
<1>3. CASE UNCHANGED vars
  BY <1>3, TableKinds DEF vars, Built, Serving
<1>4. ASSUME NEW t \in Threads, NEW c \in Clients, ShInitialize(t, c)
      PROVE  Cache!Next
  <2>1. UNCHANGED <<Built, Serving>>
    BY <1>4, TableKinds DEF ShInitialize, Built, Serving
  <2> QED BY <1>4, <2>1 DEF ShInitialize, Cache!Next, Cache!Acquire
<1>5. ASSUME NEW t \in Threads, NEW c \in Clients, MayFinalize(c), ShFinalize(t, c)
      PROVE  Cache!Next
  <2>1. /\ c \in holders /\ holders' = holders \ {c} /\ UNCHANGED <<CommonSymbolTable, job>>
        /\ \A u \in Threads \ {t} : pc'[u] = pc[u]
        /\ pc[t] = "idle" /\ pc'[t] \in {"idle", "freeShared"}
    BY <1>2, <1>5 DEF ShFinalize, Goto
  <2>2. UNCHANGED <<Built, Serving>>
    BY <2>1, ServingSame, BuiltSame DEF ServedSteps, PublishSteps
  <2>3. ASSUME holders' = {}, NEW u \in Threads PROVE Serving[u] = {}
    <3>1. pc'[u] \notin ServedSteps
      BY <2>3 DEF IInv, CoverInv, ServedSteps
    <3>2. pc[u] \notin ServedSteps
      BY <2>1, <3>1 DEF ServedSteps
    <3> QED BY <3>2, ServingIs
  <2> QED BY <2>1, <2>2, <2>3 DEF Cache!Next, Cache!Release
<1>6. ASSUME NEW t \in Threads,
             ShConstructCompiler(t) \/ ShDestruct(t) \/ SetupMiss(t) \/ PublishShared(t)
               \/ FillShared(t) \/ PublishDone(t) \/ Lookup(t) \/ CompileEnd(t)
               \/ FreeShared(t) \/ FreeGPA(t)
      PROVE  Same
  <2>1. UNCHANGED <<CommonSymbolTable, holders, job>>
    BY <1>6
    DEF ShConstructCompiler, ShDestruct, SetupMiss, PublishShared, FillShared, PublishDone,
        Lookup, CompileEnd, FreeShared, FreeGPA, processVars
  <2>2. \A u \in Threads \ {t} : pc'[u] = pc[u]
    BY <1>2, <1>6
    DEF ShConstructCompiler, ShDestruct, SetupMiss, PublishShared, FillShared, PublishDone,
        Lookup, CompileEnd, FreeShared, FreeGPA, Goto
  <2>3. \/ pc'[t] = pc[t]
        \/ pc[t] \in ServedSteps /\ pc'[t] \in ServedSteps
        \/ pc[t] \in PublishSteps /\ pc'[t] \in PublishSteps
        \/ pc[t] \notin ServedSteps \union PublishSteps /\ pc'[t] \notin ServedSteps \union PublishSteps
    BY <1>2, <1>6
    DEF ShConstructCompiler, ShDestruct, SetupMiss, PublishShared, FillShared, PublishDone,
        Lookup, CompileEnd, FreeShared, FreeGPA, Goto, ServedSteps, PublishSteps
  <2>4. ServedSteps \intersect PublishSteps = {}
    BY DEF ServedSteps, PublishSteps
  <2> QED BY <2>1, <2>2, <2>3, <2>4, CacheStutters
<1>7. ASSUME NEW t \in Threads, NEW ok \in BOOLEAN, InitializeSymbolTables(t, ok)
      PROVE  Same
  <2>1. /\ UNCHANGED <<CommonSymbolTable, holders, job>>
        /\ \A u \in Threads \ {t} : pc'[u] = pc[u]
        /\ pc[t] = "build" /\ pc'[t] \in {"common", "cleanup"}
    BY <1>2, <1>7 DEF InitializeSymbolTables, Goto, AfterBuild, processVars
  <2>2. job[t][1] \notin BuiltKeys
    BY <1>1, <2>1 DEF PublishInv
  <2> QED BY <2>1, <2>2, CacheStutters DEF ServedSteps, PublishSteps
<1>8. ASSUME NEW t \in Threads, NEW k \in Keys, NEW n \in {0, 1}, NEW s \in StagesOf[k],
             ShCompile(t, k, s, n)
      PROVE  Same
  <2>1. /\ UNCHANGED <<CommonSymbolTable, holders>>
        /\ \A u \in Threads \ {t} : pc'[u] = pc[u] /\ job'[u] = job[u]
        /\ pc[t] = "idle" /\ pc'[t] \in {"compiled", "setup"}
    BY <1>2, <1>8 DEF ShCompile, Goto, processVars
  <2> QED BY <2>1, ServingSame, BuiltSame DEF ServedSteps, PublishSteps
<1>9. ASSUME NEW t \in Threads, FreeCommon(t) PROVE Cache!Next
  <2>1. holders = {} /\ \A u \in Threads : pc[u] \notin ServedSteps
    BY <1>1, <1>9 DEF FreeCommon, CoverInv, ServedSteps
  <2>2. \A u \in Threads : pc'[u] \notin ServedSteps
    BY <1>2, <1>9, <2>1 DEF FreeCommon, Goto, ServedSteps
  <2>3. Serving' = Serving /\ \A u \in Threads : Serving[u] = {}
    BY <2>1, <2>2, ServingSame, ServingIs
  <2>4. Built' = {}
    BY <1>9, TableKinds DEF FreeCommon, Built, Classes
  <2>5. holders' = holders
    BY <1>9 DEF FreeCommon
  <2> QED BY <2>1, <2>3, <2>4, <2>5 DEF Cache!Next, Cache!Drop
<1>10. ASSUME NEW t \in Threads, PublishCommon(t) PROVE Same
  <2>1. \A u \in Threads \ {t} : pc[u] \notin LockedSteps /\ pc'[u] = pc[u]
    BY <1>1, <1>2, <1>10 DEF PublishCommon, Goto, LockInv, LockedSteps
  <2>2. /\ UNCHANGED <<holders, job>> /\ pc[t] = "common" /\ pc'[t] = "shared"
        /\ \A k \in Keys \ {job[t][1]} : CommonSymbolTable'[k] = CommonSymbolTable[k]
    BY <1>2, <1>10 DEF PublishCommon, Goto
  <2>3. job[t][1] \notin BuiltKeys
    BY <1>1, <2>2 DEF PublishInv
  <2>4. Serving' = Serving
    BY <2>1, <2>2, ServingSame DEF ServedSteps
  <2>5. job[t][1] \notin Built
    BY <2>3, BuiltIs
  <2>6. job[t][1] \notin Built'
    BY <2>2 DEF Built
  <2>7. \A k \in Keys \ {job[t][1]} : k \in Built' <=> k \in Built
    BY <2>1, <2>2, TableKinds DEF Built, LockedSteps
  <2> QED BY <2>2, <2>4, <2>5, <2>6, <2>7 DEF Built
<1>11. ASSUME NEW t \in Threads, NEW ok \in BOOLEAN, Parse(t, ok) PROVE Cache!Next
  <2>1. /\ UNCHANGED <<CommonSymbolTable, holders, job>>
        /\ \A u \in Threads \ {t} : pc'[u] = pc[u]
        /\ pc[t] = "parse" /\ pc'[t] = "compiled"
    BY <1>2, <1>11 DEF Parse, Goto, processVars
  <2>2. Built' = Built
    BY <2>1, BuiltSame DEF PublishSteps
  <2>3. Serving[t] # {}
    BY <2>1, ServingIs DEF ServedSteps
  <2>4. Serving' = [Serving EXCEPT ![t] = {}]
    BY <2>1 DEF Serving
  <2> QED BY <2>1, <2>2, <2>3, <2>4 DEF Cache!Next, Cache!Leave
\* The cache serves a key: it was built before, or this thread has built it.
<1>12. ASSUME NEW t \in Threads, SetupHit(t) \/ (Cleanup(t) /\ success[t]) PROVE Cache!Next
  <2> DEFINE k == job[t][1]
  <2>1. /\ UNCHANGED <<CommonSymbolTable, holders, job>>
        /\ \A u \in Threads \ {t} : pc'[u] = pc[u]
        /\ pc[t] \in {"setup", "cleanup"} /\ pc'[t] = "lookup"
    BY <1>2, <1>12 DEF SetupHit, Cleanup, Goto, processVars
  <2>2. \A u \in Threads \ {t} : pc[u] \notin LockedSteps
    BY <1>1, <1>2, <1>12 DEF SetupHit, Cleanup, LockFree, LockInv, LockedSteps
  <2>3. holders # {} /\ Serving[t] = {} /\ k \in Keys
    BY <1>1, <1>2, <2>1, ServingIs DEF CoverInv, ServedSteps
  <2>4. k \in BuiltKeys
    BY <1>1, <1>12, <2>3, BuiltIff, CompleteBuilt DEF SetupHit, Cleanup, PublishInv
  <2>5. Built' = Built \union {k}
    <3>1. \A u \in Threads : pc'[u] \notin PublishSteps
      BY <2>1, <2>2 DEF LockedSteps, PublishSteps
    <3>2. \A j : j \in Built' <=> j \in BuiltKeys
      BY <2>1, <3>1, TableKinds DEF Built, BuiltKeys, AlreadyBuilt, PublishSteps
    <3>3. \A j \in BuiltKeys : j \in Built \/ j = k
      BY <2>2, BuiltIs DEF LockedSteps, PublishSteps
    <3> QED BY <2>4, <3>2, <3>3, BuiltIs
  <2>6. Serving' = [Serving EXCEPT ![t] = {k}]
    BY <2>1 DEF Serving
  <2> HIDE DEF k
  <2> QED BY <2>1, <2>3, <2>5, <2>6 DEF Cache!Next, Cache!Serve
<1>13. ASSUME NEW t \in Threads, Cleanup(t), ~success[t] PROVE Same
  <2>1. /\ UNCHANGED <<CommonSymbolTable, holders, job>>
        /\ \A u \in Threads \ {t} : pc'[u] = pc[u]
        /\ pc[t] = "cleanup" /\ pc'[t] = "compiled"
    BY <1>2, <1>13 DEF Cleanup, Goto
  <2>2. job[t][1] \notin BuiltKeys
    BY <1>13, <2>1 DEF UnpublishedInv
  <2>3. Serving' = Serving
    BY <2>1, ServingSame DEF ServedSteps
  <2>4. BuiltKeys' = BuiltKeys
    BY <2>1, TableKinds DEF BuiltKeys, AlreadyBuilt
  <2>5. \A j : j \in Built' <=>
          j \in BuiltKeys /\ \A u \in Threads : pc'[u] \in PublishSteps => job[u][1] # j
    BY <2>1, <2>4, TableKinds DEF Built, BuiltKeys, AlreadyBuilt, PublishSteps
  <2>6. \A j : j \in Built' <=> j \in Built
    <3> TAKE j
    <3>1. CASE j = job[t][1]
      BY <2>2, <2>5, <3>1, BuiltIs
    <3>2. CASE j # job[t][1]
      BY <2>1, <2>5, <3>2, BuiltIs DEF PublishSteps
    <3> QED BY <3>1, <3>2
  <2>7. Built' = Built
    BY <2>6
  <2> QED BY <2>1, <2>3, <2>7
<1> QED
  BY <1>3, <1>4, <1>5, <1>6, <1>7, <1>8, <1>9, <1>10, <1>11, <1>12, <1>13
  DEF Next, Progress, Initialize, Finalize, Compile

\* SetupBuiltinSymbolTable and ShFinalize together are a reference-counted
\* cache: a key's tables appear complete, a compile is served only a key that
\* is there, and tables go only when the last client has, with nobody served.
THEOREM TablesAreCache == Spec => CacheSpec
<1>1. Init => Cache!Init
  BY DEF Init, Cache!Init, Built, Serving, Classes
<1> QED
  BY <1>1, Invariance, UnpublishedInvariance, CacheStep, PTL
  DEF Spec, CacheSpec, Cache!Spec, Cache!vars

-----------------------------------------------------------------------------

(***************************************************************************)
(* What the driver's steps do to the process.                              *)
(***************************************************************************)

\* The reference main takes first is the one that covers every compile.
LEMMA FirstIs ==
  /\ Sponsor[Main] \in Clients /\ FirstRef(Sponsor[Main])
  /\ \A c : FirstRef(c) => c = Sponsor[Main]
  /\ \A c : ExtraRef(c) => c # Sponsor[Main] /\ Owner[c] = Main
  /\ \A t \in Threads : Sponsor[t] = Sponsor[Main]
BY ConstantsAssumption, DriverAssumption, DriverShape
DEF ConstantsAssumption, DriverAssumption, DriverShape, FirstRef, ExtraRef

\* Inside the API a thread touches no reference and no other thread.
LEMMA ProgressFacts ==
  ASSUME TypeOK, NEW t \in Threads, Progress(t)
  PROVE  /\ holders' = holders /\ pc[t] # "idle"
         /\ \A u \in Threads \ {t} : pc'[u] = pc[u] /\ success'[u] = success[u]
BY DEF TypeOK, Progress, Goto, processVars, FreeShared, FreeCommon, FreeGPA,
       SetupHit, SetupMiss, InitializeSymbolTables, PublishCommon, PublishShared,
       FillShared, PublishDone, Cleanup, Lookup, Parse, CompileEnd

\* Every step of the driver is one that the contract at ShaderLang.h allows.
LEMMA DriverStepIsStep == DriverIInv /\ [DriverNext]_allVars => [Next]_vars
<1> SUFFICES ASSUME DriverIInv, [DriverNext]_allVars PROVE [Next]_vars
  OBVIOUS
<1>1. DriverTypeOK /\ IInv /\ MainHolds /\ WorkersRun /\ FilesInPlace /\ Main \in Threads
  BY DriverAssumption DEF DriverIInv, DriverAssumption
<1>2. CASE UNCHANGED vars
  BY <1>2
<1>3. CASE MainInitialize
  <2>1. PICK c \in Clients : Owner[c] = Main /\ ShInitialize(Main, c)
    BY <1>3 DEF MainInitialize, FirstRef, ExtraRef
  <2>2. Initialize(Main)
    BY <2>1 DEF Initialize
  <2> QED BY <1>1, <2>2 DEF Next
<1>4. CASE MainFinalize
  <2>1. PICK c \in Clients :
          /\ ShFinalize(Main, c)
          /\ \/ mainPc = "finalize" /\ ExtraRef(c)
             \/ mainPc = "lastFinalize" /\ FirstRef(c)
    BY <1>4 DEF MainFinalize
  <2>2. MayFinalize(c)
    <3>1. CASE mainPc = "finalize" /\ ExtraRef(c)
      BY <3>1, FirstIs DEF MayFinalize
    <3>2. CASE mainPc = "lastFinalize"
      BY <1>1, <3>2 DEF MayFinalize, WorkersRun
    <3> QED BY <2>1, <3>1, <3>2
  <2>3. Owner[c] = Main
    BY <2>1 DEF FirstRef, ExtraRef
  <2>4. Finalize(Main)
    BY <2>1, <2>2, <2>3 DEF Finalize
  <2> QED BY <1>1, <2>4 DEF Next
<1>5. CASE MainTeardown
  BY <1>1, <1>5 DEF MainTeardown, Next, Progress
<1>6. ASSUME NEW t \in Threads, Construct(t) \/ Destruct(t) \/ InCompile(t) PROVE Next
  BY <1>6 DEF Construct, Destruct, InCompile, Next
<1>7. ASSUME NEW t \in Threads, CallCompile(t) PROVE Next
  <2> DEFINE i == workItem[t]
  <2>1. i \in ItemSet
    <3>1. workerPc[t] = "compile"
      BY <1>7 DEF CallCompile
    <3>2. workItem[t] # NoItem
      BY <1>1, <3>1 DEF FilesInPlace
    <3> QED BY <1>1, <3>2 DEF DriverTypeOK
  <2>2. mainPc = "join"
    BY <1>1, <1>7 DEF CallCompile, DriverTypeOK, WorkersRun, MainSteps
  <2>3. MayCompile(t)
    BY <1>1, <2>2, FirstIs DEF MayCompile, MainHolds
  <2>4. JobOf[i][1] \in Keys /\ JobOf[i][2] \in StagesOf[JobOf[i][1]]
    BY <2>1, DriverAssumption DEF DriverAssumption
  <2>5. Compile(t)
    BY <1>7, <2>3, <2>4 DEF Compile, CallCompile
  <2> QED BY <2>5 DEF Next
<1> QED
  BY <1>2, <1>3, <1>4, <1>5, <1>6, <1>7
  DEF DriverNext, MainStep, WorkerStep, allVars, AddItems, Spawn, Join, PrintLogs, Exit,
      Remove, CompileReturns, Results

(***************************************************************************)
(* Each part of the inductive invariant is preserved.                      *)
(***************************************************************************)

\* Types of the driver's own state.
LEMMA DriverTypeNext ==
  ASSUME DriverIInv, DriverNext
  PROVE  DriverTypeOK'
<1>1. DriverTypeOK /\ FilesInPlace /\ TypeOK /\ Items \in Seq(ItemSet)
  BY DriverShape DEF DriverIInv, IInv, DriverShape
<1> USE <1>1 DEF DriverTypeOK, MainTo, WorkerTo, MainSteps, WorkerSteps
<1>2. CASE MainStep
  BY <1>2
  DEF MainStep, AddItems, MainInitialize, MainFinalize, Spawn, Join, PrintLogs, Exit, MainTeardown,
      driverVars
<1>3. ASSUME NEW t \in Threads, Remove(t) /\ UNCHANGED MultiThreaded PROVE DriverTypeOK'
  <2>1. CASE worklist = <<>>
    BY <1>3, <2>1 DEF Remove, WhenEmpty
  <2>2. CASE worklist # <<>>
    <3>1. Head(worklist) \in ItemSet /\ Tail(worklist) \in Seq(ItemSet)
      BY <2>2, HeadTailProperties
    <3>2. worklist' \in Seq(ItemSet) /\ workItem' \in [Threads -> ItemSet \union {NoItem}]
      BY <1>3, <2>2, <3>1 DEF Remove, RemoveFront
    <3>3. /\ workerPc' = [workerPc EXCEPT ![t] = "construct"]
          /\ compiles' = [compiles EXCEPT ![t] = 0]
      BY <1>3, <2>2 DEF Remove
    <3>4. workerPc' \in [Threads -> WorkerSteps] /\ compiles' \in [Threads -> Nat]
      BY <3>3
    <3> QED BY <1>3, <3>2, <3>4 DEF Remove
  <2> QED BY <2>1, <2>2
<1>4. ASSUME NEW t \in Threads,
             Construct(t) \/ CallCompile(t) \/ InCompile(t) \/ Destruct(t), UNCHANGED MultiThreaded
      PROVE  DriverTypeOK'
  <2>1. CASE Construct(t)
    BY <1>4, <2>1 DEF Construct
  <2>4. CASE CallCompile(t)
    <3>1. /\ workerPc' = [workerPc EXCEPT ![t] = "compiling"]
          /\ compiles' = [compiles EXCEPT ![t] = @ + 1]
      BY <2>4 DEF CallCompile
    <3>2. workerPc' \in [Threads -> WorkerSteps] /\ compiles' \in [Threads -> Nat]
      BY <3>1
    <3> QED BY <1>4, <2>4, <3>2 DEF CallCompile
  <2>2. CASE InCompile(t)
    BY <1>4, <2>2 DEF InCompile
  <2>3. CASE Destruct(t)
    BY <1>4, <2>3 DEF Destruct
  <2> QED BY <1>4, <2>1, <2>2, <2>3, <2>4
<1>5. ASSUME NEW t \in Threads, CompileReturns(t) \/ Results(t), UNCHANGED MultiThreaded
      PROVE  DriverTypeOK'
  <2>1. success[t] \in BOOLEAN
    BY DEF TypeOK
  <2>2. CASE CompileReturns(t)
    BY <1>5, <2>1, <2>2 DEF CompileReturns, RecordFailed
  <2>3. CASE Results(t)
    <3>1. workerPc[t] = "results"
      BY <2>3 DEF Results
    <3>2. workItem[t] # NoItem
      BY <3>1 DEF FilesInPlace
    <3>3. workItem[t] \in ItemSet
      BY <3>2
    <3>4. Append(results[workItem[t]], success[t]) \in Seq(BOOLEAN)
      BY <2>1, <3>3, AppendProperties
    <3> QED BY <1>5, <2>3, <3>4 DEF Results
  <2> QED BY <1>5, <2>2, <2>3
<1> QED BY <1>2, <1>3, <1>4, <1>5 DEF DriverNext, WorkerStep

\* main knows which references it holds.
LEMMA MainHoldsNext ==
  ASSUME DriverIInv, DriverNext
  PROVE  MainHolds'
<1>1. /\ DriverTypeOK /\ MainHolds /\ TypeOK /\ Main \in Threads
      /\ mainPc \in MainSteps
  BY DriverAssumption DEF DriverIInv, IInv, DriverAssumption, DriverTypeOK
<1>2. CASE UNCHANGED <<mainPc, holders>>
  BY <1>1, <1>2 DEF MainHolds, ExtraRef
<1>3. CASE /\ UNCHANGED holders
           /\ \/ mainPc = "add" /\ mainPc' = "init"
              \/ mainPc = "spawn" /\ mainPc' = "join"
              \/ mainPc = "join" /\ mainPc' = "print"
              \/ mainPc = "print" /\ mainPc' = "lastFinalize"
              \/ mainPc = "exit" /\ mainPc' = "done"
  <2>1. CASE mainPc = "add" \/ mainPc = "exit"
    <3>1. holders' = {} /\ (mainPc' = "init" \/ mainPc' = "done")
      BY <1>1, <1>3, <2>1 DEF MainHolds
    <3> QED BY <3>1 DEF MainHolds
  <2>2. CASE mainPc \in {"spawn", "join", "print"}
    BY <1>1, <1>3, <2>2 DEF MainHolds
  <2> QED BY <1>3, <2>1, <2>2
<1>4. CASE MainInitialize
  <2>1. CASE mainPc = "init"
    <3>1. mainPc' = "initAgain" /\ holders' = {} \union {Sponsor[Main]}
      BY <1>1, <1>4, <2>1, FirstIs DEF MainInitialize, MainTo, ShInitialize, MainHolds
    <3> QED BY <3>1 DEF MainHolds
  <2>2. CASE mainPc = "initAgain"
    <3>1. PICK c \in Clients : ExtraRef(c) /\ holders' = {Sponsor[Main]} \union {c}
      BY <1>1, <1>4, <2>2 DEF MainInitialize, MainTo, ShInitialize, MainHolds
    <3>2. mainPc' = "finalize" /\ holders' = {Sponsor[Main], c}
      BY <1>4, <2>2, <3>1 DEF MainInitialize, MainTo
    <3> QED BY <3>1, <3>2 DEF MainHolds, ExtraRef
  <2> QED BY <1>4, <2>1, <2>2 DEF MainInitialize
<1>5. CASE MainFinalize
  <2>1. CASE mainPc = "finalize"
    <3>1. PICK c \in Clients : ExtraRef(c) /\ c \in holders /\ holders' = holders \ {c}
      BY <1>5, <2>1 DEF MainFinalize, ShFinalize
    <3>2. PICK d \in Clients : ExtraRef(d) /\ holders = {Sponsor[Main], d}
      BY <1>1, <2>1 DEF MainHolds
    <3>3. c # Sponsor[Main] /\ mainPc' = "spawn"
      BY <1>5, <2>1, <3>1, FirstIs DEF MainFinalize, MainTo
    <3>4. holders' = {Sponsor[Main]}
      BY <3>1, <3>2, <3>3
    <3> QED BY <3>3, <3>4 DEF MainHolds
  <2>2. CASE mainPc = "lastFinalize"
    <3>1. mainPc' = "exit" /\ holders' = {Sponsor[Main]} \ {Sponsor[Main]}
      BY <1>1, <1>5, <2>2, FirstIs DEF MainFinalize, MainTo, ShFinalize, MainHolds
    <3> QED BY <3>1 DEF MainHolds
  <2> QED BY <1>5, <2>1, <2>2 DEF MainFinalize
<1>6. CASE MainTeardown
  BY <1>1, <1>2, <1>6 DEF MainTeardown, driverVars, FreeShared, FreeCommon, FreeGPA
<1>7. ASSUME NEW t \in Threads, WorkerStep(t) PROVE UNCHANGED <<mainPc, holders>>
  BY <1>1, <1>7, ProgressFacts
  DEF WorkerStep, Remove, Construct, CallCompile, InCompile, CompileReturns, Results, Destruct,
      ShConstructCompiler, ShCompile, ShDestruct, vars, processVars
<1>8. CASE AddItems \/ Spawn \/ Join \/ PrintLogs \/ Exit
  <2>1. UNCHANGED holders
    BY <1>8 DEF AddItems, Spawn, Join, PrintLogs, Exit, vars
  <2>2. \/ mainPc = "add" /\ mainPc' = "init"
        \/ mainPc = "spawn" /\ mainPc' = "join"
        \/ mainPc = "join" /\ mainPc' = "print"
        \/ mainPc = "print" /\ mainPc' = "lastFinalize"
        \/ mainPc = "exit" /\ mainPc' = "done"
    BY <1>8 DEF AddItems, Spawn, Join, PrintLogs, Exit, MainTo
  <2> QED BY <1>3, <2>1, <2>2
<1> QED BY <1>2, <1>4, <1>5, <1>6, <1>7, <1>8 DEF DriverNext, MainStep

\* Only workers, between spawn and join, and main, on its way out, are inside
\* the API.
LEMMA WorkersRunNext ==
  ASSUME DriverIInv, DriverNext, IInv', MainHolds'
  PROVE  WorkersRun'
<1>1. /\ DriverTypeOK /\ MainHolds /\ TypeOK /\ Main \in Threads /\ WorkersRun
      /\ mainPc \in MainSteps /\ workerPc \in [Threads -> WorkerSteps]
      /\ pc \in [Threads -> Steps] /\ worklist \in Seq(ItemSet)
  BY DriverAssumption DEF DriverIInv, IInv, DriverAssumption, DriverTypeOK, TypeOK
<1>2. UNCHANGED MultiThreaded /\ Workers' = Workers /\ Workers \subseteq Threads /\ Workers # {}
  <2>1. UNCHANGED MultiThreaded
    BY DEF DriverNext, MainStep, WorkerStep
  <2> QED BY <2>1, <1>1, DriverShape DEF Workers, DriverShape
<1>3. \A t \in Threads : workerPc[t] \notin {"new", "exited"} => mainPc = "join"
  BY <1>1 DEF WorkersRun, MainSteps
<1>4. CASE MainInitialize
  BY <1>1, <1>4 DEF MainInitialize, MainTo, ShInitialize, WorkersRun, MainSteps
<1>5. CASE MainFinalize
  <2>1. \A t \in Threads \ {Main} : pc'[t] = pc[t]
    BY <1>1, <1>5 DEF MainFinalize, ShFinalize, Goto
  <2>2. UNCHANGED <<workerPc, worklist>> /\ (pc'[Main] = pc[Main] \/ pc'[Main] = "freeShared")
    BY <1>1, <1>5 DEF MainFinalize, ShFinalize, Goto
  <2>3. CASE mainPc = "finalize"
    <3>1. mainPc' = "spawn" /\ holders' # {}
      BY <1>5, <2>3 DEF MainFinalize, MainTo, MainHolds
    <3>2. pc'[Main] # "freeShared"
      BY <1>1, <3>1 DEF IInv, CoverInv
    <3> QED BY <1>1, <2>1, <2>2, <2>3, <3>1, <3>2 DEF WorkersRun
  <2>4. CASE mainPc = "lastFinalize"
    <3>1. mainPc' = "exit"
      BY <1>5, <2>4 DEF MainFinalize, MainTo
    <3> QED BY <1>1, <2>1, <2>2, <2>4, <3>1 DEF WorkersRun
  <2> QED BY <1>5, <2>3, <2>4 DEF MainFinalize
<1>6. CASE MainTeardown
  <2>1. UNCHANGED <<mainPc, workerPc, worklist>> /\ mainPc = "exit"
    BY <1>6 DEF MainTeardown, driverVars
  <2>2. \A t \in Threads \ {Main} : pc'[t] = pc[t]
    BY <1>1, <1>6 DEF MainTeardown, FreeShared, FreeCommon, FreeGPA, Goto
  <2> QED BY <1>1, <2>1, <2>2 DEF WorkersRun
<1>7. CASE AddItems
  BY <1>1, <1>7 DEF AddItems, MainTo, vars, WorkersRun
<1>8. CASE Spawn
  <2>1. mainPc = "spawn" /\ mainPc' = "join" /\ UNCHANGED <<pc, worklist>>
    BY <1>8 DEF Spawn, MainTo, vars
  <2>2. \A t \in Threads : workerPc'[t] = IF t \in Workers THEN "remove" ELSE "new"
    BY <1>8 DEF Spawn
  <2>3. \A t \in Threads : pc[t] = "idle"
    BY <1>1, <2>1 DEF WorkersRun
  <2> QED BY <1>2, <2>1, <2>2, <2>3 DEF WorkersRun
<1>9. CASE Join
  <2>1. mainPc = "join" /\ mainPc' = "print" /\ UNCHANGED <<pc, workerPc, worklist>>
    BY <1>9 DEF Join, MainTo, vars
  <2>2. \A t \in Workers : workerPc[t] = "exited"
    BY <1>9 DEF Join, AllJoined
  <2>3. worklist = <<>>
    BY <1>1, <1>2, <2>2 DEF WorkersRun
  <2>4. \A t \in Threads : workerPc[t] \in {"new", "exited"}
    BY <1>1, <2>1, <2>2 DEF WorkersRun
  <2> QED BY <1>1, <2>1, <2>3, <2>4 DEF WorkersRun
<1>10. CASE PrintLogs
  BY <1>1, <1>10 DEF PrintLogs, MainTo, vars, WorkersRun
<1>11. CASE Exit
  BY <1>1, <1>11 DEF Exit, MainTo, vars, WorkersRun
<1>12. ASSUME NEW t \in Threads, WorkerStep(t) PROVE WorkersRun'
  <2>1. mainPc = "join" /\ mainPc' = "join" /\ t \in Workers
    BY <1>1, <1>3, <1>12
    DEF WorkerStep, Remove, Construct, CallCompile, InCompile, CompileReturns, Results, Destruct,
        WorkersRun
  <2>2. \A u \in Threads \ {t} : workerPc'[u] = workerPc[u] /\ pc'[u] = pc[u]
    BY <1>1, <1>12, ProgressFacts
    DEF WorkerStep, Remove, Construct, CallCompile, InCompile, CompileReturns, Results, Destruct,
        ShConstructCompiler, ShCompile, ShDestruct, vars, processVars, WorkerTo, Goto
  <2>3. /\ workerPc'[t] # "new"
        /\ worklist = <<>> => worklist' = <<>>
        /\ workerPc'[t] = "exited" => worklist' = <<>>
    BY <1>1, <1>12
    DEF WorkerStep, Remove, Construct, CallCompile, InCompile, CompileReturns, Results, Destruct,
        WorkerTo, WhenEmpty
  <2>4. pc'[t] = "idle" \/ workerPc'[t] = "compiling"
    <3>1. CASE InCompile(t)
      BY <1>1, <3>1 DEF InCompile, WorkerTo
    <3>2. CASE CallCompile(t)
      BY <1>1, <3>2 DEF CallCompile, WorkerTo
    <3>3. CASE Remove(t) \/ Construct(t) \/ CompileReturns(t) \/ Results(t) \/ Destruct(t)
      <4>1. pc' = pc /\ workerPc[t] # "compiling"
        BY <3>3
        DEF Remove, Construct, CompileReturns, Results, Destruct, ShConstructCompiler, ShDestruct,
            vars
      <4> QED BY <1>1, <2>1, <4>1 DEF WorkersRun
    <3> QED BY <1>12, <3>1, <3>2, <3>3 DEF WorkerStep
  <2>5. \A u \in Threads : workerPc'[u] = "new" <=> u \notin Workers'
    BY <1>1, <1>2, <2>1, <2>2, <2>3 DEF WorkersRun
  <2>6. \A u \in Threads : workerPc'[u] = "exited" => worklist' = <<>>
    BY <1>1, <2>2, <2>3 DEF WorkersRun
  <2>7. \A u \in Threads : pc'[u] = "idle" \/ workerPc'[u] = "compiling" \/ (u = Main /\ mainPc' = "exit")
    BY <1>1, <2>1, <2>2, <2>4 DEF WorkersRun
  <2> QED BY <2>1, <2>5, <2>6, <2>7 DEF WorkersRun
<1> QED
  BY <1>4, <1>5, <1>6, <1>7, <1>8, <1>9, <1>10, <1>11, <1>12 DEF DriverNext, MainStep

ListHas(list, i) == \E n \in DOMAIN list : list[n] = i

\* Files stay in place when nobody takes one, writes a result or lets go.
LEMMA FilesKept ==
  ASSUME FilesInPlace, UNCHANGED <<worklist, workItem, results>>,
         mainPc # "add" \/ mainPc' = mainPc, mainPc' = "add" => mainPc = "add",
         \A t \in Threads :
           /\ workerPc'[t] \in {"new", "remove", "exited"} <=> workerPc[t] \in {"new", "remove", "exited"}
           /\ workerPc'[t] = "destruct" <=> workerPc[t] = "destruct"
  PROVE  FilesInPlace'
BY DEF FilesInPlace, OnList

\* Removing the front takes that file, and only that, from the list
\* (TWorklist::remove).
LEMMA FrontTaken ==
  ASSUME worklist \in Seq(ItemSet), worklist # <<>>, worklist' = Tail(worklist),
         \A m, n \in DOMAIN worklist : worklist[m] = worklist[n] => m = n
  PROVE  /\ Head(worklist) \in ItemSet /\ OnList(Head(worklist))
         /\ \A m, n \in DOMAIN worklist' : worklist'[m] = worklist'[n] => m = n
         /\ \A i : OnList(i)' <=> OnList(i) /\ i # Head(worklist)
<1>1. /\ Head(worklist) \in ItemSet /\ Tail(worklist) \in Seq(ItemSet)
      /\ Len(Tail(worklist)) = Len(worklist) - 1
      /\ \A i \in 1 .. Len(Tail(worklist)) : Tail(worklist)[i] = worklist[i + 1]
  BY HeadTailProperties
<1>2. /\ DOMAIN worklist = 1 .. Len(worklist) /\ DOMAIN worklist' = 1 .. Len(worklist) - 1
      /\ Len(worklist) \in Nat \ {0} /\ Head(worklist) = worklist[1]
  BY <1>1, LenProperties, EmptySeq
<1>3. \A m \in DOMAIN worklist' : m + 1 \in DOMAIN worklist /\ worklist'[m] = worklist[m + 1]
  BY <1>1, <1>2
<1>4. OnList(Head(worklist))
  BY <1>2 DEF OnList
<1>5. \A m, n \in DOMAIN worklist' : worklist'[m] = worklist'[n] => m = n
  <2> TAKE m, n \in DOMAIN worklist'
  <2> HAVE worklist'[m] = worklist'[n]
  <2>1. m + 1 = n + 1
    BY <1>3
  <2> QED BY <1>2, <2>1
<1>6. ASSUME NEW i PROVE OnList(i)' <=> OnList(i) /\ i # Head(worklist)
  <2>1. ASSUME OnList(i)' PROVE OnList(i) /\ i # Head(worklist)
    <3>1. PICK m \in DOMAIN worklist' : worklist'[m] = i
      BY <2>1 DEF OnList
    <3>2. m + 1 \in DOMAIN worklist /\ worklist[m + 1] = i /\ m + 1 # 1 /\ 1 \in DOMAIN worklist
      BY <1>2, <1>3, <3>1
    <3> QED BY <1>2, <3>2 DEF OnList
  <2>2. ASSUME OnList(i), i # Head(worklist) PROVE OnList(i)'
    <3>1. PICK n \in DOMAIN worklist : worklist[n] = i
      BY <2>2 DEF OnList
    <3>2. n - 1 \in DOMAIN worklist' /\ n - 1 + 1 = n
      BY <1>2, <2>2, <3>1
    <3>3. worklist'[n - 1] = i
      BY <1>3, <3>1, <3>2
    <3> QED BY <3>2, <3>3 DEF OnList
  <2> QED BY <2>1, <2>2
<1> QED BY <1>1, <1>4, <1>5, <1>6

\* Every file is in one place: on the list, with one thread, or written.
LEMMA FilesInPlaceNext ==
  ASSUME DriverIInv, DriverNext
  PROVE  FilesInPlace'
<1> DEFINE NoneHeld == {"new", "remove", "exited"}
<1>1. /\ DriverTypeOK /\ WorkersRun /\ FilesInPlace
      /\ workerPc \in [Threads -> WorkerSteps]
      /\ workItem \in [Threads -> ItemSet \union {NoItem}]
      /\ results \in [ItemSet -> Seq(BOOLEAN)]
      /\ worklist \in Seq(ItemSet)
      /\ NoItem \notin ItemSet
  BY DriverShape DEF DriverIInv, DriverTypeOK, DriverShape
<1>2. \A t \in Threads : workerPc[t] # "new" => mainPc # "add"
  BY <1>1 DEF WorkersRun
<1>3. CASE AddItems
  <2>1. /\ worklist' = Items /\ UNCHANGED <<workItem, workerPc, results>> /\ mainPc' # "add"
        /\ mainPc = "add"
    BY <1>3 DEF AddItems, MainTo
  <2>2. \A t \in Threads : workItem[t] = NoItem
    BY <1>1, <2>1 DEF WorkersRun, FilesInPlace
  <2>3. \A i \in ItemSet : results[i] = <<>> /\ Len(results[i]) <= 1
    BY <1>1, <2>1, EmptySeq DEF FilesInPlace
  <2>4. \A i \in ItemSet : OnList(i)'
    BY <2>1 DEF OnList, ItemSet
  <2>5. \A m, n \in DOMAIN worklist' : worklist'[m] = worklist'[n] => m = n
    BY <2>1, DriverShape DEF DriverShape
  <2>6. \A t \in Threads : workItem'[t] = NoItem /\ workerPc'[t] = "new"
    BY <1>1, <2>1, <2>2 DEF WorkersRun
  <2> QED BY <2>1, <2>3, <2>4, <2>5, <2>6 DEF FilesInPlace
<1>4. CASE Spawn
  <2>1. /\ UNCHANGED <<worklist, workItem, results>> /\ mainPc # "add" /\ mainPc' # "add"
        /\ \A t \in Threads : workerPc[t] = "new" /\ workerPc'[t] \in {"remove", "new"}
    BY <1>1, <1>4 DEF Spawn, MainTo, WorkersRun
  <2> QED BY <1>1, <2>1, FilesKept
<1>5. CASE MainInitialize \/ MainFinalize \/ Join \/ PrintLogs \/ MainTeardown \/ Exit
  <2>1. /\ UNCHANGED <<worklist, workItem, results, workerPc>> /\ mainPc # "add" /\ mainPc' # "add"
    BY <1>5
    DEF MainInitialize, MainFinalize, Join, PrintLogs, MainTeardown, Exit, MainTo, driverVars
  <2> QED BY <1>1, <2>1, FilesKept
<1>6. ASSUME NEW t \in Threads,
             Construct(t) \/ CallCompile(t) \/ InCompile(t) \/ CompileReturns(t)
      PROVE  FilesInPlace'
  <2>1. /\ UNCHANGED <<worklist, workItem, results, mainPc>>
        /\ \A u \in Threads \ {t} : workerPc'[u] = workerPc[u]
        /\ workerPc[t] \notin NoneHeld \union {"destruct"}
        /\ workerPc'[t] \notin NoneHeld \union {"destruct"}
    BY <1>1, <1>6 DEF Construct, CallCompile, InCompile, CompileReturns, WorkerTo
  <2> QED BY <1>1, <2>1, FilesKept
<1>7. ASSUME NEW t \in Threads, Remove(t) PROVE FilesInPlace'
  <2>1. mainPc # "add" /\ mainPc' = mainPc /\ results' = results /\ workerPc[t] = "remove"
    BY <1>2, <1>7 DEF Remove
  <2>2. CASE worklist = <<>>
    <3>1. /\ UNCHANGED <<worklist, workItem>>
          /\ \A u \in Threads \ {t} : workerPc'[u] = workerPc[u]
          /\ workerPc'[t] = "exited"
      BY <1>1, <1>7, <2>2 DEF Remove, WorkerTo, WhenEmpty
    <3> QED BY <1>1, <2>1, <3>1, FilesKept
  <2>3. CASE worklist # <<>>
    <3> DEFINE i == Head(worklist)
    <3>1. /\ worklist' = Tail(worklist)
          /\ \A u \in Threads \ {t} : workItem'[u] = workItem[u] /\ workerPc'[u] = workerPc[u]
          /\ workItem'[t] = i /\ workerPc'[t] = "construct"
      BY <1>1, <1>7, <2>3 DEF Remove, RemoveFront, WorkerTo
    <3>2. /\ i \in ItemSet /\ OnList(i)
          /\ \A m, n \in DOMAIN worklist' : worklist'[m] = worklist'[n] => m = n
          /\ \A j : OnList(j)' <=> OnList(j) /\ j # i
      BY <1>1, <2>3, <3>1, FrontTaken DEF FilesInPlace
    <3> HIDE DEF i
    <3>3. results[i] = <<>> /\ i # NoItem /\ \A u \in Threads : workItem[u] # i
      BY <1>1, <3>2 DEF FilesInPlace
    <3>4. \A u \in Threads : workItem'[u] = NoItem <=> workerPc'[u] \in NoneHeld
      BY <1>1, <3>1, <3>3 DEF FilesInPlace
    <3>5. \A u, v \in Threads : workItem'[u] = workItem'[v] => u = v \/ workItem'[u] = NoItem
      BY <1>1, <3>1, <3>3 DEF FilesInPlace
    <3>6. \A u \in Threads : workItem'[u] # NoItem =>
            /\ ~ListHas(worklist', workItem'[u])
            /\ results'[workItem'[u]] = <<>> <=> workerPc'[u] # "destruct"
      <4> TAKE u \in Threads
      <4>1. CASE u = t
        BY <2>1, <3>1, <3>2, <3>3, <4>1 DEF OnList, ListHas
      <4>2. CASE u # t
        BY <1>1, <2>1, <3>1, <3>2, <4>2 DEF FilesInPlace, OnList, ListHas
      <4> QED BY <4>1, <4>2
    <3>7. \A j \in ItemSet :
            /\ OnList(j)' => results'[j] = <<>>
            /\ Len(results'[j]) <= 1
            /\ OnList(j)' \/ results'[j] # <<>> \/ \E u \in Threads : workItem'[u] = j
      <4> TAKE j \in ItemSet
      <4>1. CASE j = i
        BY <1>1, <2>1, <3>1, <3>2, <4>1 DEF FilesInPlace
      <4>2. CASE j # i
        <5>1. OnList(j)' <=> OnList(j)
          BY <3>2, <4>2
        <5>2. \A u \in Threads : workItem[u] = j => workItem'[u] = j
          BY <1>1, <2>1, <3>1 DEF FilesInPlace
        <5> QED BY <1>1, <2>1, <5>1, <5>2 DEF FilesInPlace
      <4> QED BY <4>1, <4>2
    <3> QED BY <2>1, <3>2, <3>4, <3>5, <3>6, <3>7 DEF FilesInPlace, OnList, ListHas
  <2> QED BY <2>2, <2>3
<1>8. ASSUME NEW t \in Threads, Results(t) PROVE FilesInPlace'
  <2> DEFINE i == workItem[t]
  <2>1. /\ mainPc # "add" /\ UNCHANGED <<mainPc, worklist, workItem>> /\ workerPc[t] = "results"
        /\ \A u \in Threads \ {t} : workerPc'[u] = workerPc[u]
        /\ workerPc'[t] = "destruct"
    BY <1>1, <1>2, <1>8 DEF Results, WorkerTo
  <2>2. i \in ItemSet /\ ~OnList(i) /\ results[i] = <<>> /\ \A u \in Threads \ {t} : workItem[u] # i
    BY <1>1, <2>1 DEF FilesInPlace
  <2>3. results'[i] = <<success[t]>> /\ Len(results'[i]) <= 1 /\ results'[i] # <<>>
    <3>1. results'[i] = Append(<<>>, success[t])
      BY <1>1, <1>8, <2>2 DEF Results
    <3> QED BY <3>1
  <2>4. \A j \in ItemSet \ {i} : results'[j] = results[j]
    BY <1>1, <1>8 DEF Results
  <2> HIDE DEF i
  <2>5. \A u \in Threads : workItem'[u] # NoItem =>
          /\ ~ListHas(worklist', workItem'[u])
          /\ results'[workItem'[u]] = <<>> <=> workerPc'[u] # "destruct"
    <3> TAKE u \in Threads
    <3>1. CASE u = t
      BY <2>1, <2>2, <2>3, <3>1 DEF OnList, ListHas, i
    <3>2. CASE u # t
      BY <1>1, <2>1, <2>2, <2>4, <3>2 DEF FilesInPlace, OnList, ListHas
    <3> QED BY <3>1, <3>2
  <2>6. \A j \in ItemSet :
          /\ OnList(j)' => results'[j] = <<>>
          /\ Len(results'[j]) <= 1
          /\ OnList(j)' \/ results'[j] # <<>> \/ \E u \in Threads : workItem'[u] = j
    <3> TAKE j \in ItemSet
    <3>1. OnList(j)' <=> OnList(j)
      BY <2>1 DEF OnList
    <3>2. CASE j = i
      BY <2>2, <2>3, <3>1, <3>2
    <3>3. CASE j # i
      BY <1>1, <2>1, <2>4, <3>1, <3>3 DEF FilesInPlace
    <3> QED BY <3>2, <3>3
  <2>7. \A u \in Threads : workItem'[u] = NoItem <=> workerPc'[u] \in NoneHeld
    BY <1>1, <2>1 DEF FilesInPlace
  <2> QED BY <1>1, <2>1, <2>5, <2>6, <2>7 DEF FilesInPlace, OnList, ListHas
<1>9. ASSUME NEW t \in Threads, Destruct(t) PROVE FilesInPlace'
  <2>1. /\ mainPc # "add" /\ UNCHANGED <<mainPc, worklist, results>> /\ workerPc[t] = "destruct"
        /\ \A u \in Threads \ {t} : workItem'[u] = workItem[u] /\ workerPc'[u] = workerPc[u]
        /\ workItem'[t] = NoItem /\ workerPc'[t] = "remove"
    BY <1>1, <1>2, <1>9 DEF Destruct, WorkerTo
  <2>2. workItem[t] # NoItem /\ results[workItem[t]] # <<>>
    BY <1>1, <2>1 DEF FilesInPlace
  <2>3. \A j : OnList(j)' <=> OnList(j)
    BY <2>1 DEF OnList
  <2>4. \A u \in Threads : workItem'[u] = NoItem <=> workerPc'[u] \in NoneHeld
    BY <1>1, <2>1 DEF FilesInPlace
  <2>5. \A u, v \in Threads : workItem'[u] = workItem'[v] => u = v \/ workItem'[u] = NoItem
    BY <1>1, <2>1 DEF FilesInPlace
  <2>6. \A u \in Threads : workItem'[u] # NoItem =>
          /\ ~ListHas(worklist', workItem'[u])
          /\ results'[workItem'[u]] = <<>> <=> workerPc'[u] # "destruct"
    <3> TAKE u \in Threads
    <3>1. CASE u = t
      BY <2>1, <3>1
    <3>2. CASE u # t
      BY <1>1, <2>1, <3>2 DEF FilesInPlace, OnList, ListHas
    <3> QED BY <3>1, <3>2
  <2>7. \A j \in ItemSet :
          OnList(j)' \/ results'[j] # <<>> \/ \E u \in Threads : workItem'[u] = j
    <3> TAKE j \in ItemSet
    <3>1. OnList(j) \/ results[j] # <<>> \/ \E u \in Threads : workItem[u] = j
      BY <1>1, <2>1 DEF FilesInPlace
    <3>2. \A u \in Threads : workItem[u] = j => workItem'[u] = j \/ results[j] # <<>>
      BY <2>1, <2>2
    <3> QED BY <2>1, <2>3, <3>1, <3>2
  <2> QED BY <1>1, <2>1, <2>3, <2>4, <2>5, <2>6, <2>7 DEF FilesInPlace, OnList, ListHas
<1> QED
  BY <1>3, <1>4, <1>5, <1>6, <1>7, <1>8, <1>9 DEF DriverNext, MainStep, WorkerStep

\* The flag and the exit code tell what was, or is about to be, written.
LEMMA FlagRightNext ==
  ASSUME DriverIInv, DriverNext
  PROVE  FlagRight'
<1>1. /\ DriverTypeOK /\ WorkersRun /\ FilesInPlace /\ FlagRight /\ TypeOK
      /\ workerPc \in [Threads -> WorkerSteps] /\ success \in [Threads -> BOOLEAN]
      /\ workItem \in [Threads -> ItemSet \union {NoItem}]
      /\ results \in [ItemSet -> Seq(BOOLEAN)] /\ CompileFailed \in BOOLEAN
  BY DEF DriverIInv, DriverTypeOK, IInv, TypeOK
<1>2. CASE /\ UNCHANGED <<CompileFailed, results, exitCode>>
           /\ mainPc' = "done" => mainPc = "done"
           /\ \A t \in Threads :
                /\ workerPc'[t] = "results" <=> workerPc[t] = "results"
                /\ workerPc'[t] = "results" => success'[t] = success[t]
  BY <1>1, <1>2 DEF FlagRight
<1>3. CASE Exit
  <2>1. /\ UNCHANGED <<CompileFailed, results, workerPc, success>>
        /\ exitCode' = IF CompileFailed THEN "EFailCompile" ELSE "ESuccess"
    BY <1>3 DEF Exit, vars
  <2> QED BY <1>1, <2>1 DEF FlagRight
<1>4. CASE AddItems \/ MainInitialize \/ MainFinalize \/ Join \/ PrintLogs \/ MainTeardown
  <2>1. /\ UNCHANGED <<CompileFailed, results, exitCode, workerPc, success>>
    BY <1>4
    DEF AddItems, MainInitialize, MainFinalize, Join, PrintLogs, MainTeardown, driverVars, vars,
        ShInitialize, ShFinalize, FreeShared, FreeCommon, FreeGPA
  <2>2. mainPc' = "done" => mainPc = "done"
    BY <1>4
    DEF AddItems, MainInitialize, MainFinalize, Join, PrintLogs, MainTeardown, driverVars, MainTo
  <2> QED BY <1>2, <2>1, <2>2
<1>5. CASE Spawn
  <2>1. /\ UNCHANGED <<CompileFailed, results, exitCode>> /\ mainPc' # "done"
        /\ \A t \in Threads : workerPc[t] # "results" /\ workerPc'[t] # "results"
    BY <1>1, <1>5 DEF Spawn, MainTo, WorkersRun
  <2> QED BY <1>2, <2>1
<1>6. ASSUME NEW t \in Threads, WorkerStep(t)
      PROVE  /\ UNCHANGED <<mainPc, exitCode>> /\ mainPc # "done"
             /\ \A u \in Threads \ {t} : workerPc'[u] = workerPc[u] /\ success'[u] = success[u]
  <2>1. UNCHANGED <<mainPc, exitCode>> /\ workerPc[t] \notin {"new", "exited"}
    BY <1>6
    DEF WorkerStep, Remove, Construct, CallCompile, InCompile, CompileReturns, Results, Destruct
  <2>2. \A u \in Threads \ {t} : workerPc'[u] = workerPc[u] /\ success'[u] = success[u]
    BY <1>1, <1>6, ProgressFacts
    DEF WorkerStep, Remove, Construct, CallCompile, InCompile, CompileReturns, Results, Destruct,
        ShConstructCompiler, ShCompile, ShDestruct, vars, WorkerTo
  <2> QED BY <1>1, <2>1, <2>2 DEF WorkersRun
<1>7. ASSUME NEW t \in Threads, WorkerStep(t),
             Remove(t) \/ Construct(t) \/ CallCompile(t) \/ InCompile(t) \/ Destruct(t)
      PROVE  FlagRight'
  <2>1. /\ UNCHANGED <<CompileFailed, results>>
        /\ workerPc[t] # "results" /\ workerPc'[t] # "results"
    BY <1>1, <1>7 DEF Remove, Construct, CallCompile, InCompile, Destruct, WorkerTo, WhenEmpty
  <2>2. \A u \in Threads :
          /\ workerPc'[u] = "results" <=> workerPc[u] = "results"
          /\ workerPc'[u] = "results" => success'[u] = success[u]
    BY <1>6, <1>7, <2>1
  <2>3. UNCHANGED <<mainPc, exitCode>>
    BY <1>6, <1>7
  <2> QED BY <1>2, <2>1, <2>2, <2>3
<1>8. ASSUME NEW t \in Threads, WorkerStep(t), CompileReturns(t) PROVE FlagRight'
  <2>1. /\ UNCHANGED <<results, success>> /\ workerPc[t] = "compile" /\ workerPc'[t] = "results"
        /\ CompileFailed' = (CompileFailed \/ ~success[t])
    BY <1>1, <1>8 DEF CompileReturns, vars, WorkerTo, RecordFailed
  <2>2. (\E u \in Threads : workerPc'[u] = "results" /\ ~success'[u]) <=>
          (~success[t] \/ \E u \in Threads : workerPc[u] = "results" /\ ~success[u])
    <3>1. \A u \in Threads \ {t} : workerPc'[u] = workerPc[u]
      BY <1>6, <1>8
    <3> QED BY <2>1, <3>1
  <2> QED BY <1>1, <1>6, <1>8, <2>1, <2>2, Zenon DEF FlagRight
<1>9. ASSUME NEW t \in Threads, WorkerStep(t), Results(t) PROVE FlagRight'
  <2> DEFINE i == workItem[t]
             Written == \E j \in ItemSet : results[j] # <<>> /\ ~results[j][1]
             Ahead == \E u \in Threads : workerPc[u] = "results" /\ ~success[u]
  <2>1. /\ UNCHANGED <<CompileFailed, success>> /\ workerPc[t] = "results"
        /\ workerPc'[t] = "destruct"
    BY <1>1, <1>9 DEF Results, vars, WorkerTo
  <2>2. i \in ItemSet /\ results[i] = <<>>
    BY <1>1, <2>1 DEF FilesInPlace
  <2>3. results'[i] = Append(<<>>, success[t]) /\ \A j \in ItemSet \ {i} : results'[j] = results[j]
    BY <1>1, <1>9, <2>2 DEF Results
  <2>4. results'[i] # <<>> /\ (results'[i][1] <=> success[t])
    <3>1. Append(<<>>, success[t]) = <<success[t]>>
      OBVIOUS
    <3>2. results'[i] = <<success[t]>>
      BY <2>3, <3>1
    <3> QED BY <3>2
  <2> HIDE DEF i
  <2>5. (\E j \in ItemSet : results'[j] # <<>> /\ ~results'[j][1]) <=> Written \/ ~success[t]
    BY <2>2, <2>3, <2>4, Zenon
  <2>6. (\E u \in Threads : workerPc'[u] = "results" /\ ~success'[u]) \/ ~success[t] <=> Ahead
    <3>1. \A u \in Threads \ {t} : workerPc'[u] = workerPc[u]
      BY <1>6, <1>9
    <3> QED BY <2>1, <3>1
  <2>7. CompileFailed <=> Written \/ Ahead
    BY <1>1 DEF FlagRight
  <2>8. CompileFailed' <=>
          \/ \E j \in ItemSet : results'[j] # <<>> /\ ~results'[j][1]
          \/ \E u \in Threads : workerPc'[u] = "results" /\ ~success'[u]
    <3> HIDE DEF Written, Ahead
    <3> QED BY <2>1, <2>5, <2>6, <2>7, Zenon
  <2> QED BY <1>1, <1>6, <1>9, <2>1, <2>8 DEF FlagRight
<1> QED
  BY <1>3, <1>4, <1>5, <1>7, <1>8, <1>9 DEF DriverNext, MainStep, WorkerStep

\* The driver starts with nothing taken, compiled or written.
LEMMA DriverInitIInv == DriverInit => DriverIInv
<1> SUFFICES ASSUME DriverInit PROVE DriverIInv
  OBVIOUS
<1>1. IInv /\ Init
  BY IInvInit DEF DriverInit
<1>2. /\ MultiThreaded \in BOOLEAN /\ mainPc = "add" /\ worklist = <<>>
      /\ workerPc = [t \in Threads |-> "new"] /\ workItem = [t \in Threads |-> NoItem]
      /\ compiles = [t \in Threads |-> 0] /\ results = [i \in ItemSet |-> <<>>]
      /\ CompileFailed = FALSE
      /\ holders = {} /\ pc = [t \in Threads |-> "idle"]
  BY <1>1 DEF DriverInit, Init
<1>3. DriverTypeOK
  <2>1. <<>> \in Seq(BOOLEAN) /\ <<>> \in Seq(ItemSet)
    BY EmptySeq
  <2> QED BY <1>2, <2>1 DEF DriverTypeOK, MainSteps, WorkerSteps
<1>4. MainHolds /\ WorkersRun /\ FlagRight
  BY <1>2 DEF MainHolds, WorkersRun, FlagRight
<1>5. FilesInPlace
  <2>1. DOMAIN worklist = {} /\ \A i \in ItemSet : Len(results[i]) = 0
    BY <1>2, LenProperties, EmptySeq
  <2> QED BY <1>2, <2>1 DEF FilesInPlace, OnList
<1> QED BY <1>1, <1>3, <1>4, <1>5 DEF DriverIInv

LEMMA DriverIInvNext == DriverIInv /\ [DriverNext]_allVars => DriverIInv'
<1> SUFFICES ASSUME DriverIInv, [DriverNext]_allVars PROVE DriverIInv'
  OBVIOUS
<1>1. IInv'
  BY DriverStepIsStep, IInvNext DEF DriverIInv
<1>2. CASE DriverNext
  <2>1. DriverTypeOK' /\ MainHolds' /\ FilesInPlace' /\ FlagRight'
    BY <1>2, DriverTypeNext, MainHoldsNext, FilesInPlaceNext, FlagRightNext
  <2> QED BY <1>1, <1>2, <2>1, WorkersRunNext DEF DriverIInv
<1>3. CASE UNCHANGED allVars
  <2>1. DriverTypeOK' /\ MainHolds'
    BY <1>3 DEF DriverIInv, DriverTypeOK, MainHolds, allVars, driverVars, vars, ExtraRef
  <2>2. WorkersRun'
    BY <1>3 DEF DriverIInv, WorkersRun, Workers, allVars, driverVars, vars
  <2>3. FilesInPlace' /\ FlagRight'
    BY <1>3 DEF DriverIInv, FilesInPlace, OnList, FlagRight, allVars, driverVars, vars
  <2> QED BY <1>1, <2>1, <2>2, <2>3 DEF DriverIInv
<1> QED BY <1>2, <1>3

(***************************************************************************)
(* Theorems.                                                               *)
(***************************************************************************)

\* The inductive invariant of singleMain and CompileShaders holds in every
\* behaviour of the driver, together with that of the process.
THEOREM DriverInvariance == DriverSpec => []DriverIInv
BY DriverInitIInv, DriverIInvNext, PTL DEF DriverSpec

\* The driver keeps the callers' contract of ShaderLang.h, with a reference
\* that only main holds: its last ShFinalize (singleMain) comes when no worker
\* is compiling.
THEOREM DriverKeepsContract == DriverSpec => KeepsContract
<1>1. DriverInit => Init
  BY DEF DriverInit
<1> QED
  BY <1>1, DriverInvariance, DriverStepIsStep, PTL DEF DriverSpec, KeepsContract, Spec

\* No file is lost, compiled twice or written by two threads (TWorklist::remove,
\* CompileShaders).
THEOREM FilesOnce == DriverSpec => []EachFileOnce
<1>1. DriverIInv => EachFileOnce
  <2> SUFFICES ASSUME DriverIInv, mainPc # "add", NEW i \in ItemSet
               PROVE  Cardinality({n \in DOMAIN worklist : worklist[n] = i})
                        + Cardinality(Holding(i)) + Len(results[i]) = 1
    BY DEF EachFileOnce
  <2> DEFINE listed == {n \in DOMAIN worklist : worklist[n] = i}
  <2>1. /\ FilesInPlace /\ i # NoItem /\ results[i] \in Seq(BOOLEAN)
    BY DriverShape DEF DriverIInv, DriverTypeOK, DriverShape
  <2>2. /\ results[i] = <<>> <=> Len(results[i]) = 0
        /\ results[i] # <<>> => Len(results[i]) = 1
    <3> DEFINE len == Len(results[i])
    <3>1. len <= 1 /\ len \in Nat
      BY <2>1, LenProperties DEF FilesInPlace
    <3>2. results[i] = <<>> <=> len = 0
      BY <2>1, EmptySeq, Zenon
    <3> HIDE DEF len
    <3>3. (results[i] = <<>> <=> len = 0) /\ (results[i] # <<>> => len = 1)
      BY <3>1, <3>2
    <3> QED BY <3>3 DEF len
  <2>3. CASE OnList(i)
    <3>1. PICK n \in DOMAIN worklist : worklist[n] = i
      BY <2>3 DEF OnList
    <3>2. listed = {n}
      BY <2>1, <3>1 DEF FilesInPlace
    <3>3. Holding(i) = {} /\ results[i] = <<>>
      BY <2>1, <2>3 DEF FilesInPlace, Holding
    <3> HIDE DEF listed
    <3>4. Cardinality(listed) = 1 /\ Cardinality(Holding(i)) = 0
      BY <3>2, <3>3, FS_Singleton, FS_EmptySet
    <3> QED BY <2>2, <3>3, <3>4 DEF listed
  <2>4. CASE ~OnList(i)
    <3>1. listed = {}
      BY <2>4 DEF OnList
    <3> HIDE DEF listed
    <3>2. Cardinality(listed) = 0
      BY <3>1, FS_EmptySet
    <3>3. CASE results[i] # <<>>
      <4>1. Holding(i) = {}
        BY <3>3 DEF Holding
      <4>2. Cardinality(Holding(i)) = 0
        BY <4>1, FS_EmptySet
      <4>3. Len(results[i]) = 1
        BY <2>2, <3>3
      <4> QED BY <3>2, <4>2, <4>3 DEF listed
    <3>4. CASE results[i] = <<>>
      <4>1. PICK t \in Threads : workItem[t] = i
        BY <2>1, <2>4, <3>4 DEF FilesInPlace
      <4>2. Holding(i) = {t}
        BY <2>1, <3>4, <4>1 DEF FilesInPlace, Holding
      <4>3. Cardinality(Holding(i)) = 1
        BY <4>2, FS_Singleton
      <4> QED BY <2>2, <3>2, <3>4, <4>3 DEF listed
    <3> QED BY <3>3, <3>4
  <2> QED BY <2>3, <2>4
<1> QED BY <1>1, DriverInvariance, PTL

\* The exit code reports a failure exactly when some file failed (CompileFile,
\* singleMain), whichever thread compiled it and whichever came last.
THEOREM ExitCode == DriverSpec => []ExitCodeRight
<1>1. DriverIInv => ExitCodeRight
  <2> SUFFICES ASSUME DriverIInv, mainPc = "done"
               PROVE  exitCode = "EFailCompile" <=>
                        \E i \in ItemSet : results[i][Len(results[i])] = FALSE
    BY DEF ExitCodeRight
  <2>1. /\ FilesInPlace /\ FlagRight /\ results \in [ItemSet -> Seq(BOOLEAN)]
        /\ NoItem \notin ItemSet
        /\ \A t \in Threads : workerPc[t] \in {"new", "exited"}
        /\ worklist = <<>>
    BY DriverShape DEF DriverIInv, DriverTypeOK, WorkersRun, DriverShape
  <2>2. \A i \in ItemSet : ~OnList(i) /\ \A t \in Threads : workItem[t] # i
    BY <2>1 DEF FilesInPlace, OnList
  <2>3. \A i \in ItemSet : results[i] # <<>> /\ Len(results[i]) = 1 /\ results[i][1] \in BOOLEAN
    <3> TAKE i \in ItemSet
    <3>1. results[i] # <<>> /\ Len(results[i]) <= 1 /\ Len(results[i]) \in Nat
      BY <2>1, <2>2, LenProperties DEF FilesInPlace
    <3>2. Len(results[i]) = 1
      <4>1. results[i] \in Seq(BOOLEAN)
        BY <2>1
      <4> DEFINE len == Len(results[i])
      <4>2. len # 0
        BY <3>1, <4>1, EmptySeq, Zenon
      <4>3. len \in Nat /\ len <= 1
        BY <3>1
      <4> HIDE DEF len
      <4>4. len = 1
        BY <4>2, <4>3
      <4> QED BY <4>4 DEF len
    <3> QED BY <2>1, <3>1, <3>2, ElementOfSeq
  <2>4. exitCode = "EFailCompile" <=> \E i \in ItemSet : ~results[i][1]
    BY <2>1, <2>3 DEF FlagRight
  <2>5. \A i \in ItemSet : ~results[i][1] <=> results[i][Len(results[i])] = FALSE
    BY <2>3
  <2> QED BY <2>4, <2>5
<1> QED BY <1>1, DriverInvariance, PTL

===============================================================================
