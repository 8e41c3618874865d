------------------------------ MODULE ShaderLang ------------------------------
(***************************************************************************)
(* The process-wide state of glslang (MachineIndependent/ShaderLang.cpp):  *)
(* the reference count of clients, the process-global pool, and the        *)
(* built-in symbol tables that are built lazily, once per version/profile/ *)
(* source, and then shared by every compiling thread.                      *)
(*                                                                         *)
(* init_lock serialises ShInitialize, ShFinalize and                       *)
(* SetupBuiltinSymbolTable.  The table that a compile adopts is read in    *)
(* ProcessDeferred WITHOUT the lock, and used for the whole parse: what    *)
(* keeps it alive is only the reference count.                             *)
(***************************************************************************)
EXTENDS Integers, FiniteSets

CONSTANTS Threads,      \* threads that call the API
          Keys,         \* (version, SPIR-V version, profile, source) indices
          EsKeys,       \* the keys of the ES profile
          NumStages,    \* EShLangCount
          FragmentStage,\* EShLangFragment
          StagesOf,     \* key -> the stages InitializeSymbolTables fills
          Clients,      \* references that may be taken with ShInitialize
          Owner,        \* client -> the thread that takes and drops it
          Sponsor,      \* thread -> the client that covers its compiles
          NoThread

Stages == 1 .. NumStages
Classes == {"EPcGeneral", "EPcFragment"}

ASSUME ConstantsAssumption ==
  /\ IsFiniteSet(Clients)
  /\ EsKeys \subseteq Keys
  /\ NumStages \in Nat \ {0}
  /\ FragmentStage \in Stages
  /\ StagesOf \in [Keys -> SUBSET Stages]
  /\ Owner \in [Clients -> Threads]
  /\ Sponsor \in [Threads -> Clients]
  /\ NoThread \notin Threads

VARIABLES
  NumberOfClients,      \* the reference count
  PerProcessGPA,        \* 0 is nullptr; otherwise which incarnation of the pool
  lastGPA,              \* how many process pools have been created so far
  init_lock,            \* the thread that holds the mutex
  CommonSymbolTable,    \* key -> precision class -> table
  SharedSymbolTables,   \* key -> stage -> table
  holders,              \* the clients whose ShInitialize is not yet undone
  pc,                   \* thread -> where it is in the API
  job,                  \* thread -> key and stage being compiled
  cachedTable,          \* thread -> the table its compile adopted
  success,              \* thread -> result of the call so far
  stageAt,              \* thread -> next stage SetupBuiltinSymbolTable publishes
  threadPool,           \* thread -> its thread-local pool allocator
  previousAllocator,    \* thread -> the pool to switch back to
  builtInPool,          \* thread -> does its pool for the built-ins exist
  compilerPool,         \* thread -> does its compiler object (and pool) exist
  pushes                \* thread -> pushes of the compiler's pool not popped

vars == <<NumberOfClients, PerProcessGPA, lastGPA, init_lock, CommonSymbolTable,
          SharedSymbolTables, holders, pc, job, cachedTable, success, stageAt,
          threadPool, previousAllocator, builtInPool, compilerPool, pushes>>

processVars == <<NumberOfClients, PerProcessGPA, lastGPA, init_lock,
                 CommonSymbolTable, SharedSymbolTables, holders>>
poolVars == <<threadPool, previousAllocator, builtInPool, compilerPool, pushes>>

-------------------------------------------------------------------------------
(* A table object: the incarnation of the pool its symbols live in, whether  *)
(* copyTable has filled it, and whether it was made read-only.               *)
Table == [gen : Nat, filled : BOOLEAN, readOnly : BOOLEAN]
NoTable == [gen |-> 0, filled |-> FALSE, readOnly |-> FALSE]
FreshTable == [gen |-> PerProcessGPA, filled |-> FALSE, readOnly |-> FALSE]
FilledTable == [gen |-> PerProcessGPA, filled |-> TRUE, readOnly |-> TRUE]

\* The pools a thread's allocator pointer can name.
Pools == {"default", "compiler", "builtin", "process"}

Steps == {"idle", "setup", "build", "common", "shared", "fill", "cleanup",
          "lookup", "parse", "compiled", "freeShared", "freeCommon", "freeGPA"}

\* The steps a thread takes while it holds init_lock.
LockedSteps == {"build", "common", "shared", "fill", "cleanup",
                "freeShared", "freeCommon", "freeGPA"}

\* The common table a stage of key k builds on.
CommonIndex(k, s) ==
  IF k \in EsKeys /\ s = FragmentStage THEN "EPcFragment" ELSE "EPcGeneral"

ClassesOf(k) == IF k \in EsKeys THEN Classes ELSE {"EPcGeneral"}

(* Decisions of the code that the actions below share, each with a variant   *)
(* that a plausible slip would make of it.                                   *)

\* SetupBuiltinSymbolTable and ShFinalize wait for the mutex.
NoWait == TRUE
LockFree == init_lock = NoThread

\* What ShFinalize does with the decremented count.
AlwaysTearDown(count) == TRUE
TearDown(count) == ~(count > 0)

CountClient(n) == n + 1

\* ProcessDeferred pushes the thread's pool; its caller pops.
Push(n) == n + 1

\* The early return of SetupBuiltinSymbolTable.
RebuildAlways(k) == FALSE
AlreadyBuilt(k) == CommonSymbolTable[k]["EPcGeneral"] # NoTable

AfterBuild(ok) == IF ok THEN "common" ELSE "cleanup"

\* The loop over the stages that publishes the shared tables.
StageLoop(s) == s \in Stages

ProcessPool == IF PerProcessGPA = 0 THEN "default" ELSE "process"

\* SetThreadPoolAllocator(&previousAllocator) on the way out.
SwitchBack(t) == previousAllocator[t]

Goto(t, step) == pc' = [pc EXCEPT ![t] = step]

Init ==
  /\ NumberOfClients = 0
  /\ PerProcessGPA = 0
  /\ lastGPA = 0
  /\ init_lock = NoThread
  /\ CommonSymbolTable = [k \in Keys |-> [c \in Classes |-> NoTable]]
  /\ SharedSymbolTables = [k \in Keys |-> [s \in Stages |-> NoTable]]
  /\ holders = {}
  /\ pc = [t \in Threads |-> "idle"]
  /\ job \in [Threads -> Keys \X Stages]
  /\ cachedTable = [t \in Threads |-> NoTable]
  /\ success = [t \in Threads |-> TRUE]
  /\ stageAt = [t \in Threads |-> 1]
  /\ threadPool = [t \in Threads |-> "default"]
  /\ previousAllocator = [t \in Threads |-> "default"]
  /\ builtInPool = [t \in Threads |-> FALSE]
  /\ compilerPool = [t \in Threads |-> FALSE]
  /\ pushes = [t \in Threads |-> 0]

-------------------------------------------------------------------------------
(* The reference count. *)

ShInitialize(t, c) ==
  /\ pc[t] = "idle"
  /\ c \notin holders
  /\ LockFree
  /\ NumberOfClients' = CountClient(NumberOfClients)
  /\ holders' = holders \cup {c}
  /\ IF PerProcessGPA = 0
       THEN /\ lastGPA' = lastGPA + 1
            /\ PerProcessGPA' = lastGPA + 1
       ELSE UNCHANGED <<lastGPA, PerProcessGPA>>
  /\ UNCHANGED <<init_lock, CommonSymbolTable, SharedSymbolTables, pc, job,
                 cachedTable, success, stageAt, poolVars>>

\* Under the lock: drop a reference; the last one goes on to tear down.
ShFinalize(t, c) ==
  /\ pc[t] = "idle"
  /\ c \in holders
  /\ LockFree
  /\ NumberOfClients' = NumberOfClients - 1
  /\ holders' = holders \ {c}
  /\ IF TearDown(NumberOfClients - 1)
       THEN init_lock' = t /\ Goto(t, "freeShared")
       ELSE UNCHANGED <<init_lock, pc>>
  /\ UNCHANGED <<PerProcessGPA, lastGPA, CommonSymbolTable, SharedSymbolTables,
                 job, cachedTable, success, stageAt, poolVars>>

FreeShared(t) ==
  /\ pc[t] = "freeShared"
  /\ SharedSymbolTables' = [k \in Keys |-> [s \in Stages |-> NoTable]]
  /\ Goto(t, "freeCommon")
  /\ UNCHANGED <<NumberOfClients, PerProcessGPA, lastGPA, init_lock, holders,
                 CommonSymbolTable, job, cachedTable, success, stageAt, poolVars>>

FreeCommon(t) ==
  /\ pc[t] = "freeCommon"
  /\ CommonSymbolTable' = [k \in Keys |-> [c \in Classes |-> NoTable]]
  /\ Goto(t, "freeGPA")
  /\ UNCHANGED <<NumberOfClients, PerProcessGPA, lastGPA, init_lock, holders,
                 SharedSymbolTables, job, cachedTable, success, stageAt, poolVars>>

FreeGPA(t) ==
  /\ pc[t] = "freeGPA"
  /\ PerProcessGPA' = 0
  /\ init_lock' = NoThread
  /\ Goto(t, "idle")
  /\ UNCHANGED <<NumberOfClients, lastGPA, holders, CommonSymbolTable,
                 SharedSymbolTables, job, cachedTable, success, stageAt, poolVars>>

-------------------------------------------------------------------------------
(* Compiler objects: each one owns the pool its compiles allocate from. *)

ShConstructCompiler(t) ==
  /\ pc[t] = "idle"
  /\ ~compilerPool[t]
  /\ compilerPool' = [compilerPool EXCEPT ![t] = TRUE]
  /\ pushes' = [pushes EXCEPT ![t] = 0]
  /\ UNCHANGED <<processVars, pc, job, cachedTable, success, stageAt,
                 threadPool, previousAllocator, builtInPool>>

\* The pool goes with the object; the thread-local pointer is left as it is.
ShDestruct(t) ==
  /\ pc[t] = "idle"
  /\ compilerPool[t]
  /\ compilerPool' = [compilerPool EXCEPT ![t] = FALSE]
  /\ UNCHANGED <<processVars, pc, job, cachedTable, success, stageAt,
                 threadPool, previousAllocator, builtInPool, pushes>>

\* ShCompile up to SetupBuiltinSymbolTable; with no strings ProcessDeferred
\* returns at once, successfully.
ShCompile(t, k, s, numStrings) ==
  /\ pc[t] = "idle"
  /\ compilerPool[t]
  /\ threadPool' = [threadPool EXCEPT ![t] = "compiler"]
  /\ pushes' = [pushes EXCEPT ![t] = Push(@)]
  /\ job' = [job EXCEPT ![t] = <<k, s>>]
  /\ success' = [success EXCEPT ![t] = TRUE]
  /\ Goto(t, IF numStrings = 0 THEN "compiled" ELSE "setup")
  /\ UNCHANGED <<processVars, cachedTable, stageAt, previousAllocator,
                 builtInPool, compilerPool>>

\* ShCompile's epilogue: drop everything this compile allocated.
CompileEnd(t) ==
  /\ pc[t] = "compiled"
  /\ pushes' = [pushes EXCEPT ![t] = @ - 1]
  /\ Goto(t, "idle")
  /\ UNCHANGED <<processVars, job, cachedTable, success, stageAt, threadPool,
                 previousAllocator, builtInPool, compilerPool>>

-------------------------------------------------------------------------------
(* SetupBuiltinSymbolTable, and the use of its result. *)

\* Someone has already built the tables of this key.
SetupHit(t) ==
  /\ pc[t] = "setup"
  /\ LockFree
  /\ AlreadyBuilt(job[t][1])
  /\ Goto(t, "lookup")
  /\ UNCHANGED <<processVars, job, cachedTable, success, stageAt, poolVars>>

\* Nobody has: keep the lock and switch to a pool of its own for the parse.
SetupMiss(t) ==
  /\ pc[t] = "setup"
  /\ LockFree
  /\ ~AlreadyBuilt(job[t][1])
  /\ init_lock' = t
  /\ previousAllocator' = [previousAllocator EXCEPT ![t] = threadPool[t]]
  /\ builtInPool' = [builtInPool EXCEPT ![t] = TRUE]
  /\ threadPool' = [threadPool EXCEPT ![t] = "builtin"]
  /\ Goto(t, "build")
  /\ UNCHANGED <<NumberOfClients, PerProcessGPA, lastGPA, holders,
                 CommonSymbolTable, SharedSymbolTables, job, cachedTable,
                 success, stageAt, compilerPool, pushes>>

\* Parse the built-in texts into local tables; any of them may fail to parse.
InitializeSymbolTables(t, ok) ==
  /\ pc[t] = "build"
  /\ success' = [success EXCEPT ![t] = ok]
  /\ threadPool' = [threadPool EXCEPT ![t] = IF ok THEN ProcessPool ELSE @]
  /\ Goto(t, AfterBuild(ok))
  /\ UNCHANGED <<processVars, job, cachedTable, stageAt, previousAllocator,
                 builtInPool, compilerPool, pushes>>

\* Publish a read-only copy of each non-empty common table.
PublishCommon(t) ==
  LET k == job[t][1] IN
  /\ pc[t] = "common"
  /\ CommonSymbolTable' = [CommonSymbolTable EXCEPT ![k] =
       [c \in Classes |-> IF c \in ClassesOf(k) THEN FilledTable ELSE @[c]]]
  /\ stageAt' = [stageAt EXCEPT ![t] = 1]
  /\ Goto(t, "shared")
  /\ UNCHANGED <<NumberOfClients, PerProcessGPA, lastGPA, init_lock, holders,
                 SharedSymbolTables, job, cachedTable, success, poolVars>>

\* The next stage: a new table, on the levels of its common table; a stage
\* whose local table stayed empty is skipped.
PublishShared(t) ==
  LET k == job[t][1]
      s == stageAt[t]
  IN
  /\ pc[t] = "shared"
  /\ StageLoop(s)
  /\ IF s \in StagesOf[k]
       THEN /\ SharedSymbolTables' =
                 [SharedSymbolTables EXCEPT ![k][s] = FreshTable]
            /\ Goto(t, "fill")
            /\ UNCHANGED stageAt
       ELSE /\ stageAt' = [stageAt EXCEPT ![t] = s + 1]
            /\ UNCHANGED <<SharedSymbolTables, pc>>
  /\ UNCHANGED <<NumberOfClients, PerProcessGPA, lastGPA, init_lock, holders,
                 CommonSymbolTable, job, cachedTable, success, poolVars>>

\* copyTable and readOnly on the table just created.
FillShared(t) ==
  /\ pc[t] = "fill"
  /\ SharedSymbolTables' =
       [SharedSymbolTables EXCEPT ![job[t][1]][stageAt[t]] = FilledTable]
  /\ stageAt' = [stageAt EXCEPT ![t] = @ + 1]
  /\ Goto(t, "shared")
  /\ UNCHANGED <<NumberOfClients, PerProcessGPA, lastGPA, init_lock, holders,
                 CommonSymbolTable, job, cachedTable, success, poolVars>>

PublishDone(t) ==
  /\ pc[t] = "shared"
  /\ ~StageLoop(stageAt[t])
  /\ Goto(t, "cleanup")
  /\ UNCHANGED <<processVars, job, cachedTable, success, stageAt, poolVars>>

\* Delete the local tables and their pool, switch back, release the lock.
Cleanup(t) ==
  /\ pc[t] = "cleanup"
  /\ builtInPool' = [builtInPool EXCEPT ![t] = FALSE]
  /\ threadPool' = [threadPool EXCEPT ![t] = SwitchBack(t)]
  /\ init_lock' = NoThread
  /\ Goto(t, IF success[t] THEN "lookup" ELSE "compiled")
  /\ UNCHANGED <<NumberOfClients, PerProcessGPA, lastGPA, holders,
                 CommonSymbolTable, SharedSymbolTables, job, cachedTable,
                 success, stageAt, previousAllocator, compilerPool, pushes>>

\* ProcessDeferred reads the shared table, without the lock.
Lookup(t) ==
  /\ pc[t] = "lookup"
  /\ cachedTable' = [cachedTable EXCEPT ![t] =
                       SharedSymbolTables[job[t][1]][job[t][2]]]
  /\ Goto(t, "parse")
  /\ UNCHANGED <<processVars, job, success, stageAt, poolVars>>

\* Context-specific symbols, parse and postprocess, on the adopted levels; the
\* symbol table that adopted them is deleted on return.
Parse(t, ok) ==
  /\ pc[t] = "parse"
  /\ success' = [success EXCEPT ![t] = ok]
  /\ cachedTable' = [cachedTable EXCEPT ![t] = NoTable]
  /\ Goto(t, "compiled")
  /\ UNCHANGED <<processVars, job, stageAt, poolVars>>

-------------------------------------------------------------------------------
(* What a thread does on its own once it is inside the API. *)
Progress(t) ==
  \/ FreeShared(t) \/ FreeCommon(t) \/ FreeGPA(t)
  \/ SetupHit(t) \/ SetupMiss(t)
  \/ \E ok \in BOOLEAN : InitializeSymbolTables(t, ok)
  \/ PublishCommon(t) \/ PublishShared(t) \/ FillShared(t) \/ PublishDone(t)
  \/ Cleanup(t) \/ Lookup(t)
  \/ \E ok \in BOOLEAN : Parse(t, ok)
  \/ CompileEnd(t)

(* The callers' contract, stated at ShaderLang.h: initialise before anything  *)
(* else, finalise after everything else.  A thread compiles only under its    *)
(* sponsoring client, which is not dropped while such a compile is running.   *)
MayCompile(t) == Sponsor[t] \in holders
MayFinalize(c) == \A t \in Threads : Sponsor[t] = c => pc[t] = "idle"

Initialize(t) == \E c \in Clients : Owner[c] = t /\ ShInitialize(t, c)
Finalize(t) ==
  \E c \in Clients : Owner[c] = t /\ MayFinalize(c) /\ ShFinalize(t, c)
Compile(t) ==
  /\ MayCompile(t)
  /\ \E k \in Keys, numStrings \in {0, 1} :
       \E s \in StagesOf[k] : ShCompile(t, k, s, numStrings)

Next ==
  \E t \in Threads :
    \/ Initialize(t) \/ Finalize(t)
    \/ ShConstructCompiler(t) \/ ShDestruct(t) \/ Compile(t)
    \/ Progress(t)

Spec == Init /\ [][Next]_vars

-------------------------------------------------------------------------------
(* Properties. *)

TypeOK ==
  /\ NumberOfClients \in Int
  /\ PerProcessGPA \in Nat
  /\ lastGPA \in Nat
  /\ init_lock \in Threads \cup {NoThread}
  /\ CommonSymbolTable \in [Keys -> [Classes -> Table]]
  /\ SharedSymbolTables \in [Keys -> [Stages -> Table]]
  /\ holders \subseteq Clients
  /\ pc \in [Threads -> Steps]
  /\ job \in [Threads -> Keys \X Stages]
  /\ cachedTable \in [Threads -> Table]
  /\ success \in [Threads -> BOOLEAN]
  /\ stageAt \in [Threads -> 1 .. NumStages + 1]
  /\ threadPool \in [Threads -> Pools]
  /\ previousAllocator \in [Threads -> Pools]
  /\ builtInPool \in [Threads -> BOOLEAN]
  /\ compilerPool \in [Threads -> BOOLEAN]
  /\ pushes \in [Threads -> Int]

(* NumberOfClients counts exactly the initialisations not yet undone, so that *)
(* only the last ShFinalize tears anything down, and the assertion in         *)
(* ShFinalize that it never goes negative holds.                              *)
ClientCountExact ==
  /\ NumberOfClients = Cardinality(holders)
  /\ NumberOfClients >= 0

(* Every published table, and every table a compile has adopted, lives in the *)
(* process pool that exists now: no pool is deleted under a table.            *)
TablesInLivePool ==
  /\ \A k \in Keys : \A c \in Classes :
       CommonSymbolTable[k][c] # NoTable =>
         CommonSymbolTable[k][c].gen = PerProcessGPA
  /\ \A k \in Keys : \A s \in Stages :
       SharedSymbolTables[k][s] # NoTable =>
         SharedSymbolTables[k][s].gen = PerProcessGPA
  /\ \A t \in Threads :
       cachedTable[t] # NoTable => cachedTable[t].gen = PerProcessGPA

(* What ProcessDeferred reads without the lock is right: while it parses, the *)
(* table it adopted is filled, read-only and still the shared one.            *)
AdoptedTableComplete ==
  \A t \in Threads : pc[t] = "parse" =>
    /\ cachedTable[t] = SharedSymbolTables[job[t][1]][job[t][2]]
    /\ job[t][2] \in StagesOf[job[t][1]] =>
         cachedTable[t].filled /\ cachedTable[t].readOnly

(* Setup never builds a stage on a common table that is not there: the        *)
(* precision class CommonIndex picks was filled for that profile.             *)
StageBaseReady ==
  \A t \in Threads :
    pc[t] = "shared" /\ stageAt[t] \in StagesOf[job[t][1]] =>
      CommonSymbolTable[job[t][1]][CommonIndex(job[t][1], stageAt[t])].readOnly

\* The pool a thread allocates from while it is in a call exists.
PoolExists(t) ==
  CASE threadPool[t] = "compiler" -> compilerPool[t]
    [] threadPool[t] = "builtin"  -> builtInPool[t]
    [] threadPool[t] = "process"  -> PerProcessGPA # 0
    [] threadPool[t] = "default"  -> TRUE

(* No allocation goes to a deleted pool; outside SetupBuiltinSymbolTable a    *)
(* compile allocates from its own compiler's pool, whose push it will pop.    *)
AllocatesFromLivePool ==
  \A t \in Threads :
    /\ pc[t] \notin {"idle", "freeShared", "freeCommon", "freeGPA"} =>
         PoolExists(t)
    /\ pc[t] \in {"setup", "lookup", "parse", "compiled"} =>
         threadPool[t] = "compiler" /\ pushes[t] = 1
    /\ pc[t] = "idle" /\ compilerPool[t] => pushes[t] = 0

(* Whatever is done while publishing happens in the process pool: what        *)
(* outlives the call is never left in the built-in pool deleted on return.    *)
PublishesIntoProcessPool ==
  \A t \in Threads :
    pc[t] \in {"common", "shared", "fill"} => threadPool[t] = "process"

(* A table that was made read-only is never written again: it stays as it is  *)
(* until teardown removes it.                                                 *)
ReadOnlyIsFinal ==
  [][/\ \A k \in Keys : \A c \in Classes :
          CommonSymbolTable[k][c].readOnly =>
            CommonSymbolTable'[k][c] \in {CommonSymbolTable[k][c], NoTable}
     /\ \A k \in Keys : \A s \in Stages :
          SharedSymbolTables[k][s].readOnly =>
            SharedSymbolTables'[k][s] \in {SharedSymbolTables[k][s], NoTable}
    ]_vars

(* The inductive invariant behind the properties above.                       *)

\* The lock is held exactly by the thread inside the locked code.
LockInv == \A t \in Threads : init_lock = t <=> pc[t] \in LockedSteps

\* A running compile is covered by its client; teardown has no client left,
\* and outside teardown the process pool exists exactly while someone does.
CoverInv ==
  /\ \A t \in Threads :
       pc[t] \notin {"idle", "freeShared", "freeCommon", "freeGPA"} =>
         Sponsor[t] \in holders
  /\ \A t \in Threads :
       pc[t] \in {"freeShared", "freeCommon", "freeGPA"} => holders = {}
  /\ holders # {} => PerProcessGPA # 0

\* Tables belong to the pool that exists; teardown removes them in order.
TableInv ==
  /\ \A k \in Keys : \A c \in Classes :
       CommonSymbolTable[k][c] \in {NoTable, FilledTable}
  /\ \A k \in Keys : \A s \in Stages :
       SharedSymbolTables[k][s] \in {NoTable, FreshTable, FilledTable}
  /\ \A t \in Threads : pc[t] \in {"freeCommon", "freeGPA"} =>
       \A k \in Keys : \A s \in Stages : SharedSymbolTables[k][s] = NoTable
  /\ \A t \in Threads : pc[t] = "freeGPA" =>
       \A k \in Keys : \A c \in Classes : CommonSymbolTable[k][c] = NoTable
  /\ PerProcessGPA = 0 => \A k \in Keys :
       /\ \A c \in Classes : CommonSymbolTable[k][c] = NoTable
       /\ \A s \in Stages : SharedSymbolTables[k][s] = NoTable

\* The keys that look built, and those with all that setup publishes there.
BuiltKeys == {k \in Keys : AlreadyBuilt(k)}
CommonKeys ==
  {k \in Keys : \A c \in ClassesOf(k) : CommonSymbolTable[k][c] = FilledTable}
CompleteKeys ==
  {k \in CommonKeys :
     \A s \in StagesOf[k] : SharedSymbolTables[k][s] = FilledTable}

\* Where a publishing thread stands, and that nobody is served its key yet.
PublishInv ==
  /\ \A t \in Threads : pc[t] \in {"build", "common"} =>
       job[t][1] \notin BuiltKeys
  /\ \A t \in Threads : pc[t] \in {"shared", "fill"} =>
       /\ job[t][1] \in CommonKeys
       /\ \A s \in StagesOf[job[t][1]] : s < stageAt[t] =>
            SharedSymbolTables[job[t][1]][s] = FilledTable
       /\ \A u \in Threads : pc[u] \in {"lookup", "parse"} =>
            job[u][1] # job[t][1]
  /\ \A t \in Threads : pc[t] = "fill" => stageAt[t] \in StagesOf[job[t][1]]
  /\ \A t \in Threads : pc[t] \in {"common", "shared", "fill"} => success[t]
  /\ \A t \in Threads :
       pc[t] \in {"lookup", "parse"} \/ (pc[t] = "cleanup" /\ success[t]) =>
         job[t][1] \in CompleteKeys
  /\ \A k \in BuiltKeys :
       /\ \A t \in Threads : pc[t] \in {"shared", "fill"} => job[t][1] # k
       /\ \A t \in Threads : pc[t] # "freeCommon"
       => k \in CompleteKeys

\* What a parse adopted is still what is shared.
AdoptInv ==
  \A t \in Threads : pc[t] = "parse" =>
       cachedTable[t] = SharedSymbolTables[job[t][1]][job[t][2]]

\* Which pool each step of a call allocates from.
PoolInv ==
  \A t \in Threads :
    /\ pc[t] \notin {"idle", "freeShared", "freeCommon", "freeGPA"} =>
         compilerPool[t] /\ pushes[t] = 1
    /\ pc[t] \in {"setup", "lookup", "parse", "compiled"} =>
         threadPool[t] = "compiler"
    /\ pc[t] \in {"build", "common", "shared", "fill", "cleanup"} =>
         builtInPool[t] /\ previousAllocator[t] = "compiler"
    /\ pc[t] = "build" => threadPool[t] = "builtin"
    /\ pc[t] \in {"common", "shared", "fill"} => threadPool[t] = "process"
    /\ pc[t] = "cleanup" => threadPool[t] \in {"builtin", "process"}
    /\ pc[t] # "parse" => cachedTable[t] = NoTable
    /\ compilerPool[t] /\ pc[t] \in {"idle", "freeShared", "freeCommon", "freeGPA"} =>
         pushes[t] = 0

\* Nothing of a key's tables is there before its setup comes to it, and a
\* setup that failed leaves nothing behind.
UnpublishedInv ==
  /\ \A k \in Keys \ BuiltKeys : \A s \in Stages : SharedSymbolTables[k][s] = NoTable
  /\ \A t \in Threads : pc[t] \in {"shared", "fill"} =>
       \A s \in Stages :
         \/ s < stageAt[t]
         \/ SharedSymbolTables[job[t][1]][s] = NoTable
         \/ pc[t] = "fill" /\ s = stageAt[t] /\ SharedSymbolTables[job[t][1]][s] = FreshTable
  /\ \A t \in Threads : pc[t] = "cleanup" /\ ~success[t] => job[t][1] \notin BuiltKeys

IInv == /\ TypeOK /\ ClientCountExact /\ LockInv /\ CoverInv
        /\ TableInv /\ PublishInv /\ AdoptInv
        /\ PoolInv

(* The abstraction the callers rely on: a reference-counted cache whose       *)
(* entries appear complete and disappear only with the last reference.        *)
Serving ==
  [t \in Threads |->
     IF pc[t] \in {"lookup", "parse"} THEN {job[t][1]} ELSE {}]
Built ==
  {k \in Keys : /\ CommonSymbolTable[k]["EPcGeneral"] # NoTable
                /\ \A t \in Threads :
                     pc[t] \in {"shared", "fill", "cleanup"} => job[t][1] # k}
Cache == INSTANCE BuiltinCache WITH
           references <- holders, built <- Built, serving <- Serving
CacheSpec == Cache!Spec
===============================================================================
