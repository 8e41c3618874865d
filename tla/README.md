# A TLA+ verification project for glslang and glsld

The repository is a fork of the Khronos reference front end for GLSL, ESSL and
HLSL (`glslang/`, `SPIRV/`, `StandAlone/`) that adds a language server
(`glsld/`).  This directory holds TLA+ modules for the parts whose correctness
depends on state, order and interleaving, the TLC configurations that check them
on small instances, and proofs that TLAPS checks for every value of the
constants.  `PROJECT.json` lists components, runs, mutants, the source lines
that every definition stands for, findings, hazards and theorems.

Contents: [1 The system](#1-the-system) ·
[2 Modules and code](#2-modules-and-code) · [3 Runs](#3-runs) ·
[4 Fairness](#4-fairness) · [5 Findings](#5-findings) · [6 Proofs](#6-proofs) ·
[7 What is not modelled](#7-what-is-not-modelled) · [8 Plan](#8-plan)

## 1. The system

### 1.1 Inventory

| Component | State it keeps | Operations | What makes it correct |
| --- | --- | --- | --- |
| **Process lifecycle and shared built-in tables** `ShaderLang.cpp` | `NumberOfClients`, `PerProcessGPA`, `CommonSymbolTable`, `SharedSymbolTables`, `init_lock`; each thread's current pool | `ShInitialize`, `ShFinalize`, `ShConstructCompiler`, `ShDestruct`, `ShCompile`, `SetupBuiltinSymbolTable`, `ProcessDeferred` | the count is exact; a table is complete and alive for as long as a compile uses it, though it is read without the lock; nobody allocates from a deleted pool |
| **Command line driver** `StandAlone.cpp`, `Worklist.h` | work list, results, `CompileFailed` | `singleMain`, `CompileShaders`, `CompileFile`, `TWorklist::remove` | every file is compiled once, results are final when printed, the exit code is right, references cover the workers |
| **Pool allocator** `PoolAlloc.{h,cpp}` | list of blocks in use, free list, offset, stack of marks | `push`, `pop`, `popAll`, `allocate` | live regions never overlap and lie inside a block in use; a pop gives up exactly what came after its mark |
| **Symbol table** `SymbolTable.{h,cpp}` and the parser's use of it | levels, unique id with the level in it, default precisions | insert, `push`/`pop`, `copyUp`, amending of ids, redeclaration, qualification, use | ids are distinct and tell built-ins, names do not clash, edits are kept and never reach the levels all compiles share |
| **Preprocessor: conditional directives** `Pp.cpp` | `ifdepth`, `elsetracker`, `elseSeen[]`, the parameters of `CPPelse` | `CPPif`, `CPPifdef`, `CPPelse`, `readCPPline` | the same text reaches the parser as with a stack of groups |
| **Preprocessor: `#include`** `Pp.cpp`, `PpContext.{h,cpp}` | stack of inputs, stack of includes, current file, scanner | `CPPinclude`, end of an input, destruction | the three places follow the stack of inputs; a result is released once, and not while it is scanned |
| **Includer of the standalone program** `DirStackFileIncluder.h` | stack of directories over all parses | `includeLocal`, `includeSystem` | a header is looked for from the directory of its includer outwards |
| **Preprocessor: macros** `Pp.cpp`, `PpContext.{h,cpp}`, `PpTokens.cpp` | definitions with a busy bit and a cursor, inputs, activations of `MacroExpand` | `#define`, `#undef`, `MacroExpand`, `PrescanMacroArg`, `tMacroInput::scan` | the parser gets what the text means by substitution, and every text ends |
| **Language server** `glsld/` | `init_`, documents (text, analysis), the thread's pool | `initialize`, `didOpen`, `didChange`, `didSave`, `completion`, `definition` | text, analysis and diagnostics agree with the editor; every request is answered |
| **Program objects** `TProgram` in `ShaderLang.cpp` | `linked`, one merged intermediate per stage | `link`, `mapIO`, `buildReflection` | once each and in this order; errors of a stage stop what depends on it |
| **Linking** `linkValidate.cpp` | merged tree, id maps, call graph, modes of the stage | `mergeTrees`, `mergeCallGraphs`, `mergeModes`, `checkCallGraphCycles`, `checkCallGraphBodies`, `crossStageCheck` | an id tells a variable of the merged tree; recursion, missing bodies and contradicting layouts are told; nothing that is needed is dropped |
| **IO mapping** `iomapper.cpp` | per stage the inputs, outputs and uniforms gathered; slots by set and by pair of stages | gather, reserve, resolve, copy back, write | stages agree on what they share, no slot is chosen twice |
| **Reflection** `reflection.cpp`, layout rules in `linkValidate.cpp` | lists of variables and blocks, index by name, the stage walked | `addUniform`, `blowUpActiveAggregate`, `getOffset` | every use is found in the lists under one name with its offset and its stages; members do not overlap |
| **Propagation of precise** `propagateNoContraction.cpp` | two work lists, objects as access chains | collector, check of assignees, propagator | exactly the operations a precise object depends on are marked, in whatever order the lists are taken |
| **Statements of GLSL** `glslang.y`, `ParseHelper.cpp` | nesting counters of loops and switches, stack of switches | one reduction per statement | a jump or label is accepted exactly where it is legal |
| **SPIR-V control flow** `GlslangToSpv.cpp`, `SpvBuilder.cpp`, `InReadableOrder.cpp`, `SpvPostProcess.cpp` | blocks, build point, stacks of loops and of switches, `breakForLoop`; then the traversal's sets | visits of statements, `postProcessCFG`, `dump` | running the blocks written does what the body says; every block is terminated once and headers are merged |
| **SPIR-V accesses** `SpvBuilder.cpp`, `GlslangToSpv.cpp` | one active access chain and copies of it | push of an index, swizzle or component; load, store; assignment, increment, call | what is read and written is what the dereferences select |
| **SPIR-V remapper** `SPVRemapper.cpp` | the words, id map, name map, strip ranges, functions and calls | `strip`, `optLoadStore`, `dceFuncs`, `dceVars`, `dceTypes`, `map*` | the module does what it did; ids in use stay apart |
| Scanners, versions, grammar and semantics, built-in text, tree, HLSL, instructions and types of SPIR-V, disassembler, C interfaces, limits, OS layer | mostly none beyond the walk they make | | rules of a language, over data |

### 1.2 How the parts interact

* A caller (the tool, the server, a test) takes a reference with `ShInitialize`
  and compiles on any thread.  `ShCompile` makes the compiler's pool the
  *thread's current pool*; everything the parse allocates comes from there.
* `ProcessDeferred` lets `SetupBuiltinSymbolTable` build the tables of its
  version and profile if they are missing, under `init_lock`; it then reads the
  shared table *after the lock is released*, adopts its levels and parses.
  Nothing but the reference count keeps those levels alive.
* The parse runs scanner → preprocessor → parser in one thread, by pulling
  tokens.  The preprocessor calls the includer back; the parser inserts in the
  symbol table and copies built-ins up from shared levels before it edits them.
* The driver's workers hold no reference: main's covers them until the join.
* When a unit's parse ends, precise is propagated in its tree.  A program links
  the units of each stage, maps what the stages share and reflects the result:
  each of these reads and rewrites the trees that the one before left.
* The traverser of a tree drives `spv::Builder` block by block; post-processing
  cuts dead blocks out, and the blocks are written in readable order.  The remapper
  is a tool of its own that works on a finished module.
* glsld handles one message at a time.  A document parses through `TShader`;
  completions and definitions read what the last good parse left.

### 1.3 What is hard

| Behaviour | Where |
| --- | --- |
| interleaving of threads, a table read after an unlock, teardown by the last client | `ShaderLang.cpp` 480–545, 995–1010, 1425–1470 |
| work list that runs empty under several takers; join before finalise | `StandAlone.cpp`, `Worklist.h` |
| boundary arithmetic with reuse of pages | `PoolAlloc.cpp` 224–295 |
| an editor that runs ahead of the server, saves late, reopens | `glsld/` |
| state kept in counters and flags in place of a stack | `Pp.cpp` 240–320, `PpContext.h` 411–414 |
| one bit and one cursor per macro under recursive scanning | `Pp.cpp` 1040–1345 |
| three places that must follow one stack, also when a parse is abandoned | `PpContext.h` 640–730 |
| edits of shared structures that must go to a copy, however edits are mixed | `SymbolTable.h` 700–790, `ParseHelper.cpp` |
| ids of units parsed apart, made one by name and by shift | `linkValidate.cpp` 675–823 |
| slots reserved by one stage and asked for by another, results copied over results | `iomapper.cpp` 880–1370, 1660–1845 |
| one name, offset and size computed along three paths; four functions with the layout rules | `reflection.cpp` 249–479, `linkValidate.cpp` 2381–2708 |
| work lists of strings and pointers that grow while they are taken from | `propagateNoContraction.cpp` 787–868 |
| a build point and four stacks that must agree at every jump, also in dead code | `GlslangToSpv.cpp` 4554–4817, `SpvBuilder.cpp` 4002–4166, 4591–4652 |
| a traversal that puts blocks off, used twice over different blocks | `InReadableOrder.cpp` 56–131, `SpvPostProcess.cpp` 341–399 |
| one access chain for whatever is evaluated, with an instruction it remembers | `SpvBuilder.cpp` 4168–4586 |
| loads replaced by what a scan in word order saw stored; new ids from hashes | `SPVRemapper.cpp` 259–303, 773–901, 972–1118 |

There are no crashes to recover from (nothing is persisted), no timers and no
lossy network; the hazards in `PROJECT.json` are of the kinds above.

## 2. Modules and code

Every module names the code at its head; `map` in `PROJECT.json` gives the lines.
Actions are whole handlers, except where another thread or another activation
can come between two of their steps.

### ShaderLang, with BuiltinCache as its abstract specification

`pc[t]` is where thread `t` is in the API.  `SetupMiss` takes `init_lock` and
switches to the pool for built-ins; `InitializeSymbolTables` parses or fails;
`PublishCommon`, `PublishShared` and `FillShared` publish the tables in the order of
the code, that of a stage with its pointer first and its content afterwards;
`Cleanup` restores the pool and releases the lock; `Lookup` is the unlocked read;
`Parse` ends the compile.  `ShFinalize` counts down and, for the last client, goes
through `FreeShared`, `FreeCommon` and `FreeGPA`.  A table is the incarnation of the
pool it lives in, and whether it is filled and read-only; what it declares is left
out.  `Owner` and `Sponsor` state the callers' contract: a compile runs while a
client that covers its thread holds a reference, and that client is not finalised
during it.  `BuiltinCache` is a reference-counted cache with atomic operations,
whose entries are missing or complete; `CacheSpec` says that ShaderLang implements
it.

### StandAlone

EXTENDS ShaderLang and calls its actions.  `singleMain` without linking is a
sequence of steps of `Main` (`AddItems` … `Exit`); `CompileShaders` and
`CompileFile` are those of the workers, or of main itself if the tool is not
multithreaded.  `KeepsContract` says that the driver's steps are steps of
ShaderLang: the contract assumed there is kept here.

### PoolAlloc, with MarkRelease as its abstract specification

Blocks, pages, offsets and marks as in the code, one action per branch of
`allocate`.  The history variable `frames` holds the regions that callers still
own, by mark; MarkRelease is a store that knows of nothing else.

### SymbolTable

The stack of levels, and the parser's dealings with it: `Redeclare`,
`RedeclareBlock`, `Qualify`, `PragmaInvariant` and `Use` are the ways a shader
changes a built-in variable or has it changed.  `NamedBlocks` are the built-in blocks
with an instance name, like `gl_in`, which are redeclared as a whole;
`InvariantOutputs` are those of the names in the list of `#pragma STDGL
invariant(all)` (`ParseHelper.cpp:415`) that are outputs, the only ones that
`setInvariant` touches.  An id is the level and the counter
that share one word in the code.  Histories: ids issued, changes made, ids
that uses referred to, the default precision when each scope was entered.

### PpConditionals, with CondGroups as its abstract specification

One action per kind of line and situation (reading or inside `CPPelse`).
CondGroups is what conditional groups mean: a stack of groups, each with the state
of its branches.  The refinement mapping `Groups` recovers that stack from the
counters, flags and parameters.  After an error CondGroups promises nothing, which
is what the code gives: the counters part company there (section 5).

### PpInclude and DirStackIncluder

PpInclude is the preprocessor's side for *any* includer that keeps to
`TShader::Includer`: an inclusion gets any of the allowed answers to its local and
its system search.  DirStackIncluder EXTENDS it with the tool's includer, which is
never told that a file ended and cuts its stack to the depth it is given.

### PpMacros, with MacroText as its reference definition

The scanner in small steps: a token is read from the innermost input, goes to the
innermost activation of `MacroExpand` or `PrescanMacroArg`, and may begin another.
`busy` and `at` are the bit and the cursor that all expansions of a macro share.
MacroText says what a text means by substitution, with painted tokens, in a
handful of recursive functions over plain sequences.

### Glsld

The editor and the server, with the messages between them.  A text is its version
and what a parse of it gives.  `early` marks documents opened by an editor that
does not wait for the answer to `initialize`, which the server drops.

### GlslStatements, ReadableOrder and SpvFlow

GlslStatements reads a body token by token, with the nesting counters of the
grammar, and says what the accepted tokens mean (`Arrive`, `Decided`, `Selected`:
where control goes through ifs, loops, switches and jumps; `Around`: the constructs
that have begun and not ended, told by the text alone).  SpvFlow EXTENDS it and
ReadableOrder.  The builder is a record of blocks, the function's list, the build
point and the stacks of loops and switches; every operation of `spv::Builder` takes
a builder and gives the next one, and a visit is an action that calls them in the
order of the traverser.  `PostProcessCFG` and `Dump` finish it.  ReadableOrder is
the traversal both of them use, with its delayed blocks.  The properties compare
what a run of the *written* blocks does with the meaning of the body; they name no
operation of the builder.

### AccessChain

The one access chain as a record with the fields of the code.  The object is a
function from places to values, so that a load and a store can be compared with what
the dereferences of GLSL select (`meaning`).  Assignments, compound assignments,
increments and calls save, restore and use the chain as the traverser does.

### ShaderTrees, Link, IoResolver and ProgramIo

`program` is the input: the units of each stage with their symbol nodes, calls and
modes, and the options.  Link merges one unit at a time (`MergeUnit`), with the id
map of `TBuiltInIdTraverser` and `TRemapIdTraverser`, then judges the call graph,
drops bodies and compares stages.  `obj` in a node is the variable it means, which no
code reads: it is what ids are compared with.  ProgramIo EXTENDS Link and
IoResolver: the default mapper takes each stage by itself, the GLSL one gathers all
stages, reserves what is explicit, resolves, copies back and writes; IoResolver
holds the two resolvers.

### BlockLayout and Reflection

A type is a record of base, rows and columns, dimensions, members, packing and
matrix layout; BlockLayout has the functions that align, size and place members, as
the code has them, one beside another.  Reflection EXTENDS ProgramIo: a use is a
symbol with its dereferences, and `ReflectStage` is the walk over one stage with
the explosion of aggregates and the lists.  `ReflectsUses` and `MembersApart` ask
about the options with strict suffixes, for the older ones promise no offsets, and
`MembersApart` asks whether all members are inside the block only if the last one is
placed in the matrix layout of the block (section 5).

### NoContraction

Nodes are told by their address in the tree, objects are a symbol and the members
that lead on.  The collector runs first; then the work lists are taken in any order,
one return or one object per step.  The reference is a least fixed point over places
and definitions that knows no work list.

### SpvRemapper and SpvMeaning

A module is a sequence of instructions.  Every pass is an action, in the order of
`remap`, and `dceFuncs` drops one function per step in any order, as the table of
functions is unordered.  Ids are given from hashes modulo numbers so small that they
collide.  SpvMeaning runs a function along its paths; the trace (stores to outputs,
calls with what is behind their pointers, conditions) must not change.

### What puts modules side by side

MCShaderLang (ShaderLang and PoolAlloc), MCPreprocessor (PpConditionals and
DirStackIncluder), MCSpirv (SpvFlow, AccessChain and SpvRemapper) and MCProgram
(Reflection and NoContraction) hold parts that share no variable.  The initial
state chooses one of them, and the others stand still.

## 3. Runs

Passing runs.  Deadlock is checked except where the program ends (`driver`,
`macros`, `spirv`, `program`).

| Run | Instance | What it shows | States |
| --- | --- | --- | --- |
| `process` | two threads, three references (two of one thread), a desktop and an ES key of two stages, at most two process pools; or a pool with pages of 7 behind a header of 2, alignment 2, sizes 0, 1, 3, 5 and 6, three blocks, three marks | in every interleaving: what a compile adopts is complete and alive (`AdoptedTableComplete`, `TablesInLivePool`), a read-only table never changes (`ReadOnlyIsFinal`), `CacheSpec`; the pool: `HeapInOrder` (every block is in one list, live regions lie in blocks in use), `MarkReleaseSpec` (a new region overlaps none that is live, a pop gives up just those after its mark) | 260,254 |
| `driver` | main and two workers, or main alone; three files of two keys; two compiles of each | `EachFileOnce`, `ExitCodeRight`, `KeepsContract`, `Terminates` | 36,506 |
| `glsld` | one document, three versions, a queue of three, two requests | `DocsInSync`, `SavedIsAnalysed`, `SavedIsDiagnosed`, `EveryRequestAnswered` | 50,296 |
| `symtab` | a user name, one shared with a built-in function, a block of both; a built-in at level 1, a named block at level 2 and an anonymous one at level 1 with unsized arrays | `IdsRight` (distinct, and telling built-ins), `NoNameClash`, `PrecisionsRestored`, `EditsKept`, `UsesAgree`, `SharedUntouched` | 191,492 |
| `preprocessor` | conditional directives with a nesting limit of 3; or two sources, four headers, five directories, -I with two, depth 4, with the tool's includer or any | `GroupsSpec`; `InputsInOrder` (scanner, includes and current file follow the inputs, results are held while scanned and released once), `SearchOrder` | 23,712 |
| `macros` | two macros with every definition from a list of 13 bodies and 0, 1 or 2 parameters, over 11 texts with directives in them | `InUse` (bits and cursors), `ExpandsToItsMeaning`, `Terminates` | 503,625 |
| `spirv` | bodies of up to 4 statements, at most 2 in one construct; or one statement on a vector or two of them, up to 3 dereferences; or modules for the remapper | `OnlyLegalJumps`, `SameFlow`, `WellFormed`, `DecorationsFollow`; `AccessesMeant`; `MeaningKept`, `IdsApart` | 700,383 |
| `program` | families of programs of up to three units in a stage and three stages; or bodies of two or three assignments | `IdsTell`, `StageJudged`; `StagesAgree`, `ChosenApart`; `ReflectsUses`, `MembersApart`; `PreciseExactly` | 557,566 |

Why the bounds are enough.

* `process`: two threads give every pair of steps; the third reference makes
  one thread's finalise not the last, and two pools make a table outlive the
  first unless it is freed.  A stage that a key does not have and one that builds
  on the fragment-precision table are both there.  In the pool, blocks are symmetric,
  for the code never compares their addresses.  Sizes fit twice, exactly, only an
  empty page, and not in a page; with three blocks a page is reused while another is
  in use.
* `driver`: more files than workers and two files of one key, so that a worker
  finds a table another built; the second compile meets a table of the first.
* `symtab`: a behaviour is about scopes or about built-ins (`about`), to depth 5
  with ids that hold levels up to 4, so that the clamp is reached.
  `MaxScopeWork` and `MaxBuiltInWork` bound what is counted: ids, changes and uses,
  one more than the shortest sequences that break the mutants.
* `preprocessor`: 3 stands for 65.  The behaviour at the limit is the same for any
  limit, which section 6 proves.  Depth 4 of inclusion has a file that is included
  by itself, by another and by the source, with text after each or without.
* `macros`: the list has bodies that call themselves and each other, that lack
  a parenthesis or have one too many, that drop or repeat a parameter.  The
  comparison with the meaning is made where the code promises one: no error
  was reported, no call began in an expansion and ended outside it (ISO C leaves that
  case open), and no name was expanded again (section 5).
* `glsld`: three versions are what an old save and a new text need, and a queue of
  three holds a change, a save and a request.  Documents share only the pool.
* `spirv`, flow: four statements nest a jump in an if in a switch in a loop.  There
  are a plain statement, `return`, `discard`, `break`, `continue`, one case value
  and `default`, and loops `for (; a && b; e)`, `for (;;)` and `do … while (a ||
  b)`.  Accesses: a vec3 and two of them, five swizzles that drop, repeat, turn and
  keep components, three dereferences (one swizzle over another and a component over
  both), one dereference in a call of two arguments.  Remapper: bodies of up to
  three steps of any kind (load, store, addition, pointer into a local, call with a
  pointer, volatile load, new block), four loads and stores, or three in three
  blocks with a branch around or back; calls among `main`, `f` and `g` with one
  global used anywhere or nowhere, under strip, six sets of dead-code passes and
  three of mappings.  `MaxPath` of 4 blocks is once round the loop.
* `program`: units that declare some of two globals in either order, a local that
  may have the name of one, and a built-in or not; every call graph of three
  functions over two units; what three units say of two modes; two names without a
  layout, with location or binding 0 or 1, or not declared, in two or three stages;
  two uniforms, blocks or samplers under the option sets of both mappers; reflection
  of groups of types with up to three uses in two stages under six option sets, and
  108 blocks with members placed by offset and align, less those the parser refuses,
  that have a matrix of the block's layout or of its own before the last member or last.
  Precise: every set of two or three of 20 assignments and returns, with five sets
  of declared objects.

A property is worth its run only if a bug in the code would break it: `mutants` in
`PROJECT.json` has for each of them a plausible slip (a dropped guard, an
off-by-one, a missing reset) under which TLC finds it violated.

Runs that expect a violation: `glsld_pool`, `symtab_pragma`, `macros_again` and
`precise_deref`; see section 5.

## 4. Fairness

* `driver`: weak fairness of main and of each worker: the operating system runs
  every thread that can run.  `init_lock` needs no more, for each thread takes it a
  bounded number of times.
* `glsld`: weak fairness of `Handle`, the loop of `main` in `glsld.cc`, which reads
  whenever there is input.  Nothing is assumed of the editor.
* `macros`: weak fairness of `Next`: one thread in a loop without waiting.
* The other modules have safety properties only, and no fairness; for `spirv` and
  `program` each behaviour is one run of a sequential translation.

## 5. Findings

Disagreements between the code and what it says of itself, each found by a run:

1. **`glsld_pool`, `CurrentPoolExists`.**  `Doc::parse` (`doc.cc:527`) deletes a
   shader whose parse failed, with its pool, which is still the thread's current
   one.  The next completion allocates from it.
2. **`symtab_pragma`, `InvariantKept`.**  `#pragma STDGL invariant(all)` copies an
   output up even if level 3 has a redeclaration of it; the copy is not entered
   and the qualifier is lost (`ParseHelper.cpp:324`).  The trace redeclares an output
   like `gl_FragDepth`, then meets the pragma.
3. **`macros_again`, `NoRecursion`.**  A name that was left alone in its own
   expansion loses its mark when it is recorded as an argument
   (`PpContext.h:254`) and is expanded after all.
4. **`precise_deref`, `DereferencesMarked`.**  In `a.x = (b * c).x` with a precise
   `a` the propagator takes the dereference for an object and does not look below it,
   so that the multiplication is not marked (`propagateNoContraction.cpp:703`).

Seen while modelling, without a run of their own:

* `popAll()` "frees all memory allocated" (`PoolAlloc.h:176`), but with no mark on
  the stack it does nothing, though the pool can hold memory then.
* `InitializeProcess` is to be called "exactly once per process before using
  anything else" (`ShaderLang.h:423`); glsld never calls it.
* `insertAnonymousMembers` (`SymbolTable.h:471`) does not look for functions, so a
  member of an anonymous block can share the name of one, against the comment at
  `SymbolTable.h:707`.  `NoNameClash` leaves members of blocks out.
* A built-in that was used and has no implicit size gets another id when it is
  redeclared, so the uses before and after differ (`ParseHelper.cpp:5345`).
  `UsesAgree` is about those with an implicit size that are shared, of which the
  comment at `ParseHelper.cpp:451` speaks.  The `gl_in` of tessellation in desktop
  profiles is at level 2 (`Initialize.cpp:8259`), is not read-only and so is not
  copied by its first use; its block can be redeclared after a use, which then has
  another id, against the message at `ParseHelper.cpp:5497` ("before any use").
* `elseSeen` has 65 elements (`PpContext.h:414`) and is indexed by nestings up to
  66: the tests before the increment are `>=` in two places and `>` in a third
  (`Pp.cpp:572`, `593`).  In PpConditionals the array is padded (`Padding`), so that
  the run goes on to the error.  Nothing limits the depth of inclusion
  (`Pp.cpp:671`).
* After a stray `#else` the counters `ifdepth` and `elsetracker` differ for good.
* The name of a function-like macro at the end of a line before a directive makes
  the directive an error ("preprocessor directive cannot be preceded by another
  token"), and `f()` of a macro with one parameter gives "Too few args", where ISO
  C passes an empty argument.
* Linking.  `mergeTrees` returns early for an empty tree and drops `ioAccessed` and
  `numShaderRecordBlocks` of the unit (`linkValidate.cpp:679`).  A built-in that one
  unit redeclares and another only uses has two ids after the merge
  (`ParseHelper.cpp:5345`, `linkValidate.cpp:802`).  An explicit location in the
  second unit of a stage is overridden.  `mergeModes` looks at what is missing in
  one unit only for some modes (`linkValidate.cpp:570`).  Locations in two units of
  a stage are never compared (a TODO at `linkValidate.cpp:1880`).  Task and mesh
  stages come after the fragment stage in `EShLanguage`, so the comparison in
  "pipeline order" does not reach them.
* Mapping.  When variables of two stages happen to have one id, `doMap` copies the
  result of one stage over what an explicit declaration gave the other
  (`iomapper.cpp:1824`), against the comment at `iomapper.cpp:1172`; the passing run
  gives the stages ids of their own.  `reserverStorageSlot` reserves for a varying
  what a uniform of its type would take (`iomapper.cpp:1313`), so explicit matrices
  collide with what is chosen; the run has none among the varyings.  A set found for
  one stage (`iomapper.cpp:345`) is lost by the copy back, and `resolveBinding` of
  the default resolver uses the declared one.  `hasError` of the resolver is never
  read.  A stage with no inputs and outputs is gathered but not resolved.  `mapIO`
  runs after a link that failed, and with a GLSL mapper and no resolver follows a
  null pointer.
* Reflection.  A structure in a buffer block used as a whole, with strict suffixes,
  gets the offsets of its members from the structure's start (`reflection.cpp:404`);
  MCProgram has no such use.  `buildUniformStageMask` marks every uniform known with
  every later stage, though `ShaderLang.h:943` speaks of the stages that use it.
  Without strict suffixes a constant index into an array of structures in a block
  adds neither suffix nor offset.  `getBlockSize` measures the last member in the
  block's matrix layout, though `updateOffset` placed it in its own
  (`linkValidate.cpp:2704`): a column-major std140 block that ends in a row-major
  `mat2x3` is said to end 32 bytes after the start of the matrix, which takes 48,
  against "data size in bytes for a block" (`ShaderLang.h:765`).  The run has such
  blocks; `MembersApart` leaves the size of these out (`LastMeasuredAsPlaced`), and
  still asks that their members do not overlap.  `numMembers` counts an array of arrays once, however it is
  blown up.
* Remapper.  The last pass of `optLoadStore` replaces the target of `OpName` and
  `OpDecorate` of a removed local by the value stored (`SPVRemapper.cpp:1110`).  A
  volatile store takes the wrong id out (the mask for the variable, lines
  1039–1041); the instance has volatile loads only.  Only the last `OpEntryPoint` is
  kept, so functions of other entry points count as dead.
* Accesses.  For `a += b` the value of `a` is loaded after `b` was evaluated,
  although the comment at `GlslangToSpv.cpp:2267` says "a is evaluated before b"; an
  "in" argument that the callee may write is read when the call is made, so a later
  argument that assigns changes it, though line 7055 speaks of outputs only.
  `AccessesMeant` leaves both out (`late`).
* Precise.  A precise member of an ordinary structure that is only written through
  the whole structure never enters the work list, as only left sides that are
  precise do (`propagateNoContraction.cpp:376`).  Members are told by prefixes of
  strings, so that member 1 stands for 10 as well.

## 6. Proofs

Forty-one theorems, checked by TLAPS for every value of the constants, from the
named assumptions of each module alone.  Each component has an inductive invariant;
TLC checked it on the instance of the component's run before it was proved (except
for the parts on types, where the sets are infinite), and the properties of the run
follow from it.

**ProcessProofs**, the library (`ConstantsAssumption`: finitely many clients, any
threads, keys and stages).  The inductive invariant is

    IInv == TypeOK /\ ClientCountExact /\ LockInv /\ CoverInv /\ TableInv
              /\ PublishInv /\ AdoptInv /\ PoolInv

and each part is needed by the others:

* `LockInv`: a thread is in a locked step exactly if it holds `init_lock`.  So
  while one publishes or frees tables, no other does.
* `CoverInv`: a thread that compiles has a client that holds a reference, and one
  that tears down sees none held.  This is where the callers' contract enters, and
  what keeps teardown and compiles apart although `Lookup` takes no lock.
* `TableInv`: a table lives in the current incarnation of the pool.
* `PublishInv`: where a publishing thread stands: its key does not look built
  before it begins, the stages behind it are complete, nobody is served the key
  meanwhile, and a key that looks built while nobody publishes or frees it is complete.
  Without it the early return of `SetupBuiltinSymbolTable`, which looks at one
  pointer, could not be shown to mean that everything is built.
* `AdoptInv`: what a compile adopted is the published table, or none if the key
  has no table for the stage.
* `PoolInv`: the current pool of a thread, by step, and that it exists.
* `ClientCountExact`: the count is the number of clients.  It is what makes
  "count went to zero" mean "nobody is left"; it needs facts on cardinality.

There is one lemma per part (`LockInvNext`, `CoverInvNext`, …), with one step per
action, then `Invariance`.  `TypeCorrect`, `ReferenceCount`, `AdoptedTables`,
`TablesLive`, `StageBases`, `LivePools` and `PublishPool` follow from it.

Two results are about steps.  `ReadOnlyTablesFinal` (`ReadOnlyIsFinal`) needs one more
fact, `UnpublishedInv`: while a thread publishes the tables of a key, no compile
reads them, and those of the stages ahead are still empty; so what
`PublishShared` and `FillShared` write was not read-only.  `TablesAreCache` is the
refinement `Spec => CacheSpec`: a key appears in the cache when its last table is
complete, in one step, though the code fills it table by table, and it disappears
with the last client.

**PreprocessorProofs**, conditional directives (`MaxIfNestingAssumption`: the limit is
a positive number).  `TrackersCorrect` proves

    IInv == TypeOK /\ SkipInside /\ TrackersAgree /\ NoElseYet

`TrackersAgree` is what one would state; `SkipInside` and `NoElseYet` say where
`CPPelse` is, which the steps that leave it need.  The steps are taken in three
lemmas: reading, skipping, and finding the branch looked for.

There, too, `Refines` is `Spec => GroupsSpec`: under the mapping
every line, for every limit, is a step of the stack of groups.  There is a lemma
about the mapping for each way the stack changes (`AppendGroup`, `CloseGroup`,
`BranchGroup`), a simulation lemma for each kind of line (`OpenSim`, `ElifSim`,
`MatchElifSim`, …), and one for what follows an error.

**ProcessProofs**, the driver (`DriverAssumption` and `DriverShape`: a file on the
command line is a `TWorkItem` of its own, there is a worker thread, and main's own
reference covers every compile, as `StandAlone.cpp` calls `ShInitialize` first and
`ShFinalize` last).  The invariant is

    DriverIInv == DriverTypeOK /\ IInv /\ MainHolds /\ WorkersRun /\ FilesInPlace /\ FlagRight

with the `IInv` of ShaderLang: `DriverStepIsStep` shows each step of the driver to be
one of ShaderLang or none, so its lemma on steps is used as it is.  `MainHolds` says
which references main has at each step, `WorkersRun` that workers are inside the API
only between `spawn` and `join`; without them a compile could outlive the last
reference.  `DriverKeepsContract` is `DriverSpec => KeepsContract`: the tool is a
client as ShaderLang assumes, and what is proved of ShaderLang holds in it.
`FilesOnce` and `ExitCode` follow from where each file is (`FilesInPlace`: on the
list, with one worker, or done, and never two of these) and from what the atomic
flag tells (`FlagRight`).

**PoolAllocProofs** (`PoolAssumption`: positive alignment, a header that fits a page).

    PoolIInv == PoolTypeOK /\ HeapInOrder /\ PagesTell /\ RoomInCurrent /\ MarksInOrder

`HeapInOrder` alone is not inductive.  `pop` tells a page from a larger block by its
page count (`PagesTell`), goes back to the offset of the mark, behind which
everything held since must lie (`MarksInOrder`), and the next allocation is put at
the current offset (`RoomInCurrent`, which is vacuous once the page counts as full).
`PoolImplementsMarkRelease` is `PoolSpec => MarkReleaseSpec`: regions handed out overlap
nothing held, and a pop gives back what was allocated since its mark and no more.

**PreprocessorProofs**, inclusion (`IncludeAssumption`, `DirAssumption`).
`InputsStayInOrder` holds for every includer that keeps to `TShader::Includer`, by

    PpIInv == InputsTyped /\ YoungestOnTop /\ InputsInOrder

where `YoungestOnTop` (results deeper on the stack are older) is what makes a new
result differ from all that are held.  For the includer of the tool, `DirIInv` adds
that the directories of `-I` and, while a file is open in another, those of the open
files are the bottom of `directoryStack`; what files that have ended left above
them is cut off by the next inclusion.  `IncluderKeepsContract` is
`IncluderSpec => PpSpec`, and `SearchesInOrder` that a local header is looked for
outwards from the file that includes it.

**PpMacrosProofs** (`TokensAssumption`, `TextsAssumption`, `MacrosAssumption`: the text
has no marker in it, and object-like macros have no parameters).

    IInv == TypeOK /\ ObjectsOK /\ CallsOK /\ OwnersOK /\ StackOK /\ ArgumentsOK
              /\ TokenOK /\ MarkersOK

`OwnersOK`, `StackOK` and `ArgumentsOK` are what `InUse` states, in the form that steps
can be checked against: an object belongs to one call or one expansion, a busy macro
to one expansion, and what reads an argument lies above its owner.  They are not
inductive without the markers.  `PrescanMacroArg` expands an argument up to a marker
and then assumes that everything pushed for it is gone; but a call within the
argument that is abandoned may take the marker, or be left with the end of the input,
so that the marker a prescan ends at need not be its own.  `MarkersOK` says that all
the same the markers still to be met can be given to the calls that prescan, in the
order of the calls, so that whatever was pushed for a call (its argument, the
expansions of its macro in there) has above it only markers of calls within it
(`Above`).  When a prescan ends, at whichever marker, nothing of it is left
(`NothingLeft`), and the object can be read by the expansion.  `owner`, the assignment, is no
state of the code: each lemma on an action picks the one before and gives the one
after (`MarkersMade`, `MarkersStay`, `MarkersKept`).  `ObjectsInUse` is `Spec => []InUse`.

**GlsldProofs** (no assumption on the constants).

    GlsldIInv == TypeOK /\ ServesTracked /\ SavedBefore /\ \A u : Tracked(u) => Follows(u)

says of every document how the messages in the queue, whatever their number, lead
from what the server has to what the editor has: versions increase along the queue
(`TextsInOrder`), the last text in it is the buffer (`LastTextIsBuffer`), the
server's own is older than all of it or is the buffer (`ServerIsBehind`), and a text
that was saved is parsed or a message that will have it parsed is followed only by
saves of the same version (`SaveArrives`).  `DocsAgree`, `SavesAnalysed` and
`SavesDiagnosed` are the case of an empty queue.

**SymbolTableProofs** (`SymbolTableAssumption`, `BuiltInsAssumption`).  The built-ins
are any set in which a name is declared once, ids are issued one by one, and the
members of an anonymous block, declared together, share one; the declarations of
`Initialize.cpp` are such, entered by the same `insert()`, unless a caller of
`TShader::setUniqueId` sets the counter back.  The names of built-ins are
reserved (`ParseHelper.cpp:3671`), so the shader's own are others.

    SymbolIInv == TypeOK /\ CounterBeyond /\ NumbersBehind /\ NumbersApart
                    /\ BuiltInsInPlace /\ SharedReadOnly /\ OwnFunctions /\ NoNameClash
                    /\ UserIdsTell /\ DefaultsSaved /\ EditsAtHome /\ UsesSettled

* `NumbersApart` is `IdsRight` of the numbers alone, without the levels: a
  redeclaration amends the level in an id, and only the counter still tells symbols
  apart.  `CounterBeyond` and `NumbersBehind` put the counter ahead of all of them,
  at every depth.
* `BuiltInsInPlace`: a built-in is at the level that declares it and perhaps at that
  of the globals, there with all members of its block, and members have one id.
  It is what makes `find()` stop at the copy that was edited (`EditsAtHome`) or used
  (`UsesSettled`), and what a copy of a member relies on, which does not check the others.
* `SharedReadOnly` ties `isReadOnly()` to levels 0 and 1, without which an edit in
  place could reach them.
* `DefaultsSaved`: the default with which each open scope was entered is what its
  level saved or, as long as it saved none, that of the scope in it.

`Grows` is a step that edits symbols of one level in place and adds others to it;
insertions, copies and changes of built-ins are all shown to be one, and the parts
of the invariant to survive any.  The other steps keep the variables of every level
(`LevelsKept`).  From it follow `NamesApart`, `IdsAreRight`, `EditsStay`, `UsesAreOne` and,
of steps, `SharedLevelsUntouched` and `DefaultsComeBack`.

**GlslStatementsProofs** (`StatementsAssumption`) is about the parser by itself
(`ParserSpec`), of which SpvFlow takes the same steps (`Parse`) and no others on these
variables.  After an error nothing is read, so

    StatementsIInv == ParserTypeOK /\ (accepted => Accepted)
    Accepted == OpenedRight /\ LevelsRight /\ SwitchesRight /\ SequencesRight
                  /\ EndedRight /\ JumpsRight

`OpenedRight` ties the stack to the text (what has begun and has no end, from the
outside in), `LevelsRight` and `SwitchesRight` the counters and the two stacks of
switches to that stack: `loopNestingLevel` is the number of open loops, and the top of
`switchLevel` equals `statementNestingLevel` exactly when the innermost construct is a
switch, which is how `case_label` tells.  `SequencesRight` says what is known of an open
switch (its labels, and that its first statement is a label, or something pends), and
`EndedRight` what is left of that when it ends.  There are three kinds of steps (`Reads`,
`Begins`, `Closes`), each part of the invariant is carried through each kind, and an
action is shown to be one of them; a switch whose last label has no statements ends
with two tokens at once.  `JumpsAreLegal` follows.  That what is accepted also *does*
what it says (`SameFlow`) rests on recursive definitions and stays with TLC.

**AccessChainProofs** (`TypesAssumption`: sizes are positive, and a vector has two
components or more; `SwizzlesAssumption`: selectors are sequences of components).

    ChainInv == History /\ (~late => AsMeant /\ (while the statement goes on =>
                  ChainReady /\ Counted /\ every argument evaluated so far ArgumentIs))

What makes `AccessesMeant` inductive is `Selects`: the chain denotes the places that GLSL
selects.  There are five ways to denote (`Plain`, `One`, `Many`, `Indexed`,
`ManyIndexed`): the address with nothing pending, or with a swizzle of one component, a
swizzle of several, a dynamic component, or a dynamic component of a swizzle pending on
the vector the address leads to.  `IndexPushed`, `SwizzlePushed` and `ComponentPushed`
carry it through the three ways to go on, where a swizzle is stacked on a swizzle,
dropped because it is the identity, or takes a component after all.  `Transferred` and
`Collapsed` show that what a load and a store do first does not change what is denoted,
and leaves only two ways (`Resolved`).  So a load gives what is selected (`LoadIs`,
whether from the object or from a value in registers), a store changes it (`StoreIs`), also
when it is broken into stores of components, each of which extends the chain and takes
the extension back (`ComponentsStored`), and a store may follow a load through the chain
that the load left.  The loop of these stores is a recursive function; its value is
found by least counterexample (`SameStores`).  `ArgumentIs` says the same of a chain that
was saved, and that a value loaded early is still what the argument meant when the call
is made, unless an assignment came between.  `AccessesAreMeant` follows.

Only model-checked: liveness and anything with ENABLED, which the prover does not
handle; what a recursive definition computes, which needs induction over data
(MacroText, the layout rules, the propagation of precise); and, so far, the
properties of SpvFlow and SpvRemapper and of the modules about linking, mapping,
reflection and precise (section 8).  The invariants of the proofs
themselves (`Invariance`, `LivePools`, `TrackersCorrect`, …) hold for every value of
the constants and are no longer part of a run.

## 7. What is not modelled

`components` in `PROJECT.json` lists every part with its reason.  Of the parts that
are modelled, these details are left out:

* ShaderLang: what the built-in tables declare; the linker handles.
* StandAlone: linking mode, options, reading of files, printing.
* PoolAlloc: guard blocks (debug builds) and the order of the free list.
* SymbolTable: signatures and the look-up of overloads, extensions of symbols,
  retargeting, growing of implicit blocks.
* Preprocessor: `##`, white space, `__LINE__` and the like, `#line`, `#version`,
  `#extension`, `#pragma`, the value of `#if` expressions (an input of
  PpConditionals), the reading of a `#define` line, extra tokens after `#else`.
* Glsld: positions, ranking and text of completions, the JSON.
* Statements and control flow: declarations, expressions (single instructions,
  except for short circuits), types, constants, decorations, debug lines.
* Accesses: arrays of scalars (a type ends in the size of a vector, if it is not a
  scalar), remapped members of structures, buffer references, coherence and
  alignment, addresses handed out as such (`accessChainGetLValue`), copies between
  types that differ.
* Link: members of blocks, array sizes, most qualifiers, transform feedback, used
  ranges.  Of the modes two stand for all: one that a unit may leave open, and one
  that is compared as it is.
* Mapping: the HLSL resolver, push constants, checks of ES, components; in the
  instance a name has one set in all stages, and every stage of an interface has one.
* Reflection: the numbers GL has for types, HLSL counters, the local size of
  compute, `topLevelArraySize`; no property about options without strict suffixes.
* Remapper: decoding of words (an instruction is one position), switches, phis,
  composites, `forwardLoadStores` (experimental).  Hashes are taken modulo small numbers.
* Precise: selections, calls, the exception for integers, more than ten members.
* Conditional directives and inclusions are not mixed in one behaviour, nor are the
  other parts that section 2 lists side by side: they share no state in the code.
* Not modelled at all, because they are rules of a language over data rather than
  behaviour: grammar and semantic analysis, the text of the built-ins, trees and
  folding, instructions and types of SPIR-V, HLSL.  They are most of the repository's
  lines (the generated parser, the built-in text and the two parse helpers alone are
  45,000), which is why the share of lines that definitions stand for is small.

## 8. Plan

The order is by what goes wrong worst and is tested least: what threads share,
then what all compiles share, then sequential code with hidden state.

Done: ShaderLang and BuiltinCache, StandAlone, PoolAlloc and MarkRelease, Glsld,
SymbolTable, PpConditionals and CondGroups, PpInclude and DirStackIncluder,
PpMacros and MacroText; Link, IoResolver and ProgramIo, BlockLayout and Reflection,
NoContraction, GlslStatements, SpvFlow and ReadableOrder, AccessChain, SpvRemapper
and SpvMeaning; the theorems of section 6.

Modules that could follow, each with the property that is worth its run:

1. **UsedRanges** (`addUsedLocation`, `addUsedOffsets`): checked against the set of
   cells that a list of ranges covers.
2. **PpExpression** (`eval`, `##`): against a reference evaluator.
3. **Overloads** (`findFunction120`, `400`): the best match does not depend on the
   order of the candidates.
4. **InputScanner** (`Scan.h`): get and unget over several strings.
5. **HlslTokenStream**: backing up within its window and across pushed streams.

Twelve runs are in use; a new module joins the run of a related one, as those that
section 2 names side by side did.

Theorems to come, in order:

1. IoResolver: a free slot collides with none
   that is reserved; SpvRemapper: `MapId` keeps the map injective.  (The modules that
   hold RECURSIVE operators stay with TLC, so these lemmas need the parts without
   them in modules of their own.)
