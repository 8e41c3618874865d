------------------------------ MODULE StandAlone ------------------------------
(***************************************************************************)
(* The non-linking mode of the glslang command line tool                   *)
(* (StandAlone.cpp, Worklist.h): main initialises the process, puts every  *)
(* file on a work list, lets worker threads (or itself) take and compile   *)
(* the files, joins the workers, prints their results and finalises.       *)
(* Workers hold no reference of their own: main's reference covers them,   *)
(* and only the join makes that enough.                                    *)
(***************************************************************************)
EXTENDS ShaderLang, Sequences

CONSTANTS Main,         \* the main thread
          Items,        \* the files on the command line, in order
          JobOf,        \* file -> key and stage it compiles for
          Repeats       \* compiles per file (EOptionMemoryLeakMode), a bound

ItemSet == {Items[i] : i \in DOMAIN Items}
NoItem == "none"

ASSUME DriverAssumption ==
  /\ Main \in Threads
  /\ JobOf \in [ItemSet -> Keys \X Stages]
  /\ \A i \in ItemSet : JobOf[i][2] \in StagesOf[JobOf[i][1]]
  /\ Repeats \in Nat \ {0}

\* A file is a TWorkItem of its own, whatever its name; there are 16 threads to
\* take them; main's reference covers what any thread compiles.
ASSUME DriverShape ==
  /\ Items \in Seq(ItemSet) /\ NoItem \notin ItemSet
  /\ \A m, n \in DOMAIN Items : Items[m] = Items[n] => m = n
  /\ Threads # {Main}
  /\ Owner[Sponsor[Main]] = Main
  /\ \A t \in Threads : Sponsor[t] = Sponsor[Main]

VARIABLES
  MultiThreaded,\* EOptionMultiThreaded
  mainPc,       \* where singleMain is
  workerPc,     \* thread -> where it is in CompileShaders
  worklist,     \* TWorklist
  workItem,     \* thread -> the file it is compiling
  compiles,     \* thread -> compiles of that file so far
  results,      \* file -> the info logs written for it
  printed,      \* files whose results main has printed
  CompileFailed,\* the atomic flag
  exitCode

driverVars == <<MultiThreaded, mainPc, workerPc, worklist, workItem, compiles, results,
                printed, CompileFailed, exitCode>>
allVars == <<vars, driverVars>>

MainSteps == {"add", "init", "initAgain", "finalize", "spawn", "join", "print",
              "lastFinalize", "exit", "done"}
WorkerSteps == {"new", "remove", "construct", "compile", "compiling", "results",
                "destruct", "exited"}

\* main's two references; each ShFinalize of main undoes one of them.
FirstRef(c) == Owner[c] = Main /\ c = Sponsor[Main]
ExtraRef(c) == Owner[c] = Main /\ c # Sponsor[Main]

\* The threads that run CompileShaders.
Workers == IF MultiThreaded THEN Threads \ {Main} ELSE {Main}

DriverInit ==
  /\ Init
  /\ MultiThreaded \in BOOLEAN
  /\ mainPc = "add"
  /\ workerPc = [t \in Threads |-> "new"]
  /\ worklist = <<>>
  /\ workItem = [t \in Threads |-> NoItem]
  /\ compiles = [t \in Threads |-> 0]
  /\ results = [i \in ItemSet |-> <<>>]
  /\ printed = {}
  /\ CompileFailed = FALSE
  /\ exitCode = "none"

-------------------------------------------------------------------------------
(* singleMain *)

MainTo(step) == mainPc' = step

AddItems ==
  /\ mainPc = "add"
  /\ worklist' = Items
  /\ MainTo("init")
  /\ UNCHANGED <<vars, workerPc, workItem, compiles, results, printed,
                 CompileFailed, exitCode>>

MainInitialize ==
  /\ \/ mainPc = "init" /\ MainTo("initAgain")
        /\ \E c \in Clients : FirstRef(c) /\ ShInitialize(Main, c)
     \/ mainPc = "initAgain" /\ MainTo("finalize")
        /\ \E c \in Clients : ExtraRef(c) /\ ShInitialize(Main, c)
  /\ UNCHANGED <<workerPc, worklist, workItem, compiles, results, printed,
                 CompileFailed, exitCode>>

\* The extra reference, and at the end the last one.
MainFinalize ==
  /\ \/ mainPc = "finalize" /\ MainTo("spawn")
        /\ \E c \in Clients : ExtraRef(c) /\ ShFinalize(Main, c)
     \/ mainPc = "lastFinalize" /\ MainTo("exit")
        /\ \E c \in Clients : FirstRef(c) /\ ShFinalize(Main, c)
  /\ UNCHANGED <<workerPc, worklist, workItem, compiles, results, printed,
                 CompileFailed, exitCode>>

\* Start the threads, or call CompileShaders directly.
Spawn ==
  /\ mainPc = "spawn"
  /\ workerPc' = [t \in Threads |-> IF t \in Workers THEN "remove" ELSE "new"]
  /\ MainTo("join")
  /\ UNCHANGED <<vars, worklist, workItem, compiles, results, printed,
                 CompileFailed, exitCode>>

\* Every thread has returned from CompileShaders.
NoJoin == TRUE
AllJoined == \A t \in Workers : workerPc[t] = "exited"

Join ==
  /\ mainPc = "join"
  /\ AllJoined
  /\ MainTo("print")
  /\ UNCHANGED <<vars, workerPc, worklist, workItem, compiles, results, printed,
                 CompileFailed, exitCode>>

PrintLogs ==
  /\ mainPc = "print"
  /\ printed' = ItemSet
  /\ MainTo("lastFinalize")
  /\ UNCHANGED <<vars, workerPc, worklist, workItem, compiles, results,
                 CompileFailed, exitCode>>

Exit ==
  /\ mainPc = "exit"
  /\ pc[Main] = "idle"
  /\ exitCode' = IF CompileFailed THEN "EFailCompile" ELSE "ESuccess"
  /\ MainTo("done")
  /\ UNCHANGED <<vars, workerPc, worklist, workItem, compiles, results, printed,
                 CompileFailed>>

MainTeardown ==
  /\ mainPc = "exit"
  /\ FreeShared(Main) \/ FreeCommon(Main) \/ FreeGPA(Main)
  /\ UNCHANGED driverVars

-------------------------------------------------------------------------------
(* CompileShaders *)

WorkerTo(t, step) == workerPc' = [workerPc EXCEPT ![t] = step]

\* TWorklist::remove takes the front under the list's mutex.
PeekOnly(list) == list
RemoveFront(list) == Tail(list)

\* while (worklist.remove(workItem)) leaves the loop when the list is empty.
RetryWhenEmpty == "remove"
WhenEmpty == "exited"

Remove(t) ==
  /\ workerPc[t] = "remove"
  /\ IF worklist = <<>>
       THEN /\ WorkerTo(t, WhenEmpty)
            /\ UNCHANGED <<worklist, workItem, compiles>>
       ELSE /\ workItem' = [workItem EXCEPT ![t] = Head(worklist)]
            /\ worklist' = RemoveFront(worklist)
            /\ compiles' = [compiles EXCEPT ![t] = 0]
            /\ WorkerTo(t, "construct")
  /\ UNCHANGED <<vars, mainPc, results, printed, CompileFailed, exitCode>>

Construct(t) ==
  /\ workerPc[t] = "construct"
  /\ ShConstructCompiler(t)
  /\ WorkerTo(t, "compile")
  /\ UNCHANGED <<mainPc, worklist, workItem, compiles, results, printed,
                 CompileFailed, exitCode>>

MoreCompiles(t) == compiles[t] < Repeats

CallCompile(t) ==
  /\ workerPc[t] = "compile"
  /\ MoreCompiles(t)
  /\ ShCompile(t, JobOf[workItem[t]][1], JobOf[workItem[t]][2], 1)
  /\ compiles' = [compiles EXCEPT ![t] = @ + 1]
  /\ WorkerTo(t, "compiling")
  /\ UNCHANGED <<mainPc, worklist, workItem, results, printed, CompileFailed,
                 exitCode>>

InCompile(t) ==
  /\ workerPc[t] = "compiling"
  /\ Progress(t)
  /\ WorkerTo(t, IF pc'[t] = "idle" THEN "compile" ELSE "compiling")
  /\ UNCHANGED <<mainPc, worklist, workItem, compiles, results, printed,
                 CompileFailed, exitCode>>

\* The last call decides: if (ret == 0) CompileFailed = true.
OverwriteFailed(ok) == ~ok
RecordFailed(ok) == CompileFailed \/ ~ok

CompileReturns(t) ==
  /\ workerPc[t] = "compile"
  /\ ~MoreCompiles(t)
  /\ CompileFailed' = RecordFailed(success[t])
  /\ WorkerTo(t, "results")
  /\ UNCHANGED <<vars, mainPc, worklist, workItem, compiles, results, printed,
                 exitCode>>

\* workItem->results = ShGetInfoLog(compiler)
Results(t) ==
  /\ workerPc[t] = "results"
  /\ results' = [results EXCEPT ![workItem[t]] = Append(@, success[t])]
  /\ WorkerTo(t, "destruct")
  /\ UNCHANGED <<vars, mainPc, worklist, workItem, compiles, printed,
                 CompileFailed, exitCode>>

Destruct(t) ==
  /\ workerPc[t] = "destruct"
  /\ ShDestruct(t)
  /\ workItem' = [workItem EXCEPT ![t] = NoItem]
  /\ WorkerTo(t, "remove")
  /\ UNCHANGED <<mainPc, worklist, compiles, results, printed, CompileFailed,
                 exitCode>>

-------------------------------------------------------------------------------
MainStep ==
  /\ \/ AddItems \/ MainInitialize \/ MainFinalize \/ Spawn \/ Join \/ PrintLogs
     \/ MainTeardown \/ Exit
  /\ UNCHANGED MultiThreaded
WorkerStep(t) ==
  /\ \/ Remove(t) \/ Construct(t) \/ CallCompile(t) \/ InCompile(t)
     \/ CompileReturns(t) \/ Results(t) \/ Destruct(t)
  /\ UNCHANGED MultiThreaded

DriverNext == MainStep \/ \E t \in Threads : WorkerStep(t)

\* The operating system runs every thread that can run.
DriverSpec ==
  /\ DriverInit
  /\ [][DriverNext]_allVars
  /\ WF_allVars(MainStep)
  /\ \A t \in Threads : WF_allVars(WorkerStep(t))

-------------------------------------------------------------------------------
(* Properties. *)

(* The driver keeps the callers' contract of ShaderLang: in particular the    *)
(* last ShFinalize comes only when no worker is compiling.                    *)
KeepsContract == Spec

(* Once spawned, a file is in exactly one place: still on the list, in the    *)
(* hands of one worker, or finished with exactly one result.  None is lost,   *)
(* compiled twice, or written by two threads.                                 *)
Holding(i) == {t \in Threads : workItem[t] = i /\ results[i] = <<>>}
EachFileOnce ==
  mainPc # "add" =>
    \A i \in ItemSet :
      Cardinality({n \in DOMAIN worklist : worklist[n] = i})
        + Cardinality(Holding(i)) + Len(results[i]) = 1

(* The exit code reports a failed compile exactly when some file's last       *)
(* compile failed, whichever thread compiled it and in whatever order.        *)
ExitCodeRight ==
  mainPc = "done" =>
    (exitCode = "EFailCompile" <=>
       \E i \in ItemSet : results[i][Len(results[i])] = FALSE)

(* The inductive invariant behind the first three; IInv is ShaderLang's.      *)

DriverTypeOK ==
  /\ MultiThreaded \in BOOLEAN
  /\ mainPc \in MainSteps
  /\ workerPc \in [Threads -> WorkerSteps]
  /\ worklist \in Seq(ItemSet)
  /\ workItem \in [Threads -> ItemSet \union {NoItem}]
  /\ compiles \in [Threads -> Nat]
  /\ results \in [ItemSet -> Seq(BOOLEAN)]
  /\ CompileFailed \in BOOLEAN

\* Which references main holds at each of its steps.
MainHolds ==
  /\ mainPc \in {"add", "init", "exit", "done"} => holders = {}
  /\ mainPc \in {"initAgain", "spawn", "join", "print", "lastFinalize"} =>
       holders = {Sponsor[Main]}
  /\ mainPc = "finalize" =>
       \E c \in Clients : ExtraRef(c) /\ holders = {Sponsor[Main], c}

\* Workers run between spawn and join, and only they are inside the API; main
\* comes to tear down on its way out.
WorkersRun ==
  /\ mainPc \in {"add", "init", "initAgain", "finalize", "spawn"} =>
       \A t \in Threads : workerPc[t] = "new"
  /\ mainPc = "join" => \A t \in Threads : workerPc[t] = "new" <=> t \notin Workers
  /\ mainPc \in {"print", "lastFinalize", "exit", "done"} =>
       /\ \A t \in Threads : workerPc[t] \in {"new", "exited"}
       /\ worklist = <<>>
  /\ \A t \in Threads : workerPc[t] = "exited" => worklist = <<>>
  /\ \A t \in Threads :
       pc[t] = "idle" \/ workerPc[t] = "compiling" \/ (t = Main /\ mainPc = "exit")

\* Where a file is.
OnList(i) == \E n \in DOMAIN worklist : worklist[n] = i

FilesInPlace ==
  /\ mainPc = "add" => worklist = <<>> /\ \A i \in ItemSet : results[i] = <<>>
  /\ \A m, n \in DOMAIN worklist : worklist[m] = worklist[n] => m = n
  /\ \A t \in Threads : workItem[t] = NoItem <=> workerPc[t] \in {"new", "remove", "exited"}
  /\ \A t, u \in Threads : workItem[t] = workItem[u] => t = u \/ workItem[t] = NoItem
  /\ \A t \in Threads : workItem[t] # NoItem =>
       /\ ~OnList(workItem[t])
       /\ results[workItem[t]] = <<>> <=> workerPc[t] # "destruct"
  /\ \A i \in ItemSet :
       /\ OnList(i) => results[i] = <<>>
       /\ Len(results[i]) <= 1
       /\ mainPc # "add" =>
            OnList(i) \/ results[i] # <<>> \/ \E t \in Threads : workItem[t] = i

\* The flag tells of what is written and of what is about to be.
FlagRight ==
  /\ CompileFailed <=>
       \/ \E i \in ItemSet : results[i] # <<>> /\ ~results[i][1]
       \/ \E t \in Threads : workerPc[t] = "results" /\ ~success[t]
  /\ mainPc = "done" => (exitCode = "EFailCompile" <=> CompileFailed)

DriverIInv ==
  DriverTypeOK /\ IInv /\ MainHolds /\ WorkersRun /\ FilesInPlace /\ FlagRight

(* Every run of the tool ends, though threads contend for init_lock.          *)
Terminates == <>(mainPc = "done")
===============================================================================
