---------------------------- MODULE DirStackIncluder ----------------------------
(***************************************************************************)
(* The includer of the standalone program (StandAlone/                     *)
(* DirStackFileIncluder.h) under the preprocessor: one object serves every *)
(* parse of every unit, and keeps its own stack of directories, which it   *)
(* cuts to the depth it is told, never hearing that a file has ended.      *)
(***************************************************************************)
EXTENDS PpInclude

CONSTANTS
  Dirs,           \* directories
  Names,          \* header names as written in directives
  DirOf,          \* the directory of a file
  FileAt,         \* the file that a name means in a directory, or NoFile
  ExternalDirs    \* the directories of -I, as pushed

ASSUME DirAssumption ==
  /\ DirOf \in [Sources \cup Headers -> Dirs]
  /\ FileAt \in [Dirs \X Names -> Headers \cup {NoFile}]
  /\ ExternalDirs \in Seq(Dirs)

VARIABLES
  directoryStack,
  searched          \* the directories the last search looked at, in order

includerVars == <<ppVars, directoryStack, searched>>

externalLocalDirectoryCount == Len(ExternalDirs)

IncluderInit == PpInit /\ directoryStack = ExternalDirs /\ searched = <<>>

\* resize() cuts the stack, or fills it up with empty names.
Reserved(size) ==
  [i \in 1 .. Max({size, Len(directoryStack)}) |->
     IF i <= Len(directoryStack) THEN directoryStack[i] ELSE ""]
Resized(size) ==
  [i \in 1 .. size |-> IF i <= Len(directoryStack) THEN directoryStack[i] ELSE ""]
SearchStack(includer, depth) ==
  LET n == depth + externalLocalDirectoryCount IN
  IF depth = 1 THEN [Resized(n) EXCEPT ![n] = DirOf[includer]] ELSE Resized(n)

Hits(dirs, name) == {i \in DOMAIN dirs : FileAt[dirs[i], name] # NoFile}
FoundIn(dirs, name) == FileAt[dirs[Max(Hits(dirs, name))], name]

\* Includes a header by its local name; text: is there anything in the file?
IncludeLocal(name, text) ==
  LET dirs == SearchStack(currentSourceFile, Len(includeStack) + 1)
      f == FoundIn(dirs, name) IN
  /\ searched' = Reverse(dirs)
  /\ IF Hits(dirs, name) = {}
     THEN CPPinclude(TRUE, Null, Null) /\ directoryStack' = dirs
     ELSE /\ CPPinclude(TRUE, [null |-> FALSE, file |-> f, text |-> text], Null)
          /\ directoryStack' = Append(dirs, DirOf[f])

\* A search for system headers finds nothing.
IncludeSystem == CPPinclude(FALSE, Null, Null) /\ UNCHANGED <<directoryStack, searched>>

Scan ==
  /\ (\E s \in Sources : StartParse(s)) \/ EndOfFile \/ EndOfSource \/ Unwind \/ Destroy
  /\ UNCHANGED <<directoryStack, searched>>

IncluderNext == (\E n \in Names, t \in BOOLEAN : IncludeLocal(n, t)) \/ IncludeSystem \/ Scan

IncluderSpec == IncluderInit /\ [][IncluderNext]_includerVars

-------------------------------------------------------------------------------
\* The directories of the source and of the files that are open, outermost first.
OpenDirs ==
  <<DirOf[rootFileName]>> \o [i \in DOMAIN includeStack |-> DirOf[includeStack[i].file]]

(* A local header is looked for in the directory of the file that includes   *)
(* it, in those of the files that include that one, outwards to the source,  *)
(* and then in those of -I, the one pushed last first: however many files    *)
(* were included, ended or not found before, in this parse or an earlier one.*)
SearchOrder ==
  [][\A n \in Names, t \in BOOLEAN :
       IncludeLocal(n, t) => searched' = Reverse(ExternalDirs \o OpenDirs)]_includerVars

\* What SearchOrder rests on: the directories of -I are at the bottom and,
\* while a file is open in another, those of the open files are next, though
\* others may lie on them that were left by files that have ended.
KeptDirs == IF includeStack = <<>> THEN ExternalDirs ELSE ExternalDirs \o OpenDirs
DirIInv ==
  /\ PpIInv
  /\ directoryStack \in Seq(Dirs)
  /\ Len(KeptDirs) <= Len(directoryStack)
  /\ \A i \in DOMAIN KeptDirs : directoryStack[i] = KeptDirs[i]
===============================================================================
