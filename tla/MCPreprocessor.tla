---------------------------- MODULE MCPreprocessor ----------------------------
(* The conditional directives of a source without inclusions, or inclusions  *)
(* without conditions, by an includer that answers anything or by that of    *)
(* the standalone program: the code tells them apart by state of their own.  *)
EXTENDS PpConditionals, DirStackIncluder

CONSTANT MaxDepth     \* bound: files that are open within each other

(* Files of the includer of the standalone program: the sources are in r and *)
(* q, and there are files named b in r, s and e, one named s/b from r, and   *)
(* one named c in e only.                                                    *)
MCDirOf == [f \in Sources \cup Headers |->
              CASE f \in {"main", "rb"} -> "r" [] f = "other" -> "q"
                [] f = "sb" -> "s" [] OTHER -> "e"]
MCFileAt ==
  [p \in Dirs \X Names |->
     CASE p = <<"r", "b">> -> "rb" [] p = <<"s", "b">> -> "sb" [] p = <<"e", "b">> -> "eb"
       [] p = <<"r", "s/b">> -> "sb" [] p = <<"e", "c">> -> "ec" [] OTHER -> NoFile]
MCExternalDirs == <<"d", "e">>

VARIABLE part

MCInit ==
  /\ Init /\ IncluderInit
  /\ part \in {"conditions", "any includer", "directory stack"}

Directives == part = "conditions" /\ Next /\ UNCHANGED includerVars

\* Nothing follows the end of the input, nor what is written past an array.
Stopped == part = "conditions" /\ (done \/ ~InArray) /\ UNCHANGED <<vars, includerVars>>

AnyIncluder == part = "any includer" /\ PpNext /\ UNCHANGED <<directoryStack, searched>>
DirectoryStack == part = "directory stack" /\ IncluderNext

MCNext ==
  /\ \/ Directives \/ Stopped
     \/ /\ AnyIncluder \/ DirectoryStack
        /\ Len(includeStack') <= MaxDepth
        /\ UNCHANGED vars
  /\ UNCHANGED part

MCSpec == MCInit /\ [][MCNext]_<<vars, includerVars, part>>
===============================================================================
