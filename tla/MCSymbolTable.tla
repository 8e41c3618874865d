---------------------------- MODULE MCSymbolTable ----------------------------
(* One user name, one that is also a built-in function, a user block with a  *)
(* member of each; a plain built-in at level 1, a block with an instance     *)
(* name and an unsized array in it at level 2, like gl_in of tessellation,   *)
(* and an anonymous block of two with one, like gl_PerVertex.  A behaviour   *)
(* is about declarations in scopes, or about built-ins and one user name.    *)
EXTENDS SymbolTable

CONSTANTS MaxScopeWork, MaxBuiltInWork,   \* bounds: ids issued, changes and uses
          MaxLevel                        \* bound: depth of scopes

MCUserBlocks == {<<"v", "texture">>}
MCBuiltIns ==
  {[name |-> "FragDepth", level |-> 1, number |-> 1, block |-> <<>>],
   [name |-> "in", level |-> 2, number |-> 2, block |-> <<>>],
   [name |-> "Position", level |-> 1, number |-> 3, block |-> <<"Position", "ClipDistance">>],
   [name |-> "ClipDistance", level |-> 1, number |-> 3, block |-> <<"Position", "ClipDistance">>]}
MCBuiltInFunctions == <<{"max"}, {"texture"}>>

VARIABLE about

MCInit == Init /\ about \in {"scopes", "built-ins"} /\ (about = "built-ins" => defaultPrecision = "high")

Scopes == Declare \/ Push \/ Pop \/ \E p \in Precisions : PrecisionStatement(p)
BuiltInsMore ==
  \/ InsertVariable("v") \/ InsertFunction("v") \/ MakeInternal
  \/ ChangeBuiltIn \/ Push \/ Pop

Work == count' + Cardinality(made') + Cardinality(uses')
MCNext ==
  /\ \/ about = "scopes" /\ Scopes /\ Work <= MaxScopeWork
     \/ about = "built-ins" /\ BuiltInsMore /\ Work <= MaxBuiltInWork /\ Len(table') <= MaxLevel
  /\ Len(table') <= MaxLevel + 1
  /\ UNCHANGED about
MCSpec == MCInit /\ [][MCNext]_<<vars, about>>
=============================================================================
