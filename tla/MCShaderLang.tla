---------------------------- MODULE MCShaderLang ----------------------------
(* Two threads with a client each and a third reference of the first thread; *)
(* two keys, one of the ES profile, whose fragment stage builds on the       *)
(* fragment-precision common table; stage 2 of the desktop key has no table. *)
(* A behaviour is of the process and its pools, or within one pool.          *)
EXTENDS ShaderLang, MCPoolAlloc

CONSTANTS t1, t2, desktop, es, c1, c2, c3,
          MaxGPA          \* bound: how many process pools may be created

MCOwner == (c1 :> t1) @@ (c2 :> t2) @@ (c3 :> t1)
MCSponsor == (t1 :> c1) @@ (t2 :> c2)
MCStagesOf == (desktop :> {1}) @@ (es :> {1, 2})

VARIABLE part

MCInit ==
  /\ Init /\ job = [t \in Threads |-> <<desktop, 1>>]
  /\ PoolInit
  /\ part \in {"process", "pool"}

InProcess == part = "process" /\ Next /\ lastGPA' <= MaxGPA
InPool == part = "pool" /\ MCPoolNext

MCNext ==
  /\ \/ InProcess /\ UNCHANGED allocVars
     \/ InPool /\ UNCHANGED vars
  /\ UNCHANGED part

MCSpec == MCInit /\ [][MCNext]_<<vars, allocVars, part>>
=============================================================================
