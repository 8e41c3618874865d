----------------------------- MODULE MCStandAlone -----------------------------
(* main and two workers, three files: two of one key, one of another. *)
EXTENDS StandAlone, TLC

CONSTANTS main, w1, w2, desktop, es, ref, extra, f1, f2, f3

MCOwner == (ref :> main) @@ (extra :> main)
MCSponsor == [t \in {main, w1, w2} |-> ref]
MCStagesOf == (desktop :> {1}) @@ (es :> {1, 2})
MCItems == <<f1, f2, f3>>
MCJobOf == (f1 :> <<desktop, 1>>) @@ (f2 :> <<desktop, 1>>) @@ (f3 :> <<es, 2>>)

MCInit == DriverInit /\ job = [t \in Threads |-> <<desktop, 1>>]
MCSpec == /\ MCInit /\ [][DriverNext]_allVars
          /\ WF_allVars(MainStep)
          /\ \A t \in Threads : WF_allVars(WorkerStep(t))
===============================================================================
