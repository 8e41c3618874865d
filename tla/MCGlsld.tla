------------------------------- MODULE MCGlsld -------------------------------
(* One document whose versions, queue of messages and requests are bounded;  *)
(* two documents share nothing but the thread's pool.                        *)
EXTENDS Glsld, TLC

CONSTANTS MaxVersion,   \* bound: versions of one document
          MaxQueue,     \* bound: messages the editor runs ahead
          MaxId         \* bound: requests

Bounded ==
  /\ Len(inbox') <= MaxQueue
  /\ lastId' <= MaxId
  /\ \A u \in Uris : buffer'[u].version <= MaxVersion

MCNext == Handle \/ (Editor /\ Bounded)
MCSpec == Init /\ [][MCNext]_vars /\ WF_vars(Handle)

(* A request sent when the editor was ready is answered in the end, however  *)
(* much is queued before it.                                                 *)
EveryRequestAnswered ==
  \A i \in 1 .. MaxId :
    (Ready /\ \E k \in DOMAIN inbox : inbox[k].id = i)
      ~> (\E k \in DOMAIN answers : answers[k] = i)
=============================================================================
