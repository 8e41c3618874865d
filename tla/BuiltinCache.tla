----------------------------- MODULE BuiltinCache -----------------------------
(***************************************************************************)
(* What the callers of glslang rely on: a cache of built-in symbol tables  *)
(* under reference counting.  An entry is missing or complete; a compile   *)
(* that is being served uses an entry that is there; only dropping the     *)
(* last reference empties the cache, and no compile is being served then.  *)
(***************************************************************************)
CONSTANTS Threads, Keys, Clients

VARIABLES references,  \* clients that hold a reference
          built,       \* keys whose tables are complete
          serving      \* thread -> the keys it is being served (one or none)

vars == <<references, built, serving>>

Init == references = {} /\ built = {} /\ serving = [t \in Threads |-> {}]

Acquire(c) ==
  /\ references' = references \cup {c}
  /\ UNCHANGED <<built, serving>>

\* Dropping one reference of several leaves the entries alone.
Release(c) ==
  /\ c \in references
  /\ references' = references \ {c}
  /\ references' = {} => \A t \in Threads : serving[t] = {}
  /\ UNCHANGED <<built, serving>>

\* With nobody left the entries go.
Drop ==
  /\ references = {}
  /\ built' = {}
  /\ \A t \in Threads : serving[t] = {}
  /\ UNCHANGED <<references, serving>>

\* A thread is served key k, whose tables it builds if they are missing.
Serve(t, k) ==
  /\ references # {}
  /\ serving[t] = {}
  /\ built' = built \cup {k}
  /\ serving' = [serving EXCEPT ![t] = {k}]
  /\ UNCHANGED references

Leave(t) ==
  /\ serving[t] # {}
  /\ serving' = [serving EXCEPT ![t] = {}]
  /\ UNCHANGED <<references, built>>

Next ==
  \/ \E c \in Clients : Acquire(c) \/ Release(c)
  \/ Drop
  \/ \E t \in Threads, k \in Keys : Serve(t, k)
  \/ \E t \in Threads : Leave(t)

Spec == Init /\ [][Next]_vars
===============================================================================
