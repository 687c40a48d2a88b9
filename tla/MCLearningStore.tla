-------------------------- MODULE MCLearningStore --------------------------
(***************************************************************************)
(* Instances of LearningStore for TLC.                                     *)
(***************************************************************************)
EXTENDS LearningStore, TLC

\* Two certificates with a common member, both events stored from the start.
Overlapping == ("c1" :> {"a", "b"}) @@ ("c2" :> {"b", "d"})
From(j, e, source) == [journal |-> j, event |-> e, source |-> source]

\* One eligible outcome about each member and a selected one.
ThreeOutcomes ==
  ("k1" :> From("j1", "a", "full_stream")) @@ ("k2" :> From("j1", "b", "independent_audit"))
    @@ ("k3" :> From("j1", "a", "selected"))

\* Event d becomes available after the recalls.
Times == ("a" :> 1) @@ ("b" :> 2) @@ ("d" :> 4) @@ ("x" :> 3)

MacroAuthority == ("x" :> "c1")

\* The snap affects the posterior of the first certificate and event b.
OneSnap == ("s1" :> [keys |-> {"c1"}, events |-> {"b"}])
\* Five writes after the two that preloaded the store; one of them moves the
\* evidence epoch, two the graph (a snap and its rollback).
Moves == [c \in Counters |->
            CASE c = "runtime" -> 7 [] c \in {"evidence", "graph"} -> 3 [] c = "policy" -> 2
              [] c = "abstraction" -> 4 [] OTHER -> 20]
=============================================================================
