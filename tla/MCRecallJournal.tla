-------------------------- MODULE MCRecallJournal --------------------------
(***************************************************************************)
(* Instances of RecallJournal for TLC.                                     *)
(***************************************************************************)
EXTENDS RecallJournal, TLC

OneRecall == ("r1" :> 1)

Full(r, e, t) == [recall |-> r, event |-> e, availableAt |-> t,
                  source |-> "full_stream"]
Selected(r, e, t) == [Full(r, e, t) EXCEPT !.source = "selected"]

\* One outcome of a decision, and two of which the second is available later.
OneOutcome == ("k1" :> Full("r1", "e1", 1))
TwoSources == ("k1" :> Selected("r1", "e1", 1)) @@ ("k2" :> Full("r1", "e1", 2))

\* Everything, and what single questions need.
AllWriters == WriterKinds
GraphWriters == {"put", "snap", "restart"}
=============================================================================
