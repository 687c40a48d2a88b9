------------------------------ MODULE MCRecalls ------------------------------
(***************************************************************************)
(* Instances of the recall and its journal, and of the background queue    *)
(* that recalls nominate audits for, for TLC.  A behaviour exercises one   *)
(* of them.                                                                *)
(***************************************************************************)
EXTENDS MCRecallJournal, FuzzQueue

VARIABLE part   \* which part this behaviour exercises

recallsVars == <<part, vars, fuzzVars>>

RecallsInit == part \in {"journal", "audits"} /\ Init /\ FuzzInit

JournalPart == part = "journal" /\ Next /\ UNCHANGED <<part, fuzzVars>>

AuditPart == part = "audits" /\ FuzzNext /\ UNCHANGED <<part, vars>>

\* A recall that was begun goes on, callers return, and the worker's ticker
\* keeps ticking.
RecallsFairness ==
  /\ \A r \in Recalls : WF_vars(part = "journal" /\ RecallStep(r))
  /\ WF_fuzzVars(part = "audits" /\ WorkerStep)
  /\ \A c \in Callers : WF_fuzzVars(part = "audits" /\ CallerStep(c))

RecallsSpec ==
  RecallsInit /\ [][JournalPart \/ AuditPart]_recallsVars /\ RecallsFairness
=============================================================================
