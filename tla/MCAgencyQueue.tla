-------------------------- MODULE MCAgencyQueue --------------------------
(***************************************************************************)
(* Instances of AgencyQueue for TLC.                                       *)
(***************************************************************************)
EXTENDS AgencyQueue, TLC

\* Two forecasts that compete for one session and target, and share a
\* forecast identifier when law = "a" for both.
TauDraft(n, expires, priority) ==
  [scope |-> "turn", forecast |-> "f", law |-> "a", cooldown |-> 2,
   chain |-> IF n = 1 THEN "c1" ELSE "c2", depth |-> 0, parent |-> NoParent,
   evidence |-> {"e1"}, priority |-> priority, notBefore |-> 0,
   expiresAt |-> expires]

\* Competing forecasts: the first expires while the second is still live.
TauDrafts == (1 :> TauDraft(1, 2, 0)) @@ (2 :> [TauDraft(2, 3, 0) EXCEPT !.forecast = "g"])

\* The same pair under one forecast identifier.
SharedForecastDrafts == [TauDrafts EXCEPT ![2].forecast = "f"]

TauMotions == {CertificateBumps}

\* Consumers and execution references are only compared for equality.
Interchangeable == Permutations(Consumers) \cup Permutations(Refs)
=============================================================================
