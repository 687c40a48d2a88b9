------------------------- MODULE MCAgencyAuthority -------------------------
(***************************************************************************)
(* Instances of AgencyAuthority for TLC: one forecast, two workers.        *)
(***************************************************************************)
EXTENDS AgencyAuthority, TLC

\* A forecast that outlives several leases.
OneDraft ==
  (1 :> [scope |-> "turn", forecast |-> "f", law |-> "a", cooldown |-> 1,
         chain |-> "c", depth |-> 0, parent |-> NoParent,
         evidence |-> {"e1"}, priority |-> 0, notBefore |-> 1,
         expiresAt |-> 3])

\* A forecast is not leased before the time it asks for.
Requested == (1 :> 1)

NoMotions == {}
JobRefs == JobIds \cup {TagRef}

\* Two workers configured as different consumers, or as the same one.
TwoConsumers == ("A" :> "x") @@ ("B" :> "y")
OneConsumer == ("A" :> "x") @@ ("B" :> "x")

\* The service is stopped and started under its attempts, replies of the
\* daemon are lost and scheduler calls fail.
StopFaults == {"reply", "scheduler", "stop"}
\* Workers die; every call may fail, before or after it took effect.
CrashFaults == {"crash", "request", "reply", "scheduler"}
=============================================================================
